------------------------- MODULE EventStreamProofs -------------------------
(***************************************************************************)
(* For every size of every queue: what a client applies has no gap, and    *)
(* once it has applied the last number, what it shows is right.            *)
(***************************************************************************)
EXTENDS EventStreamProperties, IdSequenceLemmas

States == {"Stopped", "Loading", "Playing", "Paused"}

EngineEvents ==
  [kind : {"TrackEnded", "TrackStarted"}, of : Tracks]
    \cup [kind : {"StateChanged"}, of : States]
    \cup [kind : {"OutputAcquired", "OutputReleased"}, of : {None}]
Events ==
  EngineEvents \cup [kind : {"Resync"}, of : Whole] \cup [kind : {"QueueChanged"}, of : Nat]
    \cup [kind : {"ShuttingDown"}, of : {None}]
Steps == [do : {"emit"}, event : EngineEvents] \cup [do : {"publish"}, status : Statuses]

Messages == [seq : Nat, event : Events]
Snapshots == [seq : Nat, event : [kind : {"Snapshot"}, of : Whole]]

Engines == [status : Statuses, doing : Seq(Steps), moves : Nat]
Queues == [version : Nat, announced : Nat]
Desks == [at : Ats, seq : Nat, state : Whole]
Forwarders ==
  [at : ForwarderAts, seen : Nat, backlog : Receiver(Messages), held : Messages \cup {NoMessage}]
Clients ==
  [phase : {"away", "connecting", "reading", "asking"}, inbox : Receiver(Messages),
   answer : Snapshots \cup {NoMessage}, seen : Nat, breaks : Nat]

(* What is on its way to the client.                                       *)
Pipe ==
  ToSet(forwarder.backlog.unread) \cup ToSet(outbox) \cup ToSet(client.inbox.unread)
    \cup ({forwarder.held, late, client.answer} \ {NoMessage})

---------------------------------------------------------------------------
(* The types, part by part.                                                *)

DaemonTypes ==
  /\ engine \in Engines
  /\ heard \in Receiver(EngineEvents) /\ Len(heard.unread) <= EngineBacklog
  /\ queue \in Queues /\ queue.announced <= queue.version
  /\ phase \in {"running", "stopping"}

ConnectionTypes ==
  /\ seq \in Nat
  /\ desk \in Desks /\ desk.seq <= seq
  /\ forwarder \in Forwarders /\ forwarder.seen <= seq
  /\ Len(forwarder.backlog.unread) <= Backlog
  /\ forwarder.held = NoMessage <=> forwarder.at # "sending"
  /\ desk.at \in {"number", "numbered", "complete"} => forwarder.at = "unborn"
  /\ late \in Messages \cup {NoMessage}
  /\ outbox \in Seq(Messages \cup Snapshots) /\ Len(outbox) <= Outbox

ClientTypes ==
  /\ client \in Clients /\ client.seen <= seq
  /\ Len(client.inbox.unread) <= ClientBacklog
  /\ view \in Whole

(* No message is ahead of the last number given.                           *)
InRange == \A m \in Pipe : m.seq <= seq

Types == DaemonTypes /\ ConnectionTypes /\ ClientTypes /\ InRange

---------------------------------------------------------------------------
(* What the parts are made of.                                             *)

LEMMA MessageFacts ==
  /\ \A m \in Messages :
       /\ m.seq \in Nat /\ m.event \in Events /\ m.event.kind # "Snapshot"
       /\ m # NoMessage /\ m = [seq |-> m.seq, event |-> m.event]
  /\ \A m \in Snapshots :
       /\ m.seq \in Nat /\ m.event.kind = "Snapshot" /\ m.event.of \in Whole
       /\ m # NoMessage
<1>1. \A e \in Events : e.kind \notin {"Snapshot", "none"}
  BY DEF Events, EngineEvents
<1>2. NoMessage.event.kind = "none" /\ NoMessage.seq = 0
  BY DEF NoMessage, Numbered, Event
<1> QED BY <1>1, <1>2 DEF Messages, Snapshots

LEMMA NumberedMessage ==
  ASSUME NEW n \in Nat, NEW e \in Events
  PROVE  /\ Numbered(n, e) \in Messages
         /\ Numbered(n, e).seq = n /\ Numbered(n, e).event = e
BY DEF Numbered, Messages

LEMMA WholeState ==
  ASSUME DaemonTypes
  PROVE  State \in Whole /\ State.status = engine.status /\ State.queue = queue.version
BY DEF DaemonTypes, Engines, Queues, State, Whole

(* What is offered is kept, as the last; the first may go for it.          *)
Kept(S, r, m, capacity, o) ==
  /\ o \in Receiver(S) /\ Len(o.unread) <= capacity
  /\ ToSet(o.unread) \subseteq ToSet(r.unread) \cup {m}
  /\ \/ o.unread = Append(r.unread, m) /\ o.missed = r.missed
     \/ r.unread # <<>> /\ o.unread = Append(Tail(r.unread), m) /\ o.missed = TRUE

LEMMA OfferedProperties ==
  ASSUME NEW S, NEW r \in Receiver(S), NEW m \in S, NEW capacity \in Nat \ {0},
         Len(r.unread) <= capacity
  PROVE  Kept(S, r, m, capacity, Offered(r, m, capacity))
<1>1. r.unread \in Seq(S) /\ r.missed \in BOOLEAN /\ Len(r.unread) \in Nat
  BY LenProperties DEF Receiver
<1>2. CASE Len(r.unread) < capacity
  <2>1. Offered(r, m, capacity) = [r EXCEPT !.unread = Append(@, m)]
    BY <1>2 DEF Offered
  <2>2. /\ Offered(r, m, capacity) \in Receiver(S)
        /\ Offered(r, m, capacity).unread = Append(r.unread, m)
        /\ Offered(r, m, capacity).missed = r.missed
    <3>1. Append(r.unread, m) \in Seq(S)
      BY <1>1, AppendedSet
    <3> QED BY <1>1, <2>1, <3>1 DEF Receiver
  <2> QED BY <1>1, <1>2, <2>2, AppendedSet DEF Kept
<1>3. CASE ~(Len(r.unread) < capacity)
  <2>1. Offered(r, m, capacity) = [unread |-> Append(Tail(r.unread), m), missed |-> TRUE]
    BY <1>3 DEF Offered
  <2>2. r.unread # <<>>
    BY <1>1, <1>3, EmptySeq
  <2>3. /\ Tail(r.unread) \in Seq(S) /\ Len(Tail(r.unread)) = Len(r.unread) - 1
        /\ ToSet(Tail(r.unread)) \subseteq ToSet(r.unread)
    BY <1>1, <2>2, TailSubset
  <2> DEFINE t == Tail(r.unread)
  <2>4. t \in Seq(S) /\ Len(t) = Len(r.unread) - 1 /\ ToSet(t) \subseteq ToSet(r.unread)
    BY <2>3
  <2> HIDE DEF t
  <2>5. /\ Append(t, m) \in Seq(S) /\ Len(Append(t, m)) = Len(t) + 1
        /\ ToSet(Append(t, m)) \subseteq ToSet(t) \cup {m}
    BY <2>4, AppendedSet
  <2>6. Len(Append(t, m)) <= capacity
    BY <1>1, <2>4, <2>5
  <2>7. ToSet(Append(t, m)) \subseteq ToSet(r.unread) \cup {m}
    BY <2>4, <2>5
  <2>8. Offered(r, m, capacity) = [unread |-> Append(t, m), missed |-> TRUE]
    BY <2>1 DEF t
  <2>9. /\ Offered(r, m, capacity) \in Receiver(S)
        /\ Offered(r, m, capacity).unread = Append(t, m) /\ Offered(r, m, capacity).missed
    BY <2>5, <2>8 DEF Receiver
  <2> QED BY <2>2, <2>6, <2>7, <2>9 DEF t, Kept
<1> QED BY <1>2, <1>3

LEMMA TakenProperties ==
  ASSUME NEW S, NEW r \in Receiver(S), r.unread # <<>>
  PROVE  /\ Taken(r) \in Receiver(S) /\ Taken(r).missed = r.missed
         /\ Taken(r).unread = Tail(r.unread) /\ Head(r.unread) \in S
         /\ Len(Taken(r).unread) = Len(r.unread) - 1
         /\ ToSet(Taken(r).unread) \subseteq ToSet(r.unread)
         /\ Head(r.unread) = r.unread[1] /\ Head(r.unread) \in ToSet(r.unread)
<1>1. r.unread \in Seq(S) /\ Len(r.unread) \in Nat \ {0} /\ DOMAIN r.unread = 1 .. Len(r.unread)
  BY LenProperties, EmptySeq DEF Receiver
<1>2. Head(r.unread) = r.unread[1] /\ r.unread[1] \in S
  BY <1>1, HeadTailProperties, ElementOfSeq
<1>3. Taken(r) \in Receiver(S) /\ Taken(r).missed = r.missed /\ Taken(r).unread = Tail(r.unread)
  BY <1>1, TailSubset DEF Taken, Receiver
<1> QED BY <1>1, <1>2, <1>3, TailSubset DEF ToSet

LEMMA ToldProperties ==
  ASSUME NEW S, NEW r \in Receiver(S)
  PROVE  /\ Told(r) \in Receiver(S) /\ Told(r).unread = r.unread /\ ~Told(r).missed
BY DEF Told, Receiver

LEMMA ListeningProperties ==
  /\ \A S : Listening \in Receiver(S)
  /\ Listening.unread = <<>> /\ ~Listening.missed /\ ToSet(Listening.unread) = {}
<1>1. \A S : <<>> \in Seq(S)
  BY EmptySeq
<1> QED BY <1>1 DEF Listening, Receiver, ToSet

LEMMA TakingProperties ==
  ASSUME NEW at \in Ats
  PROVE  /\ Taking(at) \in Desks /\ Taking(at).at = at /\ Taking(at).seq = 0
         /\ Idle \in Statuses
BY DEF Taking, Desks, Idle, Statuses, Whole

LEMMA OffProperties ==
  /\ Off \in Forwarders /\ Off.at = "off" /\ Off.seen = 0 /\ Off.backlog = Listening
  /\ Off.held = NoMessage
  /\ [Off EXCEPT !.at = "unborn"] \in Forwarders
  /\ [Off EXCEPT !.at = "unborn"].at = "unborn" /\ [Off EXCEPT !.at = "unborn"].seen = 0
  /\ [Off EXCEPT !.at = "unborn"].backlog = Listening
  /\ [Off EXCEPT !.at = "unborn"].held = NoMessage
BY ListeningProperties DEF Off, Forwarders, ForwarderAts

---------------------------------------------------------------------------
(* The engine's handlers.  A calm sequence leaves the state at x; one that *)
(* turns says that it is y, after it was published, and is calm otherwise. *)

Says(step) == step.do = "emit" /\ step.event.kind = "StateChanged"
CalmStep(step, x) == ~Says(step) /\ (step.do = "publish" => step.status.state = x)
Calm(s, x) == \A i \in DOMAIN s : CalmStep(s[i], x)
TurnsAt(s, k, x, y) ==
  /\ Says(s[k]) /\ s[k].event.of = y
  /\ \A j \in DOMAIN s : j > k => CalmStep(s[j], y)
  /\ \/ x = y /\ \A j \in DOMAIN s : j < k => CalmStep(s[j], x)
     \/ /\ k > 1 /\ s[k - 1].do = "publish" /\ s[k - 1].status.state = y
        /\ \A j \in DOMAIN s : j < k - 1 => CalmStep(s[j], x)
Turns(s, x, y) == \E k \in DOMAIN s : TurnsAt(s, k, x, y)
Moves(s, x, y) == s \in Seq(Steps) /\ ((x = y /\ Calm(s, x)) \/ Turns(s, x, y))

LEMMA CalmThenMoves ==
  ASSUME NEW x, NEW y, NEW a \in Seq(Steps), Calm(a, x), NEW b \in Seq(Steps), Moves(b, x, y)
  PROVE  Moves(a \o b, x, y)
<1> DEFINE c == a \o b
<1>1. /\ Len(a) \in Nat /\ DOMAIN a = 1 .. Len(a)
      /\ Len(b) \in Nat /\ DOMAIN b = 1 .. Len(b)
  BY LenProperties
<1>2. /\ c \in Seq(Steps) /\ DOMAIN c = 1 .. (Len(a) + Len(b))
      /\ \A i \in DOMAIN c : c[i] = IF i <= Len(a) THEN a[i] ELSE b[i - Len(a)]
  BY <1>1, ConcatProperties, LenProperties
<1> HIDE DEF c
<1>3. CASE x = y /\ Calm(b, x)
  <2>1. Calm(c, x)
    BY <1>1, <1>2, <1>3 DEF Calm
  <2> QED BY <1>2, <1>3, <2>1 DEF Moves, c
<1>4. CASE Turns(b, x, y)
  <2>1. PICK k \in DOMAIN b : TurnsAt(b, k, x, y)
    BY <1>4 DEF Turns
  <2> DEFINE m == Len(a) + k
  <2>2. m \in DOMAIN c /\ c[m] = b[k] /\ (k > 1 => m > 1 /\ c[m - 1] = b[k - 1])
    <3>1. m \in DOMAIN c /\ ~(m <= Len(a)) /\ m - Len(a) = k
      BY <1>1, <1>2
    <3>2. ASSUME k > 1
          PROVE  m > 1 /\ m - 1 \in DOMAIN c /\ ~(m - 1 <= Len(a)) /\ (m - 1) - Len(a) = k - 1
      BY <1>1, <1>2, <3>2
    <3> QED BY <1>2, <3>1, <3>2
  <2>3. \A j \in DOMAIN c : j > m => CalmStep(c[j], y)
    BY <1>1, <1>2, <2>1 DEF TurnsAt
  <2>4. ASSUME NEW l \in {0, 1}, \A j \in DOMAIN b : j < k - l => CalmStep(b[j], x)
        PROVE  \A j \in DOMAIN c : j < m - l => CalmStep(c[j], x)
    BY <1>1, <1>2, <2>4 DEF Calm
  <2>5. TurnsAt(c, m, x, y)
    <3>1. Says(c[m]) /\ c[m].event.of = y
      BY <2>1, <2>2 DEF TurnsAt
    <3>2. CASE x = y /\ \A j \in DOMAIN b : j < k => CalmStep(b[j], x)
      <4>1. \A j \in DOMAIN b : j < k - 0 => CalmStep(b[j], x)
        BY <1>1, <3>2
      <4>2. \A j \in DOMAIN c : j < m - 0 => CalmStep(c[j], x)
        BY <2>4, <4>1
      <4>3. \A j \in DOMAIN c : j < m => CalmStep(c[j], x)
        BY <1>1, <1>2, <4>2
      <4> QED BY <2>3, <3>1, <3>2, <4>3 DEF TurnsAt
    <3>3. CASE /\ k > 1 /\ b[k - 1].do = "publish" /\ b[k - 1].status.state = y
               /\ \A j \in DOMAIN b : j < k - 1 => CalmStep(b[j], x)
      <4>1. \A j \in DOMAIN c : j < m - 1 => CalmStep(c[j], x)
        BY <2>4, <3>3
      <4> QED BY <2>2, <2>3, <3>1, <3>3, <4>1 DEF TurnsAt
    <3> QED BY <2>1, <3>2, <3>3 DEF TurnsAt
  <2> QED BY <1>2, <2>2, <2>5 DEF Moves, Turns, c
<1> QED BY <1>3, <1>4 DEF Moves

LEMMA MovesThenCalm ==
  ASSUME NEW x, NEW y, NEW a \in Seq(Steps), Moves(a, x, y), NEW b \in Seq(Steps), Calm(b, y)
  PROVE  Moves(a \o b, x, y)
<1> DEFINE c == a \o b
<1>1. /\ Len(a) \in Nat /\ DOMAIN a = 1 .. Len(a)
      /\ Len(b) \in Nat /\ DOMAIN b = 1 .. Len(b)
  BY LenProperties
<1>2. /\ c \in Seq(Steps) /\ DOMAIN c = 1 .. (Len(a) + Len(b))
      /\ \A i \in DOMAIN c : c[i] = IF i <= Len(a) THEN a[i] ELSE b[i - Len(a)]
  BY <1>1, ConcatProperties, LenProperties
<1> HIDE DEF c
<1>3. CASE x = y /\ Calm(a, x)
  <2>1. Calm(c, x)
    BY <1>1, <1>2, <1>3 DEF Calm
  <2> QED BY <1>2, <1>3, <2>1 DEF Moves, c
<1>4. CASE Turns(a, x, y)
  <2>1. PICK k \in DOMAIN a : TurnsAt(a, k, x, y)
    BY <1>4 DEF Turns
  <2>2. \A j \in DOMAIN a : j \in DOMAIN c /\ c[j] = a[j]
    BY <1>1, <1>2
  <2>3. \A j \in DOMAIN c : j > k => CalmStep(c[j], y)
    BY <1>1, <1>2, <2>1 DEF TurnsAt, Calm
  <2>4. \A j \in DOMAIN c : j < k => j \in DOMAIN a
    BY <1>1, <1>2
  <2>5. \A j \in DOMAIN c : j < k - 1 => j \in DOMAIN a
    BY <1>1, <1>2
  <2>6. k > 1 => k - 1 \in DOMAIN a
    BY <1>1
  <2>7. TurnsAt(c, k, x, y)
    BY <2>1, <2>2, <2>3, <2>4, <2>5, <2>6 DEF TurnsAt
  <2> QED BY <1>2, <2>2, <2>7 DEF Moves, Turns, c
<1> QED BY <1>3, <1>4 DEF Moves

(* The pieces handlers are made of.                                        *)
LEMMA PublishIsCalm ==
  ASSUME NEW status \in Statuses
  PROVE  Publish(status) \in Seq(Steps) /\ Calm(Publish(status), status.state)
<1> DEFINE step == [do |-> "publish", status |-> status]
<1>1. step \in Steps /\ step.do = "publish" /\ step.status = status
  BY DEF Steps
<1> HIDE DEF step
<1>2. CalmStep(step, status.state)
  BY <1>1 DEF CalmStep, Says
<1>3. Publish(status) = <<step>>
  BY DEF Publish, step
<1> QED BY <1>1, <1>2, <1>3 DEF Calm

LEMMA EmitIsCalm ==
  ASSUME NEW kind, NEW of, NEW x, kind # "StateChanged",
         Event(kind, of) \in EngineEvents
  PROVE  Emit(kind, of) \in Seq(Steps) /\ Calm(Emit(kind, of), x)
<1> DEFINE step == [do |-> "emit", event |-> Event(kind, of)]
<1>1. step \in Steps /\ step.do = "emit" /\ step.event.kind = kind
  BY DEF Steps, Event
<1> HIDE DEF step
<1>2. CalmStep(step, x)
  BY <1>1 DEF CalmStep, Says
<1>3. Emit(kind, of) = <<step>>
  BY DEF Emit, step
<1> QED BY <1>1, <1>2, <1>3 DEF Calm

LEMMA CalmJoined ==
  ASSUME NEW x, NEW a \in Seq(Steps), Calm(a, x), NEW b \in Seq(Steps), Calm(b, x)
  PROVE  a \o b \in Seq(Steps) /\ Calm(a \o b, x)
<1> DEFINE c == a \o b
<1>1. /\ Len(a) \in Nat /\ DOMAIN a = 1 .. Len(a)
      /\ Len(b) \in Nat /\ DOMAIN b = 1 .. Len(b)
  BY LenProperties
<1>2. /\ c \in Seq(Steps) /\ DOMAIN c = 1 .. (Len(a) + Len(b))
      /\ \A i \in DOMAIN c : c[i] = IF i <= Len(a) THEN a[i] ELSE b[i - Len(a)]
  BY <1>1, ConcatProperties, LenProperties
<1> HIDE DEF c
<1>3. Calm(c, x)
  BY <1>1, <1>2 DEF Calm
<1> QED BY <1>2, <1>3 DEF c

LEMMA NothingIsCalm == \A x : <<>> \in Seq(Steps) /\ Calm(<<>>, x)
BY DEF Calm

LEMMA BecomeMoves ==
  ASSUME NEW from \in Statuses, NEW to \in Statuses
  PROVE  Become(from, to) \in Seq(Steps) /\ Moves(Become(from, to), from.state, to.state)
<1> DEFINE say == [do |-> "emit", event |-> Event("StateChanged", to.state)]
           publish == [do |-> "publish", status |-> to]
<1>1. publish \in Steps /\ publish.do = "publish" /\ publish.status = to
  BY DEF Steps
<1>2. /\ Event("StateChanged", to.state) \in EngineEvents
      /\ Event("StateChanged", to.state).kind = "StateChanged"
      /\ Event("StateChanged", to.state).of = to.state
  BY DEF EngineEvents, Event, Statuses, States
<1>3. say \in Steps /\ Says(say) /\ say.event.of = to.state
  BY <1>2 DEF Steps, Says
<1> HIDE DEF say, publish
<1>4. CASE from.state = to.state
  <2>1. Become(from, to) = Publish(to) \o <<>>
    BY <1>4 DEF Become
  <2>2. Publish(to) \in Seq(Steps) /\ Calm(Publish(to), to.state)
    BY PublishIsCalm
  <2>3. Become(from, to) \in Seq(Steps) /\ Calm(Become(from, to), to.state)
    BY <2>1, <2>2, NothingIsCalm, CalmJoined
  <2> QED BY <1>4, <2>3 DEF Moves
<1>5. CASE from.state # to.state
  <2>1. Become(from, to) = <<publish>> \o <<say>>
    BY <1>5 DEF Become, Publish, Emit, publish, say
  <2> DEFINE c == <<publish>> \o <<say>>
  <2>2. <<publish>> \in Seq(Steps) /\ <<say>> \in Seq(Steps) /\ Len(<<publish>>) = 1 /\ Len(<<say>>) = 1
        /\ <<publish>>[1] = publish /\ <<say>>[1] = say
    BY <1>1, <1>3
  <2>3. c \in Seq(Steps) /\ Len(c) = 2 /\ c[1] = publish /\ c[2] = say
    BY <2>2, ConcatProperties
  <2>4. DOMAIN c = 1 .. 2
    BY <2>3, LenProperties
  <2> HIDE DEF c
  <2>5. TurnsAt(c, 2, from.state, to.state)
    BY <1>1, <1>3, <2>3, <2>4 DEF TurnsAt
  <2>6. 2 \in DOMAIN c
    BY <2>4
  <2>7. Moves(c, from.state, to.state)
    BY <2>3, <2>5, <2>6 DEF Moves, Turns
  <2> QED BY <2>1, <2>3, <2>7 DEF c
<1> QED BY <1>4, <1>5

LEMMA EndingIsCalm ==
  ASSUME NEW status \in Statuses
  PROVE  Ending(status) \in Seq(Steps) /\ Calm(Ending(status), status.state)
<1>1. CASE status.track = None
  BY <1>1, NothingIsCalm DEF Ending
<1>2. CASE status.track # None
  <2>1. Event("TrackEnded", status.track) \in EngineEvents
    BY <1>2 DEF Statuses, EngineEvents, Event
  <2> QED BY <1>2, <2>1, EmitIsCalm DEF Ending
<1> QED BY <1>1, <1>2

LEMMA AcquireIsCalm ==
  ASSUME NEW status \in Statuses
  PROVE  Acquire(status) \in Seq(Steps) /\ Calm(Acquire(status), status.state)
<1>1. CASE status.output = "Released"
  <2> DEFINE open == [status EXCEPT !.output = "Open"]
  <2>1. open \in Statuses /\ open.state = status.state
    BY DEF Statuses
  <2>2. Event("OutputAcquired", None) \in EngineEvents
    BY DEF EngineEvents, Event
  <2> HIDE DEF open
  <2>3. Publish(open) \in Seq(Steps) /\ Calm(Publish(open), status.state)
    BY <2>1, PublishIsCalm
  <2>4. Emit("OutputAcquired", None) \in Seq(Steps) /\ Calm(Emit("OutputAcquired", None), status.state)
    BY <2>2, EmitIsCalm
  <2>5. Acquire(status) = Publish(open) \o Emit("OutputAcquired", None)
    BY <1>1 DEF Acquire, open
  <2> QED BY <2>3, <2>4, <2>5, CalmJoined
<1>2. CASE status.output # "Released"
  BY <1>2, NothingIsCalm DEF Acquire
<1> QED BY <1>1, <1>2

LEMMA LoadMoves ==
  ASSUME NEW status \in Statuses
  PROVE  \E y : Moves(Load(status), status.state, y)
<1> DEFINE to == [status EXCEPT !.state = "Loading", !.track = None]
<1>1. to \in Statuses
  BY DEF Statuses
<1>2. Load(status) = Ending(status) \o Become(status, to)
  BY DEF Load
<1> HIDE DEF to
<1> QED BY <1>1, <1>2, EndingIsCalm, BecomeMoves, CalmThenMoves

LEMMA StopMoves ==
  ASSUME NEW status \in Statuses
  PROVE  \E y : Moves(Stop(status), status.state, y)
<1>1. Idle \in Statuses
  BY DEF Idle, Statuses
<1> QED BY <1>1, EndingIsCalm, BecomeMoves, CalmThenMoves DEF Stop

LEMMA StartMoves ==
  ASSUME NEW status \in Statuses, NEW t \in Tracks
  PROVE  \E y : Moves(Start(status, t), status.state, y)
<1> DEFINE to == [state |-> "Playing", track |-> t, output |-> "Open"]
           before == Acquire(status) \o Emit("TrackStarted", t)
<1>1. to \in Statuses
  BY DEF Statuses
<1>2. Start(status, t) = before \o Become(status, to)
  BY DEF Start
<1>3. Event("TrackStarted", t) \in EngineEvents
  BY DEF EngineEvents, Event
<1>4. Emit("TrackStarted", t) \in Seq(Steps) /\ Calm(Emit("TrackStarted", t), status.state)
  BY <1>3, EmitIsCalm
<1>5. before \in Seq(Steps) /\ Calm(before, status.state)
  BY <1>4, AcquireIsCalm, CalmJoined
<1> HIDE DEF to, before
<1> QED BY <1>1, <1>2, <1>5, BecomeMoves, CalmThenMoves

LEMMA CrossMoves ==
  ASSUME NEW status \in Statuses, NEW t \in Tracks
  PROVE  \E y : Moves(Cross(status, t), status.state, y)
<1> DEFINE to == [status EXCEPT !.track = t]
           before == Ending(status) \o Publish(to)
<1>1. to \in Statuses /\ to.state = status.state
  BY DEF Statuses
<1>2. Cross(status, t) = before \o Emit("TrackStarted", t)
  BY DEF Cross
<1> HIDE DEF to
<1>3. Event("TrackStarted", t) \in EngineEvents
  BY DEF EngineEvents, Event
<1>4. Emit("TrackStarted", t) \in Seq(Steps) /\ Calm(Emit("TrackStarted", t), status.state)
  BY <1>3, EmitIsCalm
<1>5. Publish(to) \in Seq(Steps) /\ Calm(Publish(to), status.state)
  BY <1>1, PublishIsCalm
<1>6. before \in Seq(Steps) /\ Calm(before, status.state)
  BY <1>5, EndingIsCalm, CalmJoined
<1> HIDE DEF before
<1>7. Cross(status, t) \in Seq(Steps) /\ Calm(Cross(status, t), status.state)
  BY <1>2, <1>4, <1>6, CalmJoined
<1> QED BY <1>7 DEF Moves

LEMMA PauseMoves ==
  ASSUME NEW status \in Statuses
  PROVE  \E y : Moves(Pause(status), status.state, y)
<1> DEFINE to == [status EXCEPT !.state = "Paused"]
<1>1. to \in Statuses
  BY DEF Statuses
<1>2. Pause(status) = Become(status, to)
  BY DEF Pause
<1> HIDE DEF to
<1> QED BY <1>1, <1>2, BecomeMoves

LEMMA ResumeMoves ==
  ASSUME NEW status \in Statuses
  PROVE  \E y : Moves(Resume(status), status.state, y)
<1> DEFINE to == [status EXCEPT !.state = "Playing", !.output = "Open"]
<1>1. to \in Statuses
  BY DEF Statuses
<1>2. Resume(status) = Acquire(status) \o Become(status, to)
  BY DEF Resume
<1> HIDE DEF to
<1> QED BY <1>1, <1>2, AcquireIsCalm, BecomeMoves, CalmThenMoves

LEMMA ReleaseMoves ==
  ASSUME NEW status \in Statuses
  PROVE  \E y : Moves(Release(status), status.state, y)
<1> DEFINE paused == [status EXCEPT !.state = "Paused"]
           released == [status EXCEPT !.state = "Paused", !.output = "Released"]
           before == Become(status, paused) \o Publish(released)
<1>1. /\ paused \in Statuses /\ paused.state = "Paused"
      /\ released \in Statuses /\ released.state = "Paused"
  BY DEF Statuses
<1>2. Release(status) = before \o Emit("OutputReleased", None)
  BY DEF Release
<1> HIDE DEF paused, released
<1>3. Event("OutputReleased", None) \in EngineEvents
  BY DEF EngineEvents, Event
<1>4. Emit("OutputReleased", None) \in Seq(Steps) /\ Calm(Emit("OutputReleased", None), "Paused")
  BY <1>3, EmitIsCalm
<1>5. Publish(released) \in Seq(Steps) /\ Calm(Publish(released), "Paused")
  BY <1>1, PublishIsCalm
<1>6. Become(status, paused) \in Seq(Steps) /\ Moves(Become(status, paused), status.state, "Paused")
  BY <1>1, BecomeMoves
<1>7. Moves(before, status.state, "Paused")
  BY <1>5, <1>6, MovesThenCalm
<1>8. before \in Seq(Steps)
  BY <1>7 DEF Moves
<1> HIDE DEF before
<1> QED BY <1>2, <1>4, <1>7, <1>8, MovesThenCalm

(* Every handler says the state it leaves, if that is another.             *)
LEMMA HandlersMove ==
  ASSUME NEW status \in Statuses, NEW d \in Handlers(status)
  PROVE  \E y : Moves(d, status.state, y)
<1>1. \/ d \in {Load(status), Stop(status), Pause(status), Resume(status), Release(status)}
      \/ \E t \in Tracks : d \in {Start(status, t), Cross(status, t)}
  BY DEF Handlers
<1> QED BY <1>1, LoadMoves, StopMoves, PauseMoves, ResumeMoves, ReleaseMoves, StartMoves, CrossMoves

---------------------------------------------------------------------------
(* The types are kept, by what the engine and fan_in do.                   *)

LEMMA UnchangedPipe ==
  ASSUME UNCHANGED <<forwarder, late, outbox, client>>
  PROVE  Pipe' = Pipe
BY DEF Pipe

LEMMA PipeParts ==
  /\ ToSet(forwarder.backlog.unread) \subseteq Pipe
  /\ ToSet(outbox) \subseteq Pipe
  /\ ToSet(client.inbox.unread) \subseteq Pipe
  /\ \A m \in {forwarder.held, late, client.answer} : m # NoMessage => m \in Pipe
  /\ \A m \in Pipe :
       \/ m \in ToSet(forwarder.backlog.unread) \/ m \in ToSet(outbox)
       \/ m \in ToSet(client.inbox.unread)
       \/ m # NoMessage /\ m \in {forwarder.held, late, client.answer}
BY DEF Pipe

LEMMA PipeNumbers ==
  ASSUME ConnectionTypes, ClientTypes
  PROVE  \A m \in Pipe : m \in Messages \cup Snapshots /\ m.seq \in Nat
<1>1. /\ ToSet(forwarder.backlog.unread) \subseteq Messages
      /\ ToSet(client.inbox.unread) \subseteq Messages
      /\ ToSet(outbox) \subseteq Messages \cup Snapshots
  <2>1. \A S : \A s \in Seq(S) : ToSet(s) \subseteq S
    BY LenProperties, ElementOfSeq DEF ToSet
  <2>2. /\ forwarder.backlog.unread \in Seq(Messages) /\ client.inbox.unread \in Seq(Messages)
        /\ outbox \in Seq(Messages \cup Snapshots)
    BY DEF ConnectionTypes, ClientTypes, Forwarders, Clients, Receiver
  <2> QED BY <2>1, <2>2
<1>2. {forwarder.held, late, client.answer} \subseteq Messages \cup Snapshots \cup {NoMessage}
  BY DEF ConnectionTypes, ClientTypes, Forwarders, Clients
<1> QED BY <1>1, <1>2, MessageFacts DEF Pipe

LEMMA EngineTypes ==
  ASSUME DaemonTypes, EngineBegins \/ EngineGoesOn \/ EditQueue
  PROVE  DaemonTypes' /\ UNCHANGED <<seq, desk, forwarder, late, outbox, client, view>>
<1> USE DEF DaemonTypes
<1>1. CASE EngineBegins
  <2>1. PICK d \in Handlers(engine.status) :
          engine' = [engine EXCEPT !.doing = d, !.moves = @ + 1]
    BY <1>1 DEF EngineBegins
  <2>2. d \in Seq(Steps)
    <3>1. engine.status \in Statuses
      BY DEF Engines
    <3> QED BY <3>1, HandlersMove DEF Moves
  <2>3. engine' \in Engines
    <3>1. engine \in Engines /\ engine.moves + 1 \in Nat
      BY DEF Engines
    <3> QED BY <2>1, <2>2, <3>1, Zenon DEF Engines
  <2> QED BY <1>1, <2>3 DEF EngineBegins, connection
<1>2. CASE EngineGoesOn
  <2> DEFINE step == Head(engine.doing)
             rest == [engine EXCEPT !.doing = Tail(@)]
  <2>1. step \in Steps /\ Tail(engine.doing) \in Seq(Steps)
    BY <1>2, HeadTailProperties DEF Engines, EngineGoesOn
  <2>2. rest \in Engines
    BY <2>1 DEF Engines
  <2>3. UNCHANGED <<queue, seq, phase, desk, forwarder, late, outbox, client, view>>
    BY <1>2 DEF EngineGoesOn, connection
  <2>4. CASE step.do = "publish"
    <3>1. engine' = [rest EXCEPT !.status = step.status] /\ heard' = heard
      BY <1>2, <2>4 DEF EngineGoesOn
    <3>2. step.status \in Statuses
      BY <2>1, <2>4 DEF Steps
    <3>3. engine' \in Engines
      BY <2>2, <3>1, <3>2 DEF Engines
    <3> QED BY <2>3, <3>1, <3>3
  <2>5. CASE step.do # "publish"
    <3>1. engine' = rest /\ heard' = Offered(heard, step.event, EngineBacklog)
      BY <1>2, <2>5 DEF EngineGoesOn
    <3>2. step.event \in EngineEvents
      BY <2>1, <2>5 DEF Steps
    <3>3. EngineBacklog \in Nat \ {0}
      BY EventStreamAssumption
    <3>4. heard' \in Receiver(EngineEvents) /\ Len(heard'.unread) <= EngineBacklog
      <4>1. Kept(EngineEvents, heard, step.event, EngineBacklog, heard')
        BY <3>1, <3>2, <3>3, OfferedProperties
      <4> QED BY <4>1 DEF Kept
    <3> QED BY <2>2, <2>3, <3>1, <3>4
  <2> QED BY <2>4, <2>5
<1>3. CASE EditQueue
  <2>1. queue' \in Queues /\ queue'.announced <= queue'.version
    BY <1>3 DEF EditQueue, Queues
  <2> QED BY <1>3, <2>1 DEF EditQueue, connection
<1> QED BY <1>1, <1>2, <1>3

(* What publishing an event does to the connection.                        *)
Publishes(e) ==
  /\ seq' = seq + 1
  /\ UNCHANGED <<desk, late, outbox, client, view>>
  /\ forwarder' \in Forwarders
  /\ forwarder'.at = forwarder.at /\ forwarder'.seen = forwarder.seen
  /\ forwarder'.held = forwarder.held
  /\ \/ forwarder.at = "off" /\ forwarder'.backlog = forwarder.backlog
     \/ Kept(Messages, forwarder.backlog, Numbered(seq + 1, e), Backlog, forwarder'.backlog)

LEMMA PublishEventPublishes ==
  ASSUME ConnectionTypes, NEW e \in Events, PublishEvent(e)
  PROVE  Publishes(e)
<1> DEFINE m == Numbered(seq + 1, e)
<1>1. m \in Messages
  BY NumberedMessage DEF ConnectionTypes
<1>2. /\ forwarder \in Forwarders /\ forwarder.backlog \in Receiver(Messages)
      /\ Len(forwarder.backlog.unread) <= Backlog /\ Backlog \in Nat \ {0}
  BY EventStreamAssumption DEF ConnectionTypes, Forwarders
<1>3. seq' = seq + 1 /\ forwarder' = Reached(forwarder, m) /\ UNCHANGED <<desk, late, outbox, client, view>>
  BY DEF PublishEvent
<1> HIDE DEF m
<1>4. CASE forwarder.at = "off"
  <2>1. forwarder' = forwarder
    BY <1>3, <1>4 DEF Reached
  <2> QED BY <1>2, <1>3, <1>4, <2>1 DEF Publishes
<1>5. CASE forwarder.at # "off"
  <2> DEFINE o == Offered(forwarder.backlog, m, Backlog)
  <2>1. forwarder' = [forwarder EXCEPT !.backlog = o]
    BY <1>3, <1>5 DEF Reached
  <2>2. Kept(Messages, forwarder.backlog, m, Backlog, o)
    BY <1>1, <1>2, OfferedProperties
  <2> HIDE DEF o
  <2>3. /\ forwarder' \in Forwarders /\ forwarder'.at = forwarder.at
        /\ forwarder'.seen = forwarder.seen /\ forwarder'.held = forwarder.held
        /\ forwarder'.backlog = o
    BY <1>2, <2>1, <2>2 DEF Forwarders, Kept
  <2> QED BY <1>3, <2>2, <2>3 DEF Publishes, Kept, m
<1> QED BY <1>4, <1>5

LEMMA PublishesTypes ==
  ASSUME Types, NEW e \in Events, Publishes(e)
  PROVE  /\ ConnectionTypes' /\ ClientTypes' /\ InRange'
         /\ Pipe' \subseteq Pipe \cup {Numbered(seq + 1, e)}
<1>1. seq \in Nat /\ seq' = seq + 1 /\ desk' = desk /\ desk.seq \in Nat /\ forwarder.seen \in Nat /\ client.seen \in Nat
  BY DEF Types, ConnectionTypes, ClientTypes, Publishes, Desks, Forwarders, Clients
<1>2. ConnectionTypes'
  BY <1>1 DEF Types, ConnectionTypes, Publishes, Kept
<1>3. ClientTypes'
  BY <1>1 DEF Types, ClientTypes, Publishes
<1>4. Pipe' \subseteq Pipe \cup {Numbered(seq + 1, e)}
  BY DEF Pipe, Publishes, Kept
<1>5. Numbered(seq + 1, e).seq = seq + 1
  BY <1>1, NumberedMessage
<1>6. \A m \in Pipe : m.seq <= seq /\ m.seq \in Nat
  BY PipeNumbers DEF Types, InRange
<1>7. InRange'
  BY <1>1, <1>4, <1>5, <1>6 DEF InRange
<1> QED BY <1>2, <1>3, <1>4, <1>7

FanIn == FanInEvent \/ FanInLagged \/ FanInQueue \/ RequestShutdown

LEMMA FanInTypes ==
  ASSUME Types, FanIn
  PROVE  /\ DaemonTypes' /\ engine' = engine
         /\ \E e \in Events :
              /\ Publishes(e)
              /\ \/ /\ FanInEvent /\ ~heard.missed /\ heard.unread # <<>> /\ queue' = queue
                    /\ e = heard.unread[1] /\ e \in EngineEvents
                    /\ heard'.missed = heard.missed /\ heard'.unread = Tail(heard.unread)
                 \/ /\ FanInLagged /\ heard.missed /\ queue' = queue
                    /\ e = Event("Resync", State) /\ State \in Whole
                    /\ heard'.unread = heard.unread /\ ~heard'.missed
                 \/ /\ FanInQueue /\ heard' = heard /\ e = Event("QueueChanged", queue.version)
                    /\ queue'.announced = queue.version /\ queue'.version = queue.version
                 \/ /\ RequestShutdown /\ heard' = heard /\ queue' = queue
                    /\ e = Event("ShuttingDown", None)
<1> USE DEF DaemonTypes
<1>1. DaemonTypes /\ ConnectionTypes
  BY DEF Types
<1>2. CASE FanInEvent
  <2> DEFINE e == Head(heard.unread)
  <2>1. /\ heard' = Taken(heard) /\ ~heard.missed /\ heard.unread # <<>> /\ PublishEvent(e)
        /\ engine' = engine /\ queue' = queue /\ phase' = phase
    BY <1>2 DEF FanInEvent
  <2>2. /\ heard' \in Receiver(EngineEvents) /\ heard'.missed = heard.missed
        /\ heard'.unread = Tail(heard.unread) /\ e \in EngineEvents /\ e = heard.unread[1]
        /\ Len(heard'.unread) = Len(heard.unread) - 1
    BY <1>1, <2>1, TakenProperties
  <2>3. Len(heard.unread) \in Nat
    BY <1>1, LenProperties DEF Receiver
  <2>4. EngineBacklog \in Nat /\ Len(heard.unread) <= EngineBacklog
    BY <1>1, EventStreamAssumption
  <2>5. DaemonTypes'
    BY <1>1, <2>1, <2>2, <2>3, <2>4
  <2>6. e \in Events
    BY <2>2 DEF Events
  <2> HIDE DEF e
  <2>7. Publishes(e)
    BY <1>1, <2>1, <2>6, PublishEventPublishes
  <2> QED BY <1>2, <2>1, <2>2, <2>5, <2>6, <2>7
<1>3. CASE FanInLagged
  <2> DEFINE e == Event("Resync", State)
  <2>1. /\ heard' = Told(heard) /\ heard.missed /\ PublishEvent(e)
        /\ engine' = engine /\ queue' = queue /\ phase' = phase
    BY <1>3 DEF FanInLagged
  <2>2. heard' \in Receiver(EngineEvents) /\ heard'.unread = heard.unread /\ ~heard'.missed
    BY <1>1, <2>1, ToldProperties
  <2>3. DaemonTypes'
    BY <1>1, <2>1, <2>2
  <2>4. State \in Whole
    BY <1>1, WholeState
  <2>5. e \in Events
    BY <2>4 DEF Events, Event
  <2> HIDE DEF e
  <2>6. Publishes(e)
    BY <1>1, <2>1, <2>5, PublishEventPublishes
  <2> QED BY <1>3, <2>1, <2>2, <2>3, <2>4, <2>5, <2>6 DEF e
<1>4. CASE FanInQueue
  <2> DEFINE e == Event("QueueChanged", queue.version)
  <2>1. /\ heard' = heard /\ PublishEvent(e) /\ engine' = engine /\ phase' = phase
        /\ queue' = [queue EXCEPT !.announced = queue.version]
    BY <1>4 DEF FanInQueue
  <2>2. queue' \in Queues /\ queue'.announced = queue.version /\ queue'.version = queue.version
    BY <1>1, <2>1 DEF Queues
  <2>3. DaemonTypes'
    BY <1>1, <2>1, <2>2 DEF Queues
  <2>4. e \in Events
    BY <1>1 DEF Events, Event, Queues
  <2> HIDE DEF e
  <2>5. Publishes(e)
    BY <1>1, <2>1, <2>4, PublishEventPublishes
  <2> QED BY <1>4, <2>1, <2>2, <2>3, <2>4, <2>5 DEF e
<1>5. CASE RequestShutdown
  <2> DEFINE e == Event("ShuttingDown", None)
  <2>1. /\ heard' = heard /\ PublishEvent(e) /\ engine' = engine /\ queue' = queue
        /\ phase' = "stopping"
    BY <1>5 DEF RequestShutdown
  <2>2. DaemonTypes'
    BY <1>1, <2>1
  <2>3. e \in Events
    BY DEF Events, Event
  <2> HIDE DEF e
  <2>4. Publishes(e)
    BY <1>1, <2>1, <2>3, PublishEventPublishes
  <2> QED BY <1>5, <2>1, <2>2, <2>3, <2>4 DEF e
<1> QED BY <1>2, <1>3, <1>4, <1>5 DEF FanIn

---------------------------------------------------------------------------
(* The types are kept by what a connection and a client do; but for a      *)
(* snapshot and the state that makes up for a loss, nothing new is sent.   *)

LEMMA ElementsOfSeq ==
  ASSUME NEW S, NEW s \in Seq(S)
  PROVE  ToSet(s) \subseteq S
BY LenProperties, ElementOfSeq DEF ToSet

LEMMA ListenTypes ==
  ASSUME Types, Listen
  PROVE  /\ ConnectionTypes' /\ ClientTypes' /\ Pipe' \subseteq Pipe
         /\ late' = NoMessage \/ late' \in ToSet(forwarder.backlog.unread)
         /\ forwarder'.at = "unborn" /\ forwarder'.backlog = Listening /\ forwarder'.held = NoMessage
         /\ desk'.at = "number" /\ desk'.seq = 0 /\ UNCHANGED <<daemon, seq, outbox, client, view>>
<1>1. /\ ConnectionTypes /\ ClientTypes /\ seq \in Nat
      /\ forwarder.backlog \in Receiver(Messages) /\ forwarder.backlog.unread \in Seq(Messages)
  BY DEF Types, ConnectionTypes, Forwarders, Receiver
<1>2. /\ desk' = Taking("number") /\ forwarder' = [Off EXCEPT !.at = "unborn"]
      /\ late' = NoMessage \/ late' \in ToSet(forwarder.backlog.unread)
      /\ UNCHANGED <<daemon, seq, outbox, client, view>>
  BY DEF Listen
<1>3. desk' \in Desks /\ desk'.at = "number" /\ desk'.seq = 0
  BY <1>2, TakingProperties DEF Ats
<1>4. /\ forwarder' \in Forwarders /\ forwarder'.at = "unborn" /\ forwarder'.seen = 0
      /\ forwarder'.backlog = Listening /\ forwarder'.held = NoMessage
      /\ forwarder'.backlog.unread = <<>> /\ ToSet(forwarder'.backlog.unread) = {}
  BY <1>2, OffProperties, ListeningProperties
<1>5. late' \in Messages \cup {NoMessage}
  BY <1>1, <1>2, ElementsOfSeq
<1>6. Len(forwarder'.backlog.unread) <= Backlog
  BY <1>4, EmptySeq, EventStreamAssumption
<1>7. ConnectionTypes'
  BY <1>1, <1>2, <1>3, <1>4, <1>5, <1>6 DEF ConnectionTypes
<1>8. ClientTypes'
  BY <1>1, <1>2 DEF ClientTypes
<1>9. Pipe' \subseteq Pipe
  BY <1>2, <1>4 DEF Pipe
<1> QED BY <1>2, <1>3, <1>4, <1>7, <1>8, <1>9

LEMMA SendLateTypes ==
  ASSUME Types, SendLate
  PROVE  /\ ConnectionTypes' /\ ClientTypes' /\ Pipe' \subseteq Pipe
         /\ late \in Messages /\ late' = NoMessage
         /\ outbox' = outbox \/ outbox' = Append(outbox, late)
         /\ UNCHANGED <<daemon, seq, desk, forwarder, client, view>>
<1>1. ConnectionTypes /\ ClientTypes /\ outbox \in Seq(Messages \cup Snapshots) /\ late \in Messages
  BY DEF Types, ConnectionTypes, SendLate
<1>2. late' = NoMessage /\ UNCHANGED <<daemon, seq, desk, forwarder, client, view>>
  BY DEF SendLate
<1>3. /\ outbox' \in Seq(Messages \cup Snapshots) /\ Len(outbox') <= Outbox
      /\ ToSet(outbox') \subseteq ToSet(outbox) \cup {late}
      /\ outbox' = outbox \/ outbox' = Append(outbox, late)
  <2>1. CASE HasRoom /\ Send(late)
    <3>1. outbox' = Append(outbox, late) /\ Len(outbox) < Outbox /\ Len(outbox) \in Nat
      BY <1>1, <2>1, LenProperties DEF HasRoom, Send
    <3>2. /\ outbox' \in Seq(Messages \cup Snapshots) /\ Len(outbox') = Len(outbox) + 1
          /\ ToSet(outbox') \subseteq ToSet(outbox) \cup {late}
      BY <1>1, <3>1, AppendedSet
    <3> QED BY <3>1, <3>2, EventStreamAssumption
  <2>2. CASE outbox' = outbox
    BY <1>1, <2>2 DEF ConnectionTypes
  <2> QED BY <2>1, <2>2 DEF SendLate
<1>4. ConnectionTypes'
  BY <1>1, <1>2, <1>3 DEF ConnectionTypes
<1>5. ClientTypes'
  BY <1>1, <1>2 DEF ClientTypes
<1>6. late # NoMessage
  BY <1>1, MessageFacts
<1>7. Pipe' \subseteq Pipe
  BY <1>2, <1>3, <1>6 DEF Pipe
<1> QED BY <1>1, <1>2, <1>3, <1>4, <1>5, <1>7

LEMMA TakeSnapshotTypes ==
  ASSUME Types, TakeSnapshot
  PROVE  /\ ConnectionTypes' /\ ClientTypes' /\ Pipe' = Pipe
         /\ \/ desk.at = "number" /\ desk'.at = "numbered" /\ desk'.seq = seq
            \/ /\ desk.at = "numbered" /\ desk'.at = "complete" /\ desk'.seq = desk.seq
               /\ desk'.state = State
         /\ UNCHANGED <<daemon, seq, forwarder, late, outbox, client, view>>
<1>1. ConnectionTypes /\ ClientTypes /\ DaemonTypes /\ seq \in Nat /\ desk \in Desks
  BY DEF Types, ConnectionTypes
<1>2. desk' = NextRead(desk) /\ UNCHANGED <<daemon, seq, forwarder, late, outbox, client, view>>
  BY DEF TakeSnapshot
<1>3. State \in Whole
  BY <1>1, WholeState
<1>4. CASE desk.at = "number"
  <2>1. desk' = [desk EXCEPT !.at = "numbered", !.seq = seq]
    BY <1>2, <1>4 DEF NextRead
  <2>2. desk' \in Desks /\ desk'.seq = seq /\ desk'.at = "numbered"
    BY <1>1, <2>1, Zenon DEF Desks, Ats
  <2>3. ConnectionTypes'
    BY <1>1, <1>2, <1>4, <2>2 DEF ConnectionTypes
  <2> QED BY <1>1, <1>2, <1>4, <2>2, <2>3 DEF Pipe, ClientTypes
<1>5. CASE desk.at = "numbered"
  <2>1. desk' = [desk EXCEPT !.at = "complete", !.state = State]
    BY <1>2, <1>5 DEF NextRead
  <2>2. desk' \in Desks /\ desk'.at = "complete" /\ desk'.state = State /\ desk'.seq = desk.seq
    BY <1>1, <1>3, <2>1, Zenon DEF Desks, Ats
  <2>3. ConnectionTypes'
    BY <1>1, <1>2, <1>5, <2>2 DEF ConnectionTypes
  <2> QED BY <1>1, <1>2, <1>5, <2>2, <2>3 DEF Pipe, ClientTypes
<1> QED BY <1>4, <1>5 DEF TakeSnapshot

Snapshot == Numbered(desk.seq, Event("Snapshot", desk.state))

LEMMA AnswerTypes ==
  ASSUME Types, Answer
  PROVE  /\ ConnectionTypes' /\ ClientTypes' /\ Pipe' \subseteq Pipe \cup {Snapshot}
         /\ Snapshot \in Snapshots /\ Snapshot.seq = desk.seq /\ desk.at = "complete"
         /\ Snapshot.event.of = desk.state
         /\ desk'.at = "idle" /\ desk'.seq = 0
         /\ outbox' = Append(outbox, Snapshot)
         /\ forwarder'.at = "receiving" /\ forwarder'.seen = desk.seq
         /\ forwarder'.backlog = forwarder.backlog /\ forwarder'.held = NoMessage
         /\ UNCHANGED <<daemon, seq, late, client, view>>
<1>1. /\ ConnectionTypes /\ ClientTypes /\ desk \in Desks /\ forwarder \in Forwarders
      /\ seq \in Nat /\ outbox \in Seq(Messages \cup Snapshots)
  BY DEF Types, ConnectionTypes
<1>2. /\ desk.at = "complete" /\ Len(outbox) < Outbox /\ outbox' = Append(outbox, Snapshot)
      /\ forwarder' = [forwarder EXCEPT !.at = "receiving", !.seen = desk.seq]
      /\ desk' = Taking("idle") /\ UNCHANGED <<daemon, seq, late, client, view>>
  BY DEF Answer, HasRoom, Send, Snapshot
<1>3. Snapshot \in Snapshots /\ Snapshot.seq = desk.seq /\ Snapshot.event.of = desk.state
  BY <1>1 DEF Snapshot, Numbered, Event, Snapshots, Desks
<1>4. desk' \in Desks /\ desk'.at = "idle" /\ desk'.seq = 0
  BY <1>2, TakingProperties DEF Ats
<1>5. /\ outbox' \in Seq(Messages \cup Snapshots) /\ Len(outbox') = Len(outbox) + 1
      /\ ToSet(outbox') \subseteq ToSet(outbox) \cup {Snapshot}
  BY <1>1, <1>2, <1>3, AppendedSet
<1>6. Len(outbox') <= Outbox
  BY <1>1, <1>2, <1>5, LenProperties, EventStreamAssumption
<1>7. desk.seq \in Nat /\ desk.seq <= seq
  BY <1>1 DEF Desks, ConnectionTypes
<1>8. /\ forwarder' \in Forwarders /\ forwarder'.at = "receiving" /\ forwarder'.seen = desk.seq
      /\ forwarder'.backlog = forwarder.backlog /\ forwarder'.held = forwarder.held
  BY <1>1, <1>2, <1>7 DEF Forwarders, ForwarderAts
<1>9. forwarder.at = "unborn" /\ forwarder.held = NoMessage
  BY <1>1, <1>2 DEF ConnectionTypes
<1>10. ConnectionTypes'
  BY <1>1, <1>2, <1>4, <1>5, <1>6, <1>7, <1>8, <1>9 DEF ConnectionTypes
<1>11. ClientTypes'
  BY <1>1, <1>2 DEF ClientTypes
<1>12. Pipe' \subseteq Pipe \cup {Snapshot}
  BY <1>2, <1>5, <1>8 DEF Pipe
<1> QED BY <1>2, <1>3, <1>4, <1>8, <1>9, <1>10, <1>11, <1>12

(* A message is sent, and after the last one there is none; or it is held. *)
DeliveredAs(f, message) ==
  \/ /\ outbox' = Append(outbox, message)
     /\ forwarder' = f \/ forwarder' = Off
  \/ /\ outbox' = outbox /\ forwarder'.at = "sending" /\ forwarder'.held = message
     /\ forwarder'.seen = f.seen /\ forwarder'.backlog = f.backlog

LEMMA DeliverTypes ==
  ASSUME Types, NEW f \in Forwarders, f.at = "receiving", f.held = NoMessage, f.seen <= seq,
         Len(f.backlog.unread) <= Backlog, NEW message \in Messages, Deliver(f, message),
         UNCHANGED <<daemon, seq, desk, late, client, view>>, forwarder.at # "unborn",
         ToSet(f.backlog.unread) \subseteq ToSet(forwarder.backlog.unread)
  PROVE  /\ ConnectionTypes' /\ ClientTypes' /\ Pipe' \subseteq Pipe \cup {message}
         /\ DeliveredAs(f, message)
<1>1. /\ ConnectionTypes /\ ClientTypes /\ outbox \in Seq(Messages \cup Snapshots)
      /\ seq \in Nat /\ message # NoMessage /\ f.seen \in Nat
  BY MessageFacts DEF Types, ConnectionTypes, Forwarders
<1>2. desk.at \notin {"number", "numbered", "complete"}
  BY <1>1 DEF ConnectionTypes
<1>3. ClientTypes'
  BY <1>1 DEF ClientTypes
<1>4. CASE HasRoom
  <2>1. outbox' = Append(outbox, message) /\ Len(outbox) < Outbox /\ Len(outbox) \in Nat
    BY <1>1, <1>4, LenProperties DEF Deliver, HasRoom, Send
  <2>2. /\ outbox' \in Seq(Messages \cup Snapshots) /\ Len(outbox') = Len(outbox) + 1
        /\ ToSet(outbox') \subseteq ToSet(outbox) \cup {message}
    BY <1>1, <2>1, AppendedSet
  <2>3. Len(outbox') <= Outbox
    BY <2>1, <2>2, EventStreamAssumption
  <2>4. forwarder' = f \/ forwarder' = Off
    BY <1>4 DEF Deliver
  <2>5. /\ forwarder' \in Forwarders /\ forwarder'.seen <= seq /\ forwarder'.held = NoMessage
        /\ forwarder'.at \in {"receiving", "off"} /\ Len(forwarder'.backlog.unread) <= Backlog
        /\ ToSet(forwarder'.backlog.unread) \subseteq ToSet(forwarder.backlog.unread)
    BY <1>1, <2>4, OffProperties, ListeningProperties, EmptySeq, EventStreamAssumption
  <2>6. ConnectionTypes'
    BY <1>1, <1>2, <2>2, <2>3, <2>5 DEF ConnectionTypes
  <2>7. Pipe' \subseteq Pipe \cup {message}
    BY <2>2, <2>5 DEF Pipe
  <2> QED BY <1>3, <2>1, <2>4, <2>6, <2>7 DEF DeliveredAs
<1>5. CASE ~HasRoom
  <2>1. forwarder' = [f EXCEPT !.at = "sending", !.held = message] /\ outbox' = outbox
    BY <1>5 DEF Deliver
  <2>2. /\ forwarder' \in Forwarders /\ forwarder'.at = "sending" /\ forwarder'.held = message
        /\ forwarder'.seen = f.seen /\ forwarder'.backlog = f.backlog
    BY <2>1 DEF Forwarders, ForwarderAts
  <2>3. ConnectionTypes'
    BY <1>1, <1>2, <2>1, <2>2 DEF ConnectionTypes
  <2>4. Pipe' \subseteq Pipe \cup {message}
    BY <2>1, <2>2 DEF Pipe
  <2> QED BY <1>3, <2>1, <2>2, <2>3, <2>4 DEF DeliveredAs
<1> QED BY <1>4, <1>5

LEMMA ReceiveTypes ==
  ASSUME Types, Receive
  PROVE  /\ ConnectionTypes' /\ ClientTypes' /\ Pipe' \subseteq Pipe
         /\ UNCHANGED <<daemon, seq, desk, late, client, view>>
         /\ forwarder.at = "receiving" /\ ~forwarder.backlog.missed
         /\ forwarder.backlog.unread # <<>> /\ forwarder.backlog \in Receiver(Messages)
         /\ LET m == forwarder.backlog.unread[1]
            IN /\ m \in Messages
               /\ \/ /\ m.seq <= forwarder.seen /\ outbox' = outbox
                     /\ forwarder'.at = "receiving" /\ forwarder'.seen = forwarder.seen
                     /\ forwarder'.backlog = Taken(forwarder.backlog)
                  \/ /\ m.seq > forwarder.seen
                     /\ \E f \in Forwarders :
                          /\ f.at = "receiving" /\ f.seen = m.seq
                          /\ f.backlog = Taken(forwarder.backlog) /\ DeliveredAs(f, m)
<1> DEFINE m == forwarder.backlog.unread[1]
           rest == [forwarder EXCEPT !.backlog = Taken(@)]
           f == [rest EXCEPT !.seen = m.seq]
<1>1. /\ ConnectionTypes /\ ClientTypes /\ forwarder \in Forwarders
      /\ seq \in Nat /\ forwarder.backlog \in Receiver(Messages)
  BY DEF Types, ConnectionTypes, Forwarders
<1>2. /\ forwarder.at = "receiving" /\ ~forwarder.backlog.missed /\ forwarder.backlog.unread # <<>>
      /\ UNCHANGED <<daemon, seq, desk, late, client, view>>
  BY DEF Receive
<1>3. /\ Taken(forwarder.backlog) \in Receiver(Messages)
      /\ Len(Taken(forwarder.backlog).unread) = Len(forwarder.backlog.unread) - 1
      /\ ToSet(Taken(forwarder.backlog).unread) \subseteq ToSet(forwarder.backlog.unread)
      /\ Head(forwarder.backlog.unread) = m /\ m \in Messages /\ m \in ToSet(forwarder.backlog.unread)
  BY <1>1, <1>2, TakenProperties
<1>4. Len(Taken(forwarder.backlog).unread) <= Backlog
  <2>1. Len(forwarder.backlog.unread) \in Nat /\ Len(forwarder.backlog.unread) <= Backlog
    BY <1>1, LenProperties DEF Receiver, ConnectionTypes
  <2> QED BY <1>3, <2>1, EventStreamAssumption
<1>5. /\ rest \in Forwarders /\ rest.at = "receiving" /\ rest.seen = forwarder.seen
      /\ rest.backlog = Taken(forwarder.backlog) /\ rest.held = NoMessage
  BY <1>1, <1>2, <1>3 DEF Forwarders, ConnectionTypes
<1>6. m.seq \in Nat /\ m.seq <= seq /\ m \in Pipe /\ forwarder.seen \in Nat
  BY <1>1, <1>3, MessageFacts, PipeParts DEF Types, InRange, Forwarders
<1> HIDE DEF m
<1>7. CASE m.seq <= forwarder.seen
  <2>1. forwarder' = rest /\ outbox' = outbox
    BY <1>3, <1>7 DEF Receive
  <2> HIDE DEF rest
  <2>2. ConnectionTypes'
    BY <1>1, <1>2, <1>4, <1>5, <2>1 DEF ConnectionTypes
  <2>3. ClientTypes'
    BY <1>1, <1>2 DEF ClientTypes
  <2>4. Pipe' \subseteq Pipe
    BY <1>2, <1>3, <1>5, <2>1 DEF Pipe
  <2> QED BY <1>1, <1>2, <1>3, <1>5, <1>7, <2>1, <2>2, <2>3, <2>4 DEF m
<1>8. CASE ~(m.seq <= forwarder.seen)
  <2>1. Deliver(f, m)
    BY <1>3, <1>8 DEF Receive
  <2>2. /\ f \in Forwarders /\ f.at = "receiving" /\ f.seen = m.seq
        /\ f.backlog = Taken(forwarder.backlog) /\ f.held = NoMessage
    BY <1>5, <1>6 DEF Forwarders
  <2> HIDE DEF rest, f
  <2>3. /\ ConnectionTypes' /\ ClientTypes' /\ Pipe' \subseteq Pipe \cup {m}
        /\ DeliveredAs(f, m)
    BY <1>2, <1>3, <1>4, <1>6, <2>1, <2>2, DeliverTypes
  <2>4. m.seq > forwarder.seen
    BY <1>6, <1>8
  <2> QED BY <1>1, <1>2, <1>3, <1>6, <2>2, <2>3, <2>4 DEF m
<1> QED BY <1>7, <1>8

LEMMA LagTypes ==
  ASSUME Types, Lag
  PROVE  /\ ConnectionTypes' /\ ClientTypes' /\ Pipe' = Pipe
         /\ UNCHANGED <<daemon, seq, desk, late, outbox, client, view>>
         /\ forwarder.at = "receiving" /\ forwarder.backlog.missed
         /\ forwarder'.at = "resyncing" /\ forwarder'.seen = seq
         /\ forwarder'.backlog.unread = forwarder.backlog.unread
         /\ forwarder'.held = NoMessage
<1>1. /\ ConnectionTypes /\ ClientTypes /\ forwarder \in Forwarders
      /\ seq \in Nat /\ forwarder.backlog \in Receiver(Messages)
  BY DEF Types, ConnectionTypes, Forwarders
<1>2. /\ forwarder.at = "receiving" /\ forwarder.backlog.missed
      /\ UNCHANGED <<daemon, seq, desk, late, outbox, client, view>>
      /\ forwarder' = [forwarder EXCEPT !.backlog = Told(@), !.at = "resyncing", !.seen = seq]
  BY DEF Lag
<1>3. Told(forwarder.backlog) \in Receiver(Messages) /\ Told(forwarder.backlog).unread = forwarder.backlog.unread
  BY <1>1, ToldProperties
<1>4. forwarder.held = NoMessage /\ Len(forwarder.backlog.unread) <= Backlog
  BY <1>1, <1>2 DEF ConnectionTypes
<1>5. /\ forwarder' \in Forwarders /\ forwarder'.at = "resyncing" /\ forwarder'.seen = seq
      /\ forwarder'.backlog = Told(forwarder.backlog) /\ forwarder'.held = forwarder.held
  BY <1>1, <1>2, <1>3, Zenon DEF Forwarders, ForwarderAts
<1>6. ConnectionTypes'
  BY <1>1, <1>2, <1>3, <1>4, <1>5 DEF ConnectionTypes
<1>7. ClientTypes'
  BY <1>1, <1>2 DEF ClientTypes
<1>8. Pipe' = Pipe
  BY <1>2, <1>3, <1>5 DEF Pipe
<1> QED BY <1>2, <1>3, <1>4, <1>5, <1>6, <1>7, <1>8

MakingUp == Numbered(forwarder.seen, Event("Resync", State))

LEMMA ResyncTypes ==
  ASSUME Types, Resync
  PROVE  /\ ConnectionTypes' /\ ClientTypes' /\ Pipe' \subseteq Pipe \cup {MakingUp}
         /\ UNCHANGED <<daemon, seq, desk, late, client, view>>
         /\ forwarder.at = "resyncing" /\ MakingUp \in Messages /\ MakingUp.seq = forwarder.seen
         /\ MakingUp.event.kind = "Resync" /\ MakingUp.event.of = State /\ MakingUp.seq <= seq
         /\ \E f \in Forwarders :
              /\ f.at = "receiving" /\ f.seen = forwarder.seen
              /\ f.backlog = forwarder.backlog /\ DeliveredAs(f, MakingUp)
<1> DEFINE f == [forwarder EXCEPT !.at = "receiving"]
<1>1. /\ DaemonTypes /\ ConnectionTypes /\ forwarder \in Forwarders /\ seq \in Nat
      /\ forwarder.seen \in Nat /\ forwarder.seen <= seq /\ Len(forwarder.backlog.unread) <= Backlog
  BY DEF Types, ConnectionTypes, Forwarders
<1>2. /\ forwarder.at = "resyncing" /\ UNCHANGED <<daemon, seq, desk, late, client, view>>
      /\ Deliver(f, MakingUp)
  BY DEF Resync, MakingUp
<1>3. State \in Whole
  BY <1>1, WholeState
<1>4. Event("Resync", State) \in Events /\ Event("Resync", State).kind = "Resync"
      /\ Event("Resync", State).of = State
  BY <1>3 DEF Events, Event
<1>5. MakingUp \in Messages /\ MakingUp.seq = forwarder.seen /\ MakingUp.event = Event("Resync", State)
  BY <1>1, <1>4, NumberedMessage DEF MakingUp
<1>6. /\ f \in Forwarders /\ f.at = "receiving" /\ f.seen = forwarder.seen
      /\ f.backlog = forwarder.backlog /\ f.held = forwarder.held
  BY <1>1 DEF Forwarders, ForwarderAts
<1>7. forwarder.held = NoMessage
  BY <1>1, <1>2 DEF ConnectionTypes
<1> HIDE DEF f
<1>8. /\ ConnectionTypes' /\ ClientTypes' /\ Pipe' \subseteq Pipe \cup {MakingUp}
      /\ DeliveredAs(f, MakingUp)
  BY <1>1, <1>2, <1>5, <1>6, <1>7, DeliverTypes
<1> QED BY <1>1, <1>2, <1>4, <1>5, <1>6, <1>8

LEMMA ForwardTypes ==
  ASSUME Types, Forward
  PROVE  /\ ConnectionTypes' /\ ClientTypes' /\ Pipe' \subseteq Pipe
         /\ UNCHANGED <<daemon, seq, desk, late, client, view>>
         /\ forwarder.at = "sending" /\ forwarder.held \in Messages
         /\ outbox' = Append(outbox, forwarder.held)
         /\ \/ forwarder' = Off
            \/ /\ forwarder'.at = "receiving" /\ forwarder'.seen = forwarder.seen
               /\ forwarder'.backlog = forwarder.backlog
<1> DEFINE m == forwarder.held
           f == [forwarder EXCEPT !.at = "receiving", !.held = NoMessage]
<1>1. /\ ConnectionTypes /\ forwarder \in Forwarders /\ seq \in Nat
      /\ forwarder.seen <= seq /\ Len(forwarder.backlog.unread) <= Backlog
  BY DEF Types, ConnectionTypes
<1>2. /\ forwarder.at = "sending" /\ UNCHANGED <<daemon, seq, desk, late, client, view>>
      /\ Deliver(f, m) /\ HasRoom
  BY DEF Forward
<1>3. m \in Messages /\ m # NoMessage /\ m \in Pipe
  BY <1>1, <1>2, PipeParts DEF ConnectionTypes, Forwarders
<1>4. /\ f \in Forwarders /\ f.at = "receiving" /\ f.seen = forwarder.seen
      /\ f.backlog = forwarder.backlog /\ f.held = NoMessage
  BY <1>1 DEF Forwarders, ForwarderAts
<1>5. outbox' = Append(outbox, m) /\ (forwarder' = f \/ forwarder' = Off)
  BY <1>2 DEF Deliver, Send
<1> HIDE DEF f, m
<1>6. ConnectionTypes' /\ ClientTypes' /\ Pipe' \subseteq Pipe \cup {m}
  BY <1>1, <1>2, <1>3, <1>4, DeliverTypes
<1> QED BY <1>2, <1>3, <1>4, <1>5, <1>6 DEF m

(* What an event changes of what is shown.                                 *)
LEMMA ShownProperties ==
  ASSUME NEW v \in Whole, NEW e, e \in Events \/ e \in [kind : {"Snapshot"}, of : Whole]
  PROVE  /\ Shown(v, e) \in Whole
         /\ e.kind \in {"Resync", "Snapshot"} => Shown(v, e) = e.of
         /\ Shown(v, e).status.state =
              IF e.kind \in {"Resync", "Snapshot"} THEN e.of.status.state
              ELSE IF e.kind = "StateChanged" THEN e.of ELSE v.status.state
         /\ Shown(v, e).queue =
              IF e.kind \in {"Resync", "Snapshot"} THEN e.of.queue
              ELSE IF e.kind = "QueueChanged" THEN e.of ELSE v.queue
<1>1. /\ v.status \in Statuses /\ v.queue \in Nat /\ v = [status |-> v.status, queue |-> v.queue]
      /\ DOMAIN v = {"status", "queue"}
  BY DEF Whole
<1>2. CASE e.kind \in {"Snapshot", "Resync"}
  <2>1. e.of \in Whole
    BY <1>2 DEF Events, EngineEvents
  <2>2. Shown(v, e) = [status |-> e.of.status, queue |-> e.of.queue]
    BY <1>2 DEF Shown
  <2>3. [status |-> e.of.status, queue |-> e.of.queue] = e.of
    BY <2>1 DEF Whole
  <2> QED BY <1>2, <2>1, <2>2, <2>3
<1>3. CASE e.kind = "QueueChanged"
  <2>1. e.of \in Nat
    BY <1>3 DEF Events, EngineEvents
  <2>2. Shown(v, e) = [v EXCEPT !.queue = e.of]
    BY <1>3 DEF Shown
  <2> QED BY <1>1, <1>3, <2>1, <2>2 DEF Whole
<1>4. ASSUME NEW to \in Statuses, Shown(v, e) = [v EXCEPT !.status = to]
      PROVE  Shown(v, e) \in Whole /\ Shown(v, e).status = to /\ Shown(v, e).queue = v.queue
  BY <1>1, <1>4 DEF Whole
<1>5. ASSUME NEW a \in {"Open", "Released", "Closed"}
      PROVE  /\ [v EXCEPT !.status.output = a] = [v EXCEPT !.status = [v.status EXCEPT !.output = a]]
             /\ [v.status EXCEPT !.output = a] \in Statuses
             /\ [v.status EXCEPT !.output = a].state = v.status.state
  BY <1>1 DEF Statuses
<1>6. CASE e.kind = "StateChanged"
  <2>1. e.of \in States
    BY <1>6 DEF Events, EngineEvents
  <2>2. CASE e.of = "Stopped"
    <3> DEFINE to == [v.status EXCEPT !.state = "Stopped", !.output = "Closed"]
    <3>1. Shown(v, e) = [v EXCEPT !.status.state = "Stopped", !.status.output = "Closed"]
      BY <1>6, <2>2 DEF Shown
    <3>2. Shown(v, e) = [v EXCEPT !.status = to]
      BY <1>1, <3>1
    <3>3. to \in Statuses /\ to.state = "Stopped"
      BY <1>1 DEF Statuses
    <3> HIDE DEF to
    <3> QED BY <1>4, <1>6, <2>2, <3>2, <3>3
  <2>3. CASE e.of # "Stopped"
    <3> DEFINE to == [v.status EXCEPT !.state = e.of]
    <3>1. Shown(v, e) = [v EXCEPT !.status.state = e.of]
      BY <1>6, <2>3 DEF Shown
    <3>2. Shown(v, e) = [v EXCEPT !.status = to]
      BY <1>1, <3>1
    <3>3. to \in Statuses /\ to.state = e.of
      BY <1>1, <2>1 DEF Statuses, States
    <3> HIDE DEF to
    <3> QED BY <1>4, <1>6, <3>2, <3>3
  <2> QED BY <2>2, <2>3
<1>7. CASE e.kind = "TrackStarted"
  <2> DEFINE to == [v.status EXCEPT !.track = e.of, !.output = "Open"]
  <2>1. Shown(v, e) = [v EXCEPT !.status.track = e.of, !.status.output = "Open"]
    BY <1>7 DEF Shown
  <2>2. Shown(v, e) = [v EXCEPT !.status = to]
    BY <1>1, <2>1
  <2>3. e.of \in Tracks
    BY <1>7 DEF Events, EngineEvents
  <2>4. to \in Statuses /\ to.state = v.status.state
    BY <1>1, <2>3 DEF Statuses
  <2> HIDE DEF to
  <2> QED BY <1>4, <1>7, <2>2, <2>4
<1>8. CASE e.kind = "TrackEnded"
  <2> DEFINE to == [v.status EXCEPT !.track = None]
  <2>1. Shown(v, e) = [v EXCEPT !.status.track = None]
    BY <1>8 DEF Shown
  <2>2. Shown(v, e) = [v EXCEPT !.status = to]
    BY <1>1, <2>1
  <2>4. to \in Statuses /\ to.state = v.status.state
    BY <1>1 DEF Statuses
  <2> HIDE DEF to
  <2> QED BY <1>4, <1>8, <2>2, <2>4
<1>9. CASE e.kind = "OutputReleased"
  <2>1. Shown(v, e) = [v EXCEPT !.status.output = "Released"]
    BY <1>9 DEF Shown
  <2> QED BY <1>4, <1>5, <1>9, <2>1
<1>10. CASE e.kind = "OutputAcquired"
  <2>1. Shown(v, e) = [v EXCEPT !.status.output = "Open"]
    BY <1>10 DEF Shown
  <2> QED BY <1>4, <1>5, <1>10, <2>1
<1>11. CASE e.kind \notin {"Snapshot", "Resync", "QueueChanged", "StateChanged", "TrackStarted",
                           "TrackEnded", "OutputReleased", "OutputAcquired"}
  <2>1. Shown(v, e) = v
    BY <1>11 DEF Shown
  <2> QED BY <1>11, <2>1
<1> QED BY <1>2, <1>3, <1>6, <1>7, <1>8, <1>9, <1>10, <1>11

LEMMA ConnectTypes ==
  ASSUME Types, Connect
  PROVE  /\ ConnectionTypes' /\ ClientTypes' /\ Pipe' = Pipe
         /\ client.phase = "away" /\ client'.phase = "connecting"
         /\ client'.answer = client.answer /\ client'.inbox = client.inbox
         /\ desk'.at = "asked" /\ desk'.seq = 0
         /\ UNCHANGED <<daemon, seq, forwarder, late, outbox, view>>
<1>1. ConnectionTypes /\ ClientTypes /\ client \in Clients /\ seq \in Nat
  BY DEF Types, ConnectionTypes, ClientTypes
<1>2. /\ client.phase = "away" /\ client' = [client EXCEPT !.phase = "connecting"]
      /\ desk' = Taking("asked") /\ UNCHANGED <<daemon, seq, forwarder, late, outbox, view>>
  BY DEF Connect
<1>3. desk' \in Desks /\ desk'.at = "asked" /\ desk'.seq = 0
  BY <1>2, TakingProperties DEF Ats
<1>4. /\ client' \in Clients /\ client'.phase = "connecting" /\ client'.answer = client.answer
      /\ client'.inbox = client.inbox /\ client'.seen = client.seen
  BY <1>1, <1>2 DEF Clients
<1>5. ConnectionTypes'
  BY <1>1, <1>2, <1>3 DEF ConnectionTypes
<1>6. ClientTypes'
  BY <1>1, <1>2, <1>4 DEF ClientTypes
<1>7. Pipe' = Pipe
  BY <1>2, <1>4 DEF Pipe
<1> QED BY <1>2, <1>3, <1>4, <1>5, <1>6, <1>7

LEMMA ReadFrameTypes ==
  ASSUME Types, ReadFrame
  PROVE  /\ ConnectionTypes' /\ ClientTypes' /\ Pipe' \subseteq Pipe
         /\ UNCHANGED <<daemon, seq, desk, forwarder, late, view>>
         /\ outbox # <<>> /\ outbox \in Seq(Messages \cup Snapshots) /\ outbox' = Tail(outbox)
         /\ client'.phase = client.phase /\ client'.seen = client.seen
         /\ \/ /\ outbox[1] \in Snapshots /\ client'.answer = outbox[1]
               /\ client'.inbox = client.inbox
            \/ /\ outbox[1] \in Messages /\ client'.answer = client.answer
               /\ Kept(Messages, client.inbox, outbox[1], ClientBacklog, client'.inbox)
<1> DEFINE m == outbox[1]
<1>1. /\ ConnectionTypes /\ ClientTypes /\ client \in Clients /\ seq \in Nat
      /\ outbox \in Seq(Messages \cup Snapshots) /\ client.inbox \in Receiver(Messages)
      /\ Len(client.inbox.unread) <= ClientBacklog /\ ClientBacklog \in Nat \ {0}
  BY EventStreamAssumption DEF Types, ConnectionTypes, ClientTypes, Clients
<1>2. /\ outbox # <<>> /\ outbox' = Tail(outbox)
      /\ UNCHANGED <<daemon, seq, desk, forwarder, late, view>>
      /\ client' = IF Head(outbox).event.kind = "Snapshot"
                     THEN [client EXCEPT !.answer = Head(outbox)]
                     ELSE [client EXCEPT !.inbox = Offered(@, Head(outbox), ClientBacklog)]
  BY DEF ReadFrame
<1>3. /\ m \in Messages \cup Snapshots /\ m = Head(outbox) /\ m \in ToSet(outbox)
      /\ outbox' \in Seq(Messages \cup Snapshots) /\ ToSet(outbox') \subseteq ToSet(outbox)
      /\ Len(outbox') = Len(outbox) - 1 /\ Len(outbox) \in Nat
  <2>1. Len(outbox) \in Nat \ {0} /\ DOMAIN outbox = 1 .. Len(outbox)
    BY <1>1, <1>2, EmptySeq, LenProperties
  <2>2. m \in Messages \cup Snapshots /\ m = Head(outbox)
    BY <1>1, <1>2, <2>1, HeadTailProperties, ElementOfSeq
  <2>3. 1 \in DOMAIN outbox
    BY <2>1
  <2>4. m \in ToSet(outbox)
    BY <2>3 DEF ToSet
  <2> HIDE DEF m
  <2> QED BY <1>1, <1>2, <2>1, <2>2, <2>4, TailSubset
<1>4. Len(outbox') <= Outbox
  BY <1>1, <1>3, EventStreamAssumption DEF ConnectionTypes
<1>5. ConnectionTypes'
  BY <1>1, <1>2, <1>3, <1>4 DEF ConnectionTypes
<1> HIDE DEF m
<1>6. CASE m \in Snapshots
  <2>1. client' = [client EXCEPT !.answer = m]
    BY <1>2, <1>3, <1>6, MessageFacts
  <2>2. /\ client' \in Clients /\ client'.answer = m /\ client'.inbox = client.inbox
        /\ client'.phase = client.phase /\ client'.seen = client.seen
    BY <1>1, <1>6, <2>1 DEF Clients
  <2>3. ClientTypes'
    BY <1>1, <1>2, <2>2 DEF ClientTypes
  <2>4. Pipe' \subseteq Pipe
    BY <1>2, <1>3, <2>2 DEF Pipe
  <2> QED BY <1>1, <1>2, <1>5, <1>6, <2>2, <2>3, <2>4 DEF m
<1>7. CASE m \in Messages
  <2> DEFINE o == Offered(client.inbox, m, ClientBacklog)
  <2>1. client' = [client EXCEPT !.inbox = o]
    BY <1>2, <1>3, <1>7, MessageFacts
  <2>2. Kept(Messages, client.inbox, m, ClientBacklog, o)
    BY <1>1, <1>7, OfferedProperties
  <2> HIDE DEF o
  <2>3. /\ client' \in Clients /\ client'.answer = client.answer /\ client'.inbox = o
        /\ client'.phase = client.phase /\ client'.seen = client.seen
    BY <1>1, <2>1, <2>2 DEF Clients, Kept
  <2>4. ClientTypes'
    BY <1>1, <1>2, <2>2, <2>3 DEF ClientTypes, Kept
  <2>5. Pipe' \subseteq Pipe
    BY <1>2, <1>3, <2>2, <2>3 DEF Pipe, Kept
  <2> QED BY <1>1, <1>2, <1>5, <1>7, <2>2, <2>3, <2>4, <2>5 DEF m
<1> QED BY <1>3, <1>6, <1>7

LEMMA TakeAnswerTypes ==
  ASSUME Types, TakeAnswer
  PROVE  /\ ConnectionTypes' /\ ClientTypes' /\ Pipe' \subseteq Pipe
         /\ UNCHANGED <<daemon, seq, desk, forwarder, late, outbox>>
         /\ client.phase \in {"connecting", "asking"} /\ client'.phase = "reading"
         /\ client.answer \in Snapshots /\ client'.answer = NoMessage
         /\ client'.seen = client.answer.seq /\ client'.inbox = client.inbox
         /\ view' = client.answer.event.of /\ client.answer \in Pipe
<1> DEFINE m == client.answer
<1>1. /\ ConnectionTypes /\ ClientTypes /\ client \in Clients /\ view \in Whole /\ m \in Snapshots
  BY DEF Types, ConnectionTypes, ClientTypes, Clients, TakeAnswer
<1>2. /\ client.phase \in {"connecting", "asking"} /\ m # NoMessage
      /\ client' = [client EXCEPT !.phase = "reading", !.answer = NoMessage, !.seen = m.seq]
      /\ view' = Shown(view, m.event) /\ UNCHANGED <<daemon, seq, desk, forwarder, late, outbox>>
  BY DEF TakeAnswer, connection
<1>3. m \in Pipe /\ m.seq \in Nat /\ m.seq <= seq
  BY <1>1, <1>2, PipeParts, MessageFacts DEF Types, InRange
<1>4. /\ m.event \in [kind : {"Snapshot"}, of : Whole] /\ m.event.kind = "Snapshot"
      /\ m.event.of \in Whole
  BY <1>1 DEF Snapshots
<1>5. view' \in Whole /\ view' = m.event.of
  <2> HIDE DEF m
  <2> QED BY <1>1, <1>2, <1>4, ShownProperties
<1>6. /\ client' \in Clients /\ client'.phase = "reading" /\ client'.answer = NoMessage
      /\ client'.seen = m.seq /\ client'.inbox = client.inbox
  BY <1>1, <1>2, <1>3, Zenon DEF Clients
<1>7. ConnectionTypes'
  BY <1>1, <1>2 DEF ConnectionTypes
<1>8. ClientTypes'
  BY <1>1, <1>2, <1>3, <1>5, <1>6 DEF ClientTypes
<1>9. Pipe' \subseteq Pipe
  BY <1>2, <1>6 DEF Pipe
<1> QED BY <1>1, <1>2, <1>3, <1>5, <1>6, <1>7, <1>8, <1>9

LEMMA NextEventTypes ==
  ASSUME Types, NextEvent
  PROVE  /\ ConnectionTypes' /\ ClientTypes' /\ Pipe' \subseteq Pipe
         /\ UNCHANGED <<daemon, seq, desk, forwarder, late, outbox>>
         /\ client.phase = "reading" /\ client'.phase = "reading"
         /\ client.answer = client'.answer
         /\ ~client.inbox.missed /\ client.inbox.unread # <<>>
         /\ client'.inbox = Taken(client.inbox) /\ client.inbox \in Receiver(Messages)
         /\ LET m == client.inbox.unread[1]
            IN /\ m \in Messages /\ m \in Pipe
               /\ \/ m.seq <= client.seen /\ client'.seen = client.seen /\ view' = view
                  \/ m.seq > client.seen /\ client'.seen = m.seq /\ view' = Shown(view, m.event)
<1> DEFINE m == client.inbox.unread[1]
           rest == [client EXCEPT !.inbox = Taken(@)]
<1>1. /\ ConnectionTypes /\ ClientTypes /\ client \in Clients /\ view \in Whole
      /\ client.inbox \in Receiver(Messages) /\ Len(client.inbox.unread) <= ClientBacklog
  BY DEF Types, ConnectionTypes, ClientTypes, Clients
<1>2. /\ client.phase = "reading" /\ ~client.inbox.missed /\ client.inbox.unread # <<>>
      /\ UNCHANGED <<daemon, seq, desk, forwarder, late, outbox>>
  BY DEF NextEvent, connection
<1>3. /\ Taken(client.inbox) \in Receiver(Messages)
      /\ Len(Taken(client.inbox).unread) = Len(client.inbox.unread) - 1
      /\ ToSet(Taken(client.inbox).unread) \subseteq ToSet(client.inbox.unread)
      /\ Head(client.inbox.unread) = m /\ m \in Messages /\ m \in ToSet(client.inbox.unread)
  BY <1>1, <1>2, TakenProperties
<1>4. Len(Taken(client.inbox).unread) <= ClientBacklog
  <2>1. Len(client.inbox.unread) \in Nat
    BY <1>1, LenProperties DEF Receiver
  <2> QED BY <1>1, <1>3, <2>1, EventStreamAssumption
<1>5. m \in Pipe /\ m.seq \in Nat /\ m.seq <= seq /\ m.event \in Events /\ client.seen \in Nat
  BY <1>1, <1>3, PipeParts, MessageFacts DEF Types, InRange, Clients
<1>6. /\ rest \in Clients /\ rest.phase = "reading" /\ rest.answer = client.answer
      /\ rest.seen = client.seen /\ rest.inbox = Taken(client.inbox)
  BY <1>1, <1>2, <1>3 DEF Clients
<1> HIDE DEF m
<1>7. \/ m.seq <= client.seen /\ client' = rest /\ view' = view
      \/ /\ m.seq > client.seen /\ client' = [rest EXCEPT !.seen = m.seq]
         /\ view' = Shown(view, m.event)
  <2>1. CASE m.seq <= client.seen
    BY <1>3, <2>1 DEF NextEvent
  <2>2. CASE ~(m.seq <= client.seen)
    <3>1. client' = [rest EXCEPT !.seen = m.seq] /\ view' = Shown(view, m.event)
      BY <1>3, <2>2 DEF NextEvent
    <3>2. m.seq > client.seen
      BY <1>5, <2>2
    <3> QED BY <3>1, <3>2
  <2> QED BY <2>1, <2>2
<1>8. view' \in Whole
  BY <1>1, <1>5, <1>7, ShownProperties
<1> HIDE DEF rest
<1>9. /\ client' \in Clients /\ client'.phase = "reading" /\ client'.answer = client.answer
      /\ client'.inbox = Taken(client.inbox)
      /\ \/ m.seq <= client.seen /\ client'.seen = client.seen /\ view' = view
         \/ m.seq > client.seen /\ client'.seen = m.seq /\ view' = Shown(view, m.event)
  BY <1>5, <1>6, <1>7 DEF Clients
<1>10. ConnectionTypes'
  BY <1>1, <1>2 DEF ConnectionTypes
<1>11. ClientTypes'
  BY <1>1, <1>2, <1>3, <1>4, <1>5, <1>8, <1>9 DEF ClientTypes
<1>12. Pipe' \subseteq Pipe
  BY <1>2, <1>3, <1>9 DEF Pipe
<1> QED BY <1>1, <1>2, <1>3, <1>5, <1>9, <1>10, <1>11, <1>12 DEF m

LEMMA AskAgainTypes ==
  ASSUME Types, AskAgain
  PROVE  /\ ConnectionTypes' /\ ClientTypes' /\ Pipe' = Pipe
         /\ UNCHANGED <<daemon, seq, forwarder, late, outbox, view>>
         /\ client.phase = "reading" /\ client'.phase = "asking"
         /\ client'.answer = client.answer /\ client'.inbox.unread = client.inbox.unread
         /\ desk'.at = "asked" /\ desk'.seq = 0
<1>1. /\ ConnectionTypes /\ ClientTypes /\ client \in Clients /\ client.inbox \in Receiver(Messages)
      /\ seq \in Nat
  BY DEF Types, ConnectionTypes, ClientTypes, Clients
<1>2. /\ client.phase = "reading" /\ desk' = Taking("asked")
      /\ client' = [client EXCEPT !.phase = "asking", !.inbox = Told(@)]
      /\ UNCHANGED <<daemon, seq, forwarder, late, outbox, view>>
  BY DEF AskAgain
<1>3. desk' \in Desks /\ desk'.at = "asked" /\ desk'.seq = 0
  BY <1>2, TakingProperties DEF Ats
<1>4. Told(client.inbox) \in Receiver(Messages) /\ Told(client.inbox).unread = client.inbox.unread
  BY <1>1, ToldProperties
<1>5. /\ client' \in Clients /\ client'.phase = "asking" /\ client'.answer = client.answer
      /\ client'.inbox = Told(client.inbox) /\ client'.seen = client.seen
  BY <1>1, <1>2, <1>4 DEF Clients
<1>6. ConnectionTypes'
  BY <1>1, <1>2, <1>3 DEF ConnectionTypes
<1>7. ClientTypes'
  BY <1>1, <1>2, <1>4, <1>5 DEF ClientTypes
<1>8. Pipe' = Pipe
  BY <1>2, <1>4, <1>5 DEF Pipe
<1> QED BY <1>2, <1>3, <1>4, <1>5, <1>6, <1>7, <1>8

LEMMA DisconnectTypes ==
  ASSUME Types, Break \/ StopServing
  PROVE  /\ ConnectionTypes' /\ ClientTypes' /\ Pipe' = {}
         /\ UNCHANGED <<daemon, seq, view>>
         /\ client'.phase = "away" /\ client'.answer = NoMessage /\ client'.inbox = Listening
         /\ desk'.at = "idle" /\ forwarder' = Off /\ late' = NoMessage /\ outbox' = <<>>
<1>1. /\ ConnectionTypes /\ ClientTypes /\ client \in Clients /\ seq \in Nat
  BY DEF Types, ConnectionTypes, ClientTypes
<1>2. PICK n \in {0, 1} : Disconnect(n)
  BY DEF Break, StopServing
<1>3. /\ client' = [Away EXCEPT !.breaks = client.breaks + n]
      /\ desk' = Taking("idle") /\ forwarder' = Off /\ late' = NoMessage /\ outbox' = <<>>
      /\ UNCHANGED <<daemon, seq, view>>
  BY <1>2 DEF Disconnect, NoConnection
<1>4. desk' \in Desks /\ desk'.at = "idle" /\ desk'.seq = 0
  BY <1>3, TakingProperties DEF Ats
<1>5. client.breaks + n \in Nat
  BY <1>1 DEF Clients
<1>6. /\ client' \in Clients /\ client'.phase = "away" /\ client'.answer = NoMessage
      /\ client'.inbox = Listening /\ client'.seen = 0
  BY <1>3, <1>5, ListeningProperties DEF Away, Clients
<1>7. /\ forwarder'.backlog.unread = <<>> /\ client'.inbox.unread = <<>>
      /\ Len(<<>>) = 0 /\ \A S : <<>> \in Seq(S) /\ ToSet(<<>>) = {}
  BY <1>3, <1>6, OffProperties, ListeningProperties, EmptySeq DEF ToSet
<1>8. ConnectionTypes'
  BY <1>1, <1>3, <1>4, <1>7, OffProperties, EventStreamAssumption DEF ConnectionTypes
<1>9. ClientTypes'
  BY <1>1, <1>3, <1>6, <1>7, EventStreamAssumption DEF ClientTypes
<1>10. Pipe' = {}
  BY <1>3, <1>6, <1>7, OffProperties DEF Pipe
<1> QED BY <1>3, <1>4, <1>6, <1>8, <1>9, <1>10

---------------------------------------------------------------------------
(* Every step keeps the types.                                             *)

LEMMA KeptInRange ==
  ASSUME Types, UNCHANGED <<daemon, seq>>, ConnectionTypes', ClientTypes',
         \A m \in Pipe' : m \in Pipe \/ m.seq <= seq
  PROVE  Types'
<1>1. DaemonTypes'
  BY DEF Types, DaemonTypes, daemon
<1>2. InRange'
  BY DEF Types, InRange
<1> QED BY <1>1, <1>2 DEF Types

LEMMA NextTypes ==
  ASSUME Types, [Next]_vars
  PROVE  Types'
<1>1. CASE EngineBegins \/ EngineGoesOn \/ EditQueue
  <2>1. DaemonTypes' /\ UNCHANGED <<seq, desk, forwarder, late, outbox, client, view>>
    BY <1>1, EngineTypes DEF Types
  <2>2. Pipe' = Pipe
    BY <2>1, UnchangedPipe
  <2>3. ConnectionTypes' /\ ClientTypes' /\ InRange'
    BY <2>1, <2>2 DEF Types, ConnectionTypes, ClientTypes, InRange
  <2> QED BY <2>1, <2>3 DEF Types
<1>2. CASE FanIn
  BY <1>2, FanInTypes, PublishesTypes DEF Types
<1>3. CASE Listen
  BY <1>3, ListenTypes, KeptInRange
<1>4. CASE SendLate
  BY <1>4, SendLateTypes, KeptInRange
<1>5. CASE TakeSnapshot
  BY <1>5, TakeSnapshotTypes, KeptInRange
<1>6. CASE Answer
  <2>1. Snapshot.seq <= seq
    BY <1>6, AnswerTypes DEF Types, ConnectionTypes
  <2> QED BY <1>6, <2>1, AnswerTypes, KeptInRange
<1>7. CASE Receive
  <2>1. ConnectionTypes' /\ ClientTypes' /\ Pipe' \subseteq Pipe /\ UNCHANGED <<daemon, seq>>
    BY <1>7, ReceiveTypes
  <2> QED BY <2>1, KeptInRange
<1>8. CASE Lag
  BY <1>8, LagTypes, KeptInRange
<1>9. CASE Resync
  BY <1>9, ResyncTypes, KeptInRange
<1>10. CASE Forward
  BY <1>10, ForwardTypes, KeptInRange
<1>11. CASE Connect
  BY <1>11, ConnectTypes, KeptInRange
<1>12. CASE ReadFrame
  BY <1>12, ReadFrameTypes, KeptInRange
<1>13. CASE TakeAnswer
  BY <1>13, TakeAnswerTypes, KeptInRange
<1>14. CASE NextEvent
  <2>1. ConnectionTypes' /\ ClientTypes' /\ Pipe' \subseteq Pipe /\ UNCHANGED <<daemon, seq>>
    BY <1>14, NextEventTypes
  <2> QED BY <2>1, KeptInRange
<1>15. CASE AskAgain
  BY <1>15, AskAgainTypes, KeptInRange
<1>16. CASE Break \/ StopServing
  BY <1>16, DisconnectTypes, KeptInRange
<1>17. CASE UNCHANGED vars
  BY <1>17 DEF Types, DaemonTypes, ConnectionTypes, ClientTypes, InRange, Pipe, vars
<1> QED
  BY <1>1, <1>2, <1>3, <1>4, <1>5, <1>6, <1>7, <1>8, <1>9, <1>10, <1>11, <1>12, <1>13, <1>14,
     <1>15, <1>16, <1>17
  DEF Next, Works, FanIn

LEMMA BegunStatuses ==
  Begun \subseteq Statuses
<1>1. ATrack \in Tracks
  BY EventStreamAssumption DEF ATrack
<1>2. Idle \in Statuses /\ [Idle EXCEPT !.state = "Loading"] \in Statuses
  BY DEF Idle, Statuses
<1>3. /\ [state : {"Playing"}, track : {ATrack}, output : {"Open"}] \subseteq Statuses
      /\ [state : {"Paused"}, track : {ATrack}, output : {"Released"}] \subseteq Statuses
  BY <1>1 DEF Statuses
<1> QED BY <1>2, <1>3 DEF Begun

LEMMA InitTypes ==
  ASSUME Init
  PROVE  Types
<1>1. /\ engine \in [status : Begun, doing : {<<>>}, moves : {0}]
      /\ heard = Listening /\ queue = [version |-> 0, announced |-> 0] /\ seq = 0
      /\ phase = "running" /\ desk = Taking("idle") /\ forwarder = Off /\ late = NoMessage
      /\ outbox = <<>> /\ client = Away /\ view = [status |-> Idle, queue |-> 0]
  BY DEF Init
<1>2. /\ Listening.unread = <<>> /\ Len(<<>>) = 0 /\ (\A S : <<>> \in Seq(S)) /\ ToSet(<<>>) = {}
  BY ListeningProperties, EmptySeq DEF ToSet
<1>3. DaemonTypes
  <2>1. engine \in Engines
    <3>1. PICK status \in Begun : engine = [status |-> status, doing |-> <<>>, moves |-> 0]
      BY <1>1
    <3>2. <<>> \in Seq(Steps) /\ status \in Statuses /\ 0 \in Nat
      BY <1>2, BegunStatuses
    <3> QED BY <3>1, <3>2, Zenon DEF Engines
  <2>2. queue \in Queues /\ queue.announced <= queue.version
    BY <1>1 DEF Queues
  <2>3. heard \in Receiver(EngineEvents) /\ Len(heard.unread) <= EngineBacklog
    BY <1>1, <1>2, ListeningProperties, EventStreamAssumption
  <2> QED BY <1>1, <2>1, <2>2, <2>3 DEF DaemonTypes
<1>4. desk \in Desks /\ desk.at = "idle" /\ desk.seq = 0 /\ Idle \in Statuses
  BY <1>1, TakingProperties DEF Ats
<1>5. ConnectionTypes
  BY <1>1, <1>2, <1>4, OffProperties, EventStreamAssumption DEF ConnectionTypes
<1>6. /\ client \in Clients /\ client.seen = 0 /\ client.inbox.unread = <<>>
      /\ client.answer = NoMessage
  BY <1>1, <1>2, ListeningProperties DEF Away, Clients
<1>7. view \in Whole
  BY <1>1, <1>4 DEF Whole
<1>8. ClientTypes
  BY <1>1, <1>2, <1>6, <1>7, EventStreamAssumption DEF ClientTypes
<1>9. Pipe = {}
  BY <1>1, <1>2, <1>6, OffProperties DEF Pipe
<1> QED BY <1>3, <1>5, <1>8, <1>9 DEF Types, InRange

LEMMA SpecTypes ==
  Spec => []Types
<1>1. Init => Types
  BY InitTypes
<1>2. Types /\ [Next]_vars => Types'
  BY NextTypes
<1> QED BY <1>1, <1>2, PTL DEF Spec

(* What is unread of the engine's events, of a subscriber's, of a          *)
(* connection's messages and of a client's events never exceeds its bound. *)
THEOREM TypesCorrect ==
  Spec => []TypeOK
<1>1. ASSUME Types
      PROVE  TypeOK
  <2>1. \A S : \A r \in Receiver(S) : DOMAIN r = {"unread", "missed"} /\ r.missed \in BOOLEAN
    BY DEF Receiver
  <2>2. /\ engine.status \in Statuses /\ queue.announced \in 0..queue.version
        /\ phase \in {"running", "stopping"} /\ Windowed(heard, EngineBacklog)
    BY <1>1, <2>1 DEF Types, DaemonTypes, Engines, Queues, Windowed
  <2>3. /\ seq \in Nat /\ desk.at \in Ats /\ desk.seq \in 0..seq /\ desk.state \in Whole
        /\ forwarder.at \in ForwarderAts /\ forwarder.seen \in 0..seq
        /\ Windowed(forwarder.backlog, Backlog) /\ Len(outbox) <= Outbox
    BY <1>1, <2>1 DEF Types, ConnectionTypes, Desks, Forwarders, Windowed
  <2>4. /\ client.phase \in {"away", "connecting", "reading", "asking"} /\ view \in Whole
        /\ client.seen \in 0..seq /\ Windowed(client.inbox, ClientBacklog)
    BY <1>1, <2>1, <2>3 DEF Types, ClientTypes, Clients, Windowed
  <2> QED BY <2>2, <2>3, <2>4 DEF TypeOK
<1> QED BY <1>1, SpecTypes, PTL
---------------------------------------------------------------------------
(* Numbers without a gap.  s, applied after number w, is linked if each of *)
(* its messages makes up for everything before it, or follows w or one     *)
(* before it; it reaches n if n is then not past the next.                 *)

Frames == Messages \cup Snapshots

Reaches(w, s, n) == n <= w + 1 \/ \E j \in DOMAIN s : n <= s[j].seq + 1
Follows(w, s, i) ==
  \/ s[i].event.kind = "Resync"
  \/ s[i].seq <= w + 1
  \/ \E j \in DOMAIN s : j < i /\ s[i].seq <= s[j].seq + 1
Linked(w, s) == \A i \in DOMAIN s : Follows(w, s, i)

LEMMA FrameNumbers == \A m \in Frames : m.seq \in Nat
BY MessageFacts DEF Frames

LEMMA AppendKeepsLinked ==
  ASSUME NEW w \in Nat, NEW s \in Seq(Frames), NEW m \in Frames, Linked(w, s),
         m.event.kind = "Resync" \/ Reaches(w, s, m.seq)
  PROVE  Linked(w, Append(s, m)) /\ Reaches(w, Append(s, m), m.seq + 1)
<1> DEFINE t == Append(s, m)
           n == Len(s)
<1>1. n \in Nat /\ DOMAIN s = 1 .. n /\ m.seq \in Nat
  BY LenProperties, FrameNumbers
<1>2. /\ t \in Seq(Frames) /\ Len(t) = n + 1 /\ t[n + 1] = m
      /\ \A i \in 1 .. n : t[i] = s[i]
  BY AppendProperties
<1>3. DOMAIN t = 1 .. n + 1
  BY <1>2, LenProperties
<1> HIDE DEF t, n
<1>4. ASSUME NEW i \in DOMAIN t
      PROVE  Follows(w, t, i)
  <2>1. CASE i \in DOMAIN s
    <3>1. Follows(w, s, i)
      BY <2>1 DEF Linked
    <3> QED BY <1>1, <1>2, <1>3, <2>1, <3>1 DEF Follows
  <2>2. CASE i = n + 1
    <3>1. CASE m.event.kind = "Resync" \/ m.seq <= w + 1
      BY <1>2, <2>2, <3>1 DEF Follows
    <3>2. CASE \E j \in DOMAIN s : m.seq <= s[j].seq + 1
      <4>1. PICK j \in DOMAIN s : m.seq <= s[j].seq + 1
        BY <3>2
      <4>2. j \in DOMAIN t /\ j < i /\ t[j] = s[j]
        BY <1>1, <1>2, <1>3, <2>2
      <4> QED BY <1>2, <2>2, <4>1, <4>2 DEF Follows
    <3> QED BY <3>1, <3>2 DEF Reaches
  <2> QED BY <1>1, <1>3, <2>1, <2>2
<1>5. Reaches(w, t, m.seq + 1)
  <2>1. n + 1 \in DOMAIN t /\ m.seq + 1 <= t[n + 1].seq + 1
    BY <1>1, <1>2, <1>3
  <2> QED BY <2>1 DEF Reaches
<1> QED BY <1>4, <1>5 DEF Linked, t

LEMMA AppendKeepsReaching ==
  ASSUME NEW w, NEW s \in Seq(Frames), NEW m \in Frames, NEW n, Reaches(w, s, n)
  PROVE  Reaches(w, Append(s, m), n)
<1>1. /\ DOMAIN s = 1 .. Len(s) /\ Len(s) \in Nat
      /\ Append(s, m) \in Seq(Frames) /\ Len(Append(s, m)) = Len(s) + 1
      /\ \A i \in 1 .. Len(s) : Append(s, m)[i] = s[i]
  BY LenProperties, AppendProperties
<1>2. DOMAIN Append(s, m) = 1 .. Len(s) + 1
  BY <1>1, LenProperties
<1>3. \A j \in DOMAIN s : j \in DOMAIN Append(s, m) /\ Append(s, m)[j] = s[j]
  BY <1>1, <1>2
<1> QED BY <1>3 DEF Reaches

(* Applying the first.                                                     *)
LEMMA TailKeepsLinked ==
  ASSUME NEW w \in Nat, NEW s \in Seq(Frames), s # <<>>, Linked(w, s),
         NEW x \in Nat, w <= x, s[1].seq <= x
  PROVE  /\ s[1].event.kind = "Resync" \/ s[1].seq <= w + 1
         /\ Linked(x, Tail(s))
         /\ \A n \in Nat : Reaches(w, s, n) => Reaches(x, Tail(s), n)
<1> DEFINE t == Tail(s)
           l == Len(s)
<1>1. l \in Nat \ {0} /\ DOMAIN s = 1 .. l
  BY EmptySeq, LenProperties
<1>2. /\ t \in Seq(Frames) /\ Len(t) = l - 1
      /\ \A i \in 1 .. Len(t) : t[i] = s[i + 1]
  BY HeadTailProperties
<1>3. DOMAIN t = 1 .. l - 1
  BY <1>2, LenProperties
<1>4. \A i \in DOMAIN s : s[i].seq \in Nat
  BY <1>1, ElementOfSeq, FrameNumbers
<1> HIDE DEF t, l
<1>5. \A i \in DOMAIN t : i + 1 \in DOMAIN s /\ t[i] = s[i + 1]
  BY <1>1, <1>2, <1>3
<1>6. \A j \in DOMAIN s : j = 1 \/ (j - 1 \in DOMAIN t /\ t[j - 1] = s[j])
  BY <1>1, <1>2, <1>3
<1>7. s[1].event.kind = "Resync" \/ s[1].seq <= w + 1
  <2>1. Follows(w, s, 1) /\ \A j \in DOMAIN s : ~(j < 1)
    BY <1>1 DEF Linked
  <2> QED BY <2>1 DEF Follows
<1>8. ASSUME NEW i \in DOMAIN t
      PROVE  Follows(x, t, i)
  <2>1. Follows(w, s, i + 1) /\ t[i] = s[i + 1] /\ i + 1 \in DOMAIN s /\ t[i].seq \in Nat
    BY <1>4, <1>5 DEF Linked
  <2>2. CASE s[i + 1].event.kind = "Resync"
    BY <2>1, <2>2 DEF Follows
  <2>3. CASE s[i + 1].seq <= w + 1
    <3>1. t[i].seq <= x + 1
      BY <2>1, <2>3
    <3> QED BY <3>1 DEF Follows
  <2>4. CASE \E j \in DOMAIN s : j < i + 1 /\ s[i + 1].seq <= s[j].seq + 1
    <3>1. PICK j \in DOMAIN s : j < i + 1 /\ s[i + 1].seq <= s[j].seq + 1
      BY <2>4
    <3>2. CASE j = 1
      <4>1. t[i].seq <= x + 1
        BY <1>4, <2>1, <3>1, <3>2
      <4> QED BY <4>1 DEF Follows
    <3>3. CASE j # 1
      <4>1. j - 1 \in DOMAIN t /\ t[j - 1] = s[j] /\ j - 1 < i
        BY <1>1, <1>3, <1>6, <3>1, <3>3
      <4>2. t[i].seq <= t[j - 1].seq + 1
        BY <2>1, <3>1, <4>1
      <4> QED BY <4>1, <4>2 DEF Follows
    <3> QED BY <3>2, <3>3
  <2> QED BY <2>1, <2>2, <2>3, <2>4 DEF Follows
<1>9. ASSUME NEW n \in Nat, Reaches(w, s, n)
      PROVE  Reaches(x, t, n)
  <2>1. CASE n <= w + 1
    <3>1. n <= x + 1
      BY <2>1
    <3> QED BY <3>1 DEF Reaches
  <2>2. CASE \E j \in DOMAIN s : n <= s[j].seq + 1
    <3>1. PICK j \in DOMAIN s : n <= s[j].seq + 1
      BY <2>2
    <3>2. CASE j = 1
      <4>1. n <= x + 1
        BY <1>4, <3>1, <3>2
      <4> QED BY <4>1 DEF Reaches
    <3>3. CASE j # 1
      <4>1. j - 1 \in DOMAIN t /\ t[j - 1] = s[j]
        BY <1>6, <3>3
      <4> QED BY <3>1, <4>1 DEF Reaches
    <3> QED BY <3>2, <3>3
  <2> QED BY <1>9, <2>1, <2>2 DEF Reaches
<1> QED BY <1>7, <1>8, <1>9 DEF Linked, t

(* Taking away one that w covers.                                          *)
LEMMA RemovalKeepsLinked ==
  ASSUME NEW w \in Nat, NEW a \in Seq(Frames), NEW b \in Seq(Frames), b # <<>>,
         b[1].seq <= w, Linked(w, a \o b)
  PROVE  /\ Linked(w, a \o Tail(b))
         /\ \A n \in Nat : Reaches(w, a \o b, n) => Reaches(w, a \o Tail(b), n)
<1> DEFINE s == a \o b
           t == a \o Tail(b)
           l == Len(a)
           k == Len(b)
<1>1. l \in Nat /\ k \in Nat \ {0} /\ DOMAIN a = 1 .. l /\ DOMAIN b = 1 .. k
  BY EmptySeq, LenProperties
<1>2. /\ Tail(b) \in Seq(Frames) /\ Len(Tail(b)) = k - 1
      /\ \A i \in 1 .. k - 1 : Tail(b)[i] = b[i + 1]
  BY HeadTailProperties
<1>3. /\ s \in Seq(Frames) /\ Len(s) = l + k
      /\ \A i \in 1 .. l + k : s[i] = IF i <= l THEN a[i] ELSE b[i - l]
  BY ConcatProperties
<1>4. /\ t \in Seq(Frames) /\ Len(t) = l + (k - 1)
      /\ \A i \in 1 .. l + (k - 1) : t[i] = IF i <= l THEN a[i] ELSE Tail(b)[i - l]
  BY <1>2, ConcatProperties
<1>5. DOMAIN s = 1 .. l + k /\ DOMAIN t = 1 .. l + (k - 1)
  BY <1>3, <1>4, LenProperties
<1>6. \A i \in DOMAIN s : s[i].seq \in Nat
  BY <1>3, <1>5, ElementOfSeq, FrameNumbers
<1> HIDE DEF s, t, l, k
<1> DEFINE back(i) == IF i <= l THEN i ELSE i + 1
           forth(j) == IF j <= l THEN j ELSE j - 1
<1>7. ASSUME NEW i \in DOMAIN t
      PROVE  back(i) \in DOMAIN s /\ t[i] = s[back(i)] /\ i \in Nat
  <2>1. CASE i <= l
    BY <1>1, <1>3, <1>4, <1>5, <2>1
  <2>2. CASE ~(i <= l)
    <3>1. i + 1 \in 1 .. l + k /\ ~(i + 1 <= l) /\ (i + 1) - l = (i - l) + 1 /\ i - l \in 1 .. k - 1
      BY <1>1, <1>5, <2>2
    <3>2. s[i + 1] = b[(i + 1) - l]
      BY <1>3, <3>1
    <3>3. t[i] = Tail(b)[i - l]
      BY <1>4, <1>5, <2>2
    <3>4. Tail(b)[i - l] = b[(i - l) + 1]
      BY <1>2, <3>1
    <3> QED BY <1>1, <1>5, <2>2, <3>1, <3>2, <3>3, <3>4
  <2> QED BY <2>1, <2>2
<1>8. s[l + 1].seq <= w /\ l + 1 \in DOMAIN s
  <2>1. l + 1 \in 1 .. l + k /\ ~(l + 1 <= l) /\ (l + 1) - l = 1
    BY <1>1
  <2>2. s[l + 1] = b[1]
    BY <1>3, <2>1
  <2> QED BY <1>5, <2>1, <2>2
<1>9. ASSUME NEW j \in DOMAIN s, j # l + 1
      PROVE  /\ forth(j) \in DOMAIN t /\ t[forth(j)] = s[j] /\ j \in Nat
             /\ \A i \in DOMAIN t : j < back(i) => forth(j) < i
  <2>1. forth(j) \in DOMAIN t /\ back(forth(j)) = j /\ j \in Nat
    BY <1>1, <1>5, <1>9
  <2>2. t[forth(j)] = s[j]
    BY <1>7, <2>1
  <2>3. ASSUME NEW i \in DOMAIN t, j < back(i)
        PROVE  forth(j) < i
    BY <1>1, <1>5, <1>9, <2>3
  <2> QED BY <2>1, <2>2, <2>3
<1> HIDE DEF back, forth
<1>10. ASSUME NEW n \in Nat, NEW j \in DOMAIN s, n <= s[j].seq + 1
       PROVE  \/ n <= w + 1
              \/ forth(j) \in DOMAIN t /\ n <= t[forth(j)].seq + 1 /\ j # l + 1
  <2>1. CASE j = l + 1
    BY <1>6, <1>8, <1>10, <2>1
  <2>2. CASE j # l + 1
    BY <1>9, <1>10, <2>2
  <2> QED BY <2>1, <2>2
<1>11. ASSUME NEW n \in Nat, Reaches(w, s, n)
       PROVE  Reaches(w, t, n)
  BY <1>10, <1>11 DEF Reaches
<1>12. ASSUME NEW i \in DOMAIN t
       PROVE  Follows(w, t, i)
  <2>1. Follows(w, s, back(i)) /\ t[i] = s[back(i)] /\ t[i].seq \in Nat
    BY <1>6, <1>7 DEF Linked, s
  <2>2. CASE s[back(i)].event.kind = "Resync" \/ s[back(i)].seq <= w + 1
    BY <2>1, <2>2 DEF Follows
  <2>3. CASE \E j \in DOMAIN s : j < back(i) /\ s[back(i)].seq <= s[j].seq + 1
    <3>1. PICK j \in DOMAIN s : j < back(i) /\ s[back(i)].seq <= s[j].seq + 1
      BY <2>3
    <3>2. \/ t[i].seq <= w + 1
          \/ forth(j) \in DOMAIN t /\ t[i].seq <= t[forth(j)].seq + 1 /\ j # l + 1
      BY <1>10, <2>1, <3>1
    <3>3. j # l + 1 => forth(j) < i
      BY <1>9, <3>1
    <3> QED BY <3>2, <3>3 DEF Follows
  <2> QED BY <2>1, <2>2, <2>3 DEF Follows
<1> QED BY <1>11, <1>12 DEF Linked, s, t

(* The messages a client has received and those queued for it, in the      *)
(* order it applies them.                                                  *)
LEMMA WayProperties ==
  ASSUME NEW u \in Seq(Messages), NEW o \in Seq(Frames)
  PROVE  /\ u \o o \in Seq(Frames)
         /\ \A m \in Frames : u \o Append(o, m) = Append(u \o o, m)
         /\ o # <<>> /\ o[1] \in Messages => Append(u, o[1]) \o Tail(o) = u \o o
         /\ u # <<>> => /\ Tail(u) \o o = Tail(u \o o) /\ u \o o # <<>> /\ (u \o o)[1] = u[1]
<1>1. u \in Seq(Frames)
  BY SeqMonotonic DEF Frames
<1>2. u \o o \in Seq(Frames) /\ Len(u) \in Nat /\ Len(o) \in Nat
  BY <1>1, ConcatProperties, LenProperties
<1>3. ASSUME NEW m \in Frames
      PROVE  u \o Append(o, m) = Append(u \o o, m)
  <2>1. <<m>> \in Seq(Frames)
    OBVIOUS
  <2>2. Append(o, m) = o \o <<m>> /\ Append(u \o o, m) = (u \o o) \o <<m>>
    BY <1>2, AppendIsConcat
  <2> QED BY <1>1, <2>1, <2>2, ConcatAssociative
<1>4. ASSUME o # <<>>, o[1] \in Messages
      PROVE  Append(u, o[1]) \o Tail(o) = u \o o
  <2>1. o = <<o[1]>> \o Tail(o)
    <3>1. Len(o) \in Nat \ {0}
      BY <1>4, EmptySeq
    <3>2. /\ SubSeq(o, 1, Len(o)) = o
          /\ SubSeq(o, 1, Len(o)) = <<o[1]>> \o SubSeq(o, 1 + 1, Len(o))
          /\ Tail(o) = SubSeq(o, 2, Len(o))
      BY <1>4, <3>1, SubSeqFull, SubSeqRecursiveFirst, TailIsSubSeq
    <3> QED BY <3>2
  <2>2. Append(u, o[1]) = u \o <<o[1]>> /\ <<o[1]>> \in Seq(Frames) /\ Tail(o) \in Seq(Frames)
    BY <1>1, <1>4, AppendIsConcat, HeadTailProperties DEF Frames
  <2>3. (u \o <<o[1]>>) \o Tail(o) = u \o (<<o[1]>> \o Tail(o))
    BY <1>1, <2>2, ConcatAssociative
  <2> QED BY <2>1, <2>2, <2>3
<1>5. ASSUME u # <<>>
      PROVE  Tail(u) \o o = Tail(u \o o) /\ u \o o # <<>> /\ (u \o o)[1] = u[1]
  <2>1. Len(u) \in Nat \ {0}
    BY <1>5, EmptySeq
  <2>2. /\ Tail(u) \in Seq(Frames) /\ Len(Tail(u)) = Len(u) - 1
        /\ \A i \in 1 .. Len(Tail(u)) : Tail(u)[i] = u[i + 1]
    BY <1>1, <1>5, HeadTailProperties
  <2>3. /\ u \o o \in Seq(Frames) /\ Len(u \o o) = Len(u) + Len(o)
        /\ \A i \in 1 .. Len(u) + Len(o) :
             (u \o o)[i] = IF i <= Len(u) THEN u[i] ELSE o[i - Len(u)]
    BY <1>1, ConcatProperties
  <2>4. /\ Tail(u) \o o \in Seq(Frames) /\ Len(Tail(u) \o o) = Len(Tail(u)) + Len(o)
        /\ \A i \in 1 .. Len(Tail(u)) + Len(o) :
             (Tail(u) \o o)[i] = IF i <= Len(Tail(u)) THEN Tail(u)[i] ELSE o[i - Len(Tail(u))]
    BY <2>2, ConcatProperties
  <2>5. u \o o # <<>> /\ (u \o o)[1] = u[1]
    BY <1>2, <2>1, <2>3, EmptySeq
  <2>6. /\ Tail(u \o o) \in Seq(Frames) /\ Len(Tail(u \o o)) = Len(u \o o) - 1
        /\ \A i \in 1 .. Len(Tail(u \o o)) : Tail(u \o o)[i] = (u \o o)[i + 1]
    BY <2>3, <2>5, HeadTailProperties
  <2> DEFINE s == Tail(u) \o o
             t == Tail(u \o o)
             w == u \o o
             v == Tail(u)
  <2> HIDE DEF s, t, w, v
  <2>7. ASSUME NEW i \in 1 .. Len(s)
        PROVE  s[i] = t[i]
    <3>1. i \in 1 .. (Len(u) - 1) + Len(o) /\ i \in Nat
      BY <2>2, <2>4 DEF s, v
    <3>2. t[i] = w[i + 1]
      BY <1>2, <2>1, <2>3, <2>6, <3>1 DEF t, w
    <3>3. CASE i <= Len(u) - 1
      <4>1. w[i + 1] = u[i + 1]
        BY <1>2, <2>1, <2>3, <3>1, <3>3 DEF w
      <4>2. s[i] = v[i] /\ v[i] = u[i + 1]
        BY <1>2, <2>1, <2>2, <2>4, <3>1, <3>3 DEF s, v
      <4> QED BY <3>2, <4>1, <4>2
    <3>4. CASE ~(i <= Len(u) - 1)
      <4>1. i + 1 \in 1 .. Len(u) + Len(o) /\ ~(i + 1 <= Len(u)) /\ (i + 1) - Len(u) = i - (Len(u) - 1)
        BY <1>2, <2>1, <3>1, <3>4
      <4>2. w[i + 1] = o[(i + 1) - Len(u)]
        BY <2>3, <4>1 DEF w
      <4>3. s[i] = o[i - (Len(u) - 1)]
        BY <2>2, <2>4, <3>1, <3>4 DEF s, v
      <4> QED BY <3>2, <4>1, <4>2, <4>3
    <3> QED BY <3>3, <3>4
  <2>8. s \in Seq(Frames) /\ t \in Seq(Frames) /\ Len(s) = Len(t)
    BY <1>2, <2>1, <2>2, <2>3, <2>4, <2>6 DEF s, t
  <2>9. s = t
    BY <2>7, <2>8, SeqEqual
  <2> QED BY <2>5, <2>9 DEF s, t
<1> QED BY <1>2, <1>3, <1>4, <1>5

(* At most one snapshot is on its way.                                     *)
NoneIn(s) == \A i \in DOMAIN s : s[i] \notin Snapshots
OneIn(s, m) == \E k \in DOMAIN s : s[k] = m /\ \A i \in DOMAIN s : i # k => s[i] \notin Snapshots

LEMMA OneIsAppended ==
  ASSUME NEW s \in Seq(Frames), NEW x \in Frames
  PROVE  /\ NoneIn(s) /\ x \in Messages => NoneIn(Append(s, x))
         /\ NoneIn(s) => OneIn(Append(s, x), x)
         /\ \A m : OneIn(s, m) /\ x \in Messages => OneIn(Append(s, x), m)
<1> DEFINE t == Append(s, x)
           n == Len(s)
<1>1. /\ n \in Nat /\ DOMAIN s = 1 .. n /\ Len(t) = n + 1 /\ t[n + 1] = x /\ t \in Seq(Frames)
      /\ \A i \in 1 .. n : t[i] = s[i]
  BY LenProperties, AppendProperties
<1>2. DOMAIN t = 1 .. n + 1
  BY <1>1, LenProperties
<1>3. x \in Messages => x \notin Snapshots
  BY MessageFacts
<1> HIDE DEF t, n
<1>4. NoneIn(s) /\ x \in Messages => NoneIn(t)
  BY <1>1, <1>2, <1>3 DEF NoneIn
<1>5. NoneIn(s) => OneIn(t, x)
  <2>1. n + 1 \in DOMAIN t /\ \A i \in DOMAIN t : i # n + 1 => i \in DOMAIN s /\ t[i] = s[i]
    BY <1>1, <1>2
  <2> QED BY <1>1, <2>1 DEF NoneIn, OneIn
<1>6. ASSUME NEW m, OneIn(s, m), x \in Messages
      PROVE  OneIn(t, m)
  <2>1. PICK k \in DOMAIN s : s[k] = m /\ \A i \in DOMAIN s : i # k => s[i] \notin Snapshots
    BY <1>6 DEF OneIn
  <2>2. k \in DOMAIN t /\ t[k] = m
    BY <1>1, <1>2, <2>1
  <2>3. \A i \in DOMAIN t : i # k => t[i] \notin Snapshots
    BY <1>1, <1>2, <1>3, <1>6, <2>1
  <2> QED BY <2>2, <2>3 DEF OneIn
<1> QED BY <1>4, <1>5, <1>6 DEF t

LEMMA OneIsTaken ==
  ASSUME NEW s \in Seq(Frames), s # <<>>
  PROVE  /\ NoneIn(s) => s[1] \notin Snapshots /\ NoneIn(Tail(s))
         /\ \A m : OneIn(s, m) =>
              IF s[1] \in Snapshots /\ m \in Snapshots THEN s[1] = m /\ NoneIn(Tail(s))
              ELSE m \in Snapshots => OneIn(Tail(s), m)
<1> DEFINE t == Tail(s)
           n == Len(s)
<1>1. /\ n \in Nat \ {0} /\ DOMAIN s = 1 .. n /\ t \in Seq(Frames) /\ Len(t) = n - 1
      /\ \A i \in 1 .. Len(t) : t[i] = s[i + 1]
  BY EmptySeq, LenProperties, HeadTailProperties
<1>2. DOMAIN t = 1 .. n - 1
  BY <1>1, LenProperties
<1> HIDE DEF t, n
<1>3. \A i \in DOMAIN t : i + 1 \in DOMAIN s /\ t[i] = s[i + 1] /\ i + 1 # 1
  BY <1>1, <1>2
<1>4. NoneIn(s) => s[1] \notin Snapshots /\ NoneIn(t)
  BY <1>1, <1>3 DEF NoneIn
<1>5. ASSUME NEW m \in Snapshots, OneIn(s, m)
      PROVE  IF s[1] \in Snapshots THEN s[1] = m /\ NoneIn(t) ELSE OneIn(t, m)
  <2>1. PICK k \in DOMAIN s : s[k] = m /\ \A i \in DOMAIN s : i # k => s[i] \notin Snapshots
    BY <1>5 DEF OneIn
  <2>2. CASE k = 1
    BY <1>3, <1>5, <2>1, <2>2 DEF NoneIn
  <2>3. CASE k # 1
    <3>1. k - 1 \in DOMAIN t /\ t[k - 1] = m /\ s[1] \notin Snapshots
      BY <1>1, <1>2, <2>1, <2>3
    <3>2. \A i \in DOMAIN t : i # k - 1 => t[i] \notin Snapshots
      <4>1. \A i \in DOMAIN t : i # k - 1 => i + 1 # k
        BY <1>1, <1>2, <2>3
      <4> QED BY <1>3, <2>1, <4>1
    <3> QED BY <3>1, <3>2 DEF OneIn
  <2> QED BY <2>2, <2>3
<1> QED BY <1>4, <1>5 DEF t

---------------------------------------------------------------------------
(* What is unread of a forwarder is what was numbered last, and it begins, *)
(* unless the forwarder is yet to be told of a loss, no later than after   *)
(* what the forwarder, or the snapshot it waits for, has seen.             *)

Numbers(n, s) == \A i \in DOMAIN s : s[i].seq = n - Len(s) + i

Backlogged(n, d, f) ==
  /\ f.at = "off" => f = Off
  /\ Numbers(n, f.backlog.unread)
  /\ ~f.backlog.missed =>
       /\ f.at \in {"receiving", "resyncing", "sending"} => n - Len(f.backlog.unread) <= f.seen
       /\ f.at = "unborn" /\ d.at \in {"numbered", "complete"} => n - Len(f.backlog.unread) <= d.seq
  /\ f.at = "sending" => f.held.seq = f.seen

LEMMA KeptNumbers ==
  ASSUME NEW n \in Nat, NEW r \in Receiver(Messages), Numbers(n, r.unread), NEW m \in Messages,
         m.seq = n + 1, NEW capacity, NEW o, Kept(Messages, r, m, capacity, o)
  PROVE  /\ Numbers(n + 1, o.unread)
         /\ ~o.missed => ~r.missed /\ Len(o.unread) = Len(r.unread) + 1
<1> DEFINE s == r.unread
           k == Len(s)
<1>1. s \in Seq(Messages) /\ k \in Nat /\ DOMAIN s = 1 .. k
  BY LenProperties DEF Receiver
<1>2. \A i \in 1 .. k : s[i].seq = n - k + i
  BY <1>1 DEF Numbers
<1> HIDE DEF s, k
<1>3. CASE o.unread = Append(s, m) /\ o.missed = r.missed
  <2> DEFINE t == Append(s, m)
  <2>1. /\ t \in Seq(Messages) /\ Len(t) = k + 1 /\ t[k + 1] = m /\ \A i \in 1 .. k : t[i] = s[i]
    BY <1>1, AppendProperties DEF k
  <2>2. DOMAIN t = 1 .. k + 1
    BY <2>1, LenProperties
  <2> HIDE DEF t
  <2>3. ASSUME NEW i \in DOMAIN t
        PROVE  t[i].seq = (n + 1) - Len(t) + i
    <3>1. CASE i = k + 1
      BY <1>1, <2>1, <3>1
    <3>2. CASE i \in 1 .. k
      BY <1>1, <1>2, <2>1, <3>2
    <3> QED BY <1>1, <2>2, <3>1, <3>2
  <2>4. Numbers(n + 1, t)
    BY <2>3 DEF Numbers
  <2> QED BY <1>3, <2>1, <2>4 DEF t, s, k
<1>4. CASE s # <<>> /\ o.unread = Append(Tail(s), m) /\ o.missed = TRUE
  <2> DEFINE v == Tail(s)
             t == Append(v, m)
  <2>1. k \in Nat \ {0} /\ v \in Seq(Messages) /\ Len(v) = k - 1 /\ \A i \in 1 .. k - 1 : v[i] = s[i + 1]
    BY <1>1, <1>4, EmptySeq, HeadTailProperties DEF k
  <2> HIDE DEF v
  <2>2. /\ t \in Seq(Messages) /\ Len(t) = Len(v) + 1 /\ t[Len(v) + 1] = m
        /\ \A i \in 1 .. Len(v) : t[i] = v[i]
    BY <2>1, AppendProperties
  <2>3. Len(t) = k /\ t[k] = m /\ \A i \in 1 .. k - 1 : t[i] = s[i + 1]
    BY <2>1, <2>2
  <2>4. DOMAIN t = 1 .. k
    BY <2>2, <2>3, LenProperties
  <2> HIDE DEF t
  <2>5. ASSUME NEW i \in DOMAIN t
        PROVE  t[i].seq = (n + 1) - Len(t) + i
    <3>1. CASE i = k
      BY <1>1, <2>3, <3>1
    <3>2. CASE i \in 1 .. k - 1
      <4>1. i + 1 \in 1 .. k
        BY <2>1, <3>2
      <4>2. n - k + (i + 1) = (n + 1) - k + i
        BY <1>1, <3>2
      <4> QED BY <1>2, <2>3, <3>2, <4>1, <4>2
    <3> QED BY <2>1, <2>4, <3>1, <3>2
  <2>6. Numbers(n + 1, t)
    BY <2>5 DEF Numbers
  <2> QED BY <1>4, <2>6 DEF t, v, s
<1> QED BY <1>3, <1>4 DEF Kept, s

LEMMA TailNumbers ==
  ASSUME NEW n \in Nat, NEW s \in Seq(Messages), s # <<>>, Numbers(n, s)
  PROVE  /\ Numbers(n, Tail(s)) /\ Len(Tail(s)) = Len(s) - 1 /\ Len(s) \in Nat
         /\ s[1].seq = n - Len(s) + 1
<1> DEFINE t == Tail(s)
           k == Len(s)
<1>1. /\ k \in Nat \ {0} /\ DOMAIN s = 1 .. k /\ t \in Seq(Messages) /\ Len(t) = k - 1
      /\ \A i \in 1 .. Len(t) : t[i] = s[i + 1]
  BY EmptySeq, LenProperties, HeadTailProperties
<1>2. DOMAIN t = 1 .. k - 1
  BY <1>1, LenProperties
<1>3. \A i \in 1 .. k : s[i].seq = n - k + i
  BY <1>1 DEF Numbers
<1> HIDE DEF t, k
<1>4. ASSUME NEW i \in DOMAIN t
      PROVE  t[i].seq = n - Len(t) + i
  <2> DEFINE q == k
  <2>0. q = k /\ q \in Nat /\ i \in 1 .. q - 1
    BY <1>1, <1>2
  <2> HIDE DEF q
  <2>1. i + 1 \in 1 .. q /\ n - q + (i + 1) = n - (q - 1) + i
    BY <2>0
  <2> QED BY <1>1, <1>2, <1>3, <2>0, <2>1
<1>5. Numbers(n, t) /\ 1 \in 1 .. k
  BY <1>1, <1>4 DEF Numbers
<1> QED BY <1>1, <1>3, <1>5 DEF t, k

LEMMA NothingNumbers == \A n : Numbers(n, <<>>)
BY DEF Numbers

LEMMA OffIsBacklogged ==
  ASSUME NEW n \in Nat, NEW d
  PROVE  Backlogged(n, d, Off)
BY OffProperties, ListeningProperties, NothingNumbers DEF Backlogged

(* A message given to DeliveredAs is the last the forwarder has seen.      *)
LEMMA DeliveredIsBacklogged ==
  ASSUME NEW d, NEW n \in Nat, NEW f, NEW m, f.at = "receiving", m.seq = f.seen, Backlogged(n, d, f),
         DeliveredAs(f, m)
  PROVE  Backlogged(n, d, forwarder')
<1>1. Backlogged(n, d, Off)
  BY OffIsBacklogged
<1>2. CASE forwarder' = f \/ forwarder' = Off
  BY <1>1, <1>2
<1>3. CASE /\ forwarder'.at = "sending" /\ forwarder'.held = m
           /\ forwarder'.seen = f.seen /\ forwarder'.backlog = f.backlog
  BY <1>3 DEF Backlogged
<1> QED BY <1>2, <1>3 DEF DeliveredAs

LEMMA OffStays ==
  ASSUME FanIn, forwarder.at = "off"
  PROVE  forwarder' = forwarder
BY DEF FanIn, FanInEvent, FanInLagged, FanInQueue, RequestShutdown, PublishEvent, Reached

LEMMA NextBacklogged ==
  ASSUME Types, Backlogged(seq, desk, forwarder), [Next]_vars
  PROVE  Backlogged(seq, desk, forwarder)'
<1>1. /\ seq \in Nat /\ forwarder \in Forwarders /\ forwarder.backlog \in Receiver(Messages)
      /\ forwarder.backlog.unread \in Seq(Messages) /\ Len(forwarder.backlog.unread) \in Nat
      /\ forwarder.seen \in Nat /\ desk.seq \in Nat
  BY LenProperties DEF Types, ConnectionTypes, Forwarders, Receiver, Desks
<1>2. CASE UNCHANGED <<seq, desk, forwarder>>
  BY <1>2
<1>3. CASE FanIn
  <2>1. PICK e \in Events : Publishes(e)
    BY <1>3, FanInTypes
  <2>2. seq' = seq + 1 /\ desk' = desk /\ forwarder'.at = forwarder.at
        /\ forwarder'.seen = forwarder.seen /\ forwarder'.held = forwarder.held
    BY <2>1 DEF Publishes
  <2>3. CASE forwarder.at = "off"
    <3>1. forwarder = Off
      BY <2>3 DEF Backlogged
    <3>2. Backlogged(seq + 1, desk, Off)
      BY <1>1, OffIsBacklogged
    <3>3. forwarder' = Off
      BY <1>3, <2>3, <3>1, OffStays
    <3> QED BY <2>2, <3>2, <3>3
  <2>4. CASE Kept(Messages, forwarder.backlog, Numbered(seq + 1, e), Backlog, forwarder'.backlog)
             /\ forwarder.at # "off"
    <3>1. Numbers(seq, forwarder.backlog.unread)
      BY DEF Backlogged
    <3>2. Numbered(seq + 1, e) \in Messages /\ Numbered(seq + 1, e).seq = seq + 1
      BY <1>1, NumberedMessage
    <3>3. /\ Numbers(seq + 1, forwarder'.backlog.unread)
          /\ ~forwarder'.backlog.missed =>
               ~forwarder.backlog.missed
                 /\ Len(forwarder'.backlog.unread) = Len(forwarder.backlog.unread) + 1
      BY SMTT(30), <1>1, <2>4, <3>1, <3>2, KeptNumbers
    <3>4. ~forwarder'.backlog.missed =>
            /\ ~forwarder.backlog.missed
            /\ (seq + 1) - Len(forwarder'.backlog.unread) = seq - Len(forwarder.backlog.unread)
      <4>1. \A a, b \in Nat : b = a + 1 => (seq + 1) - b = seq - a
        BY <1>1
      <4>2. ~forwarder'.backlog.missed => Len(forwarder'.backlog.unread) \in Nat
        BY <1>1, <3>3
      <4> QED BY <1>1, <3>3, <4>1, <4>2
    <3> QED BY <2>2, <2>4, <3>3, <3>4 DEF Backlogged
  <2> QED BY <2>1, <2>3, <2>4 DEF Publishes
<1>4. CASE Listen
  <2>1. /\ forwarder'.at = "unborn" /\ forwarder'.backlog = Listening /\ desk'.at = "number"
    BY <1>4, ListenTypes
  <2> QED BY <2>1, ListeningProperties, NothingNumbers DEF Backlogged
<1>5. CASE TakeSnapshot
  <2>1. /\ forwarder' = forwarder /\ seq' = seq
        /\ \/ desk.at = "number" /\ desk'.at = "numbered" /\ desk'.seq = seq
           \/ desk.at = "numbered" /\ desk'.at = "complete" /\ desk'.seq = desk.seq
    BY <1>5, TakeSnapshotTypes
  <2>2. seq - Len(forwarder.backlog.unread) <= seq
    BY <1>1
  <2> QED BY <2>1, <2>2 DEF Backlogged
<1>6. CASE Answer
  <2>1. /\ desk.at = "complete" /\ forwarder'.at = "receiving" /\ forwarder'.seen = desk.seq
        /\ forwarder'.backlog = forwarder.backlog /\ seq' = seq /\ desk'.at = "idle"
    BY <1>6, AnswerTypes
  <2>2. forwarder.at = "unborn"
    BY <2>1 DEF Types, ConnectionTypes
  <2> QED BY <2>1, <2>2 DEF Backlogged
<1>7. CASE Receive
  <2> DEFINE r == forwarder.backlog
             m == r.unread[1]
  <2>1. /\ forwarder.at = "receiving" /\ ~r.missed /\ r.unread # <<>> /\ seq' = seq /\ desk' = desk
        /\ m \in Messages
        /\ \/ /\ m.seq <= forwarder.seen /\ forwarder'.at = "receiving"
              /\ forwarder'.seen = forwarder.seen /\ forwarder'.backlog = Taken(r)
           \/ \E f \in Forwarders : f.at = "receiving" /\ f.seen = m.seq /\ f.backlog = Taken(r)
                                      /\ DeliveredAs(f, m)
    BY <1>7, ReceiveTypes
  <2>2. Taken(r).unread = Tail(r.unread) /\ Taken(r).missed = r.missed
    BY <1>1, <2>1, TakenProperties
  <2>3. Numbers(seq, r.unread)
    BY DEF Backlogged
  <2>4. /\ Numbers(seq, Taken(r).unread) /\ m.seq = seq - Len(r.unread) + 1
        /\ Len(Taken(r).unread) = Len(r.unread) - 1
    BY <1>1, <2>1, <2>2, <2>3, TailNumbers
  <2>5. seq - Len(Taken(r).unread) <= m.seq
    BY <1>1, <2>4
  <2> HIDE DEF m
  <2>6. CASE /\ m.seq <= forwarder.seen /\ forwarder'.at = "receiving"
             /\ forwarder'.seen = forwarder.seen /\ forwarder'.backlog = Taken(r)
    <3>1. seq - Len(Taken(r).unread) <= forwarder.seen
      <4>1. seq - Len(Taken(r).unread) \in Int /\ m.seq \in Int
        BY <1>1, <2>4
      <4> QED BY <1>1, <2>5, <2>6, <4>1
    <3> QED BY <2>1, <2>4, <2>6, <3>1 DEF Backlogged
  <2>7. CASE \E f \in Forwarders : f.at = "receiving" /\ f.seen = m.seq /\ f.backlog = Taken(r)
                                      /\ DeliveredAs(f, m)
    <3>1. PICK f \in Forwarders : f.at = "receiving" /\ f.seen = m.seq /\ f.backlog = Taken(r)
                                    /\ DeliveredAs(f, m)
      BY <2>7
    <3>2. Backlogged(seq, desk, f)
      BY <2>4, <2>5, <3>1 DEF Backlogged
    <3> QED BY <1>1, <2>1, <3>1, <3>2, DeliveredIsBacklogged
  <2> QED BY <2>1, <2>6, <2>7 DEF m
<1>8. CASE Lag
  <2>1. /\ seq' = seq /\ desk' = desk /\ forwarder'.at = "resyncing" /\ forwarder'.seen = seq
        /\ forwarder'.backlog.unread = forwarder.backlog.unread
    BY <1>8, LagTypes
  <2>2. seq - Len(forwarder.backlog.unread) <= seq
    BY <1>1
  <2> QED BY <2>1, <2>2 DEF Backlogged
<1>9. CASE Resync
  <2>1. /\ seq' = seq /\ desk' = desk /\ forwarder.at = "resyncing" /\ MakingUp.seq = forwarder.seen
        /\ \E f \in Forwarders :
              /\ f.at = "receiving" /\ f.seen = forwarder.seen
              /\ f.backlog = forwarder.backlog /\ DeliveredAs(f, MakingUp)
    BY <1>9, ResyncTypes
  <2>2. PICK f \in Forwarders : /\ f.at = "receiving" /\ f.seen = forwarder.seen
                                /\ f.backlog = forwarder.backlog /\ DeliveredAs(f, MakingUp)
    BY <2>1
  <2>3. Backlogged(seq, desk, f)
    BY <2>1, <2>2 DEF Backlogged
  <2> QED BY <1>1, <2>1, <2>2, <2>3, DeliveredIsBacklogged
<1>10. CASE Forward
  <2>1. /\ seq' = seq /\ desk' = desk /\ forwarder.at = "sending"
        /\ \/ forwarder' = Off
           \/ /\ forwarder'.at = "receiving" /\ forwarder'.seen = forwarder.seen
              /\ forwarder'.backlog = forwarder.backlog
    BY <1>10, ForwardTypes
  <2>2. Backlogged(seq, desk, Off)
    BY <1>1, OffIsBacklogged
  <2> QED BY <2>1, <2>2 DEF Backlogged
<1>11. CASE Connect \/ AskAgain
  <2>1. seq' = seq /\ forwarder' = forwarder /\ desk'.at = "asked"
    BY <1>11, ConnectTypes, AskAgainTypes
  <2> QED BY <2>1 DEF Backlogged
<1>12. CASE Break \/ StopServing
  <2>1. seq' = seq /\ forwarder' = Off
    BY <1>12, DisconnectTypes
  <2> QED BY <1>1, <2>1, OffIsBacklogged
<1>13. CASE \/ EngineBegins \/ EngineGoesOn \/ EditQueue \/ SendLate \/ ReadFrame \/ TakeAnswer
            \/ NextEvent \/ UNCHANGED vars
  BY <1>2, <1>13
  DEF EngineBegins, EngineGoesOn, EditQueue, SendLate, ReadFrame, TakeAnswer, NextEvent, vars,
      connection
<1> QED
  BY <1>3, <1>4, <1>5, <1>6, <1>7, <1>8, <1>9, <1>10, <1>11, <1>12, <1>13 DEF Next, Works, FanIn

---------------------------------------------------------------------------
(* What is on its way continues from number w: it is linked after w, the   *)
(* forwarder goes on where it ends, and a late message is covered by w.    *)
(* Once the client has lost some nothing is claimed: it will ask again.    *)

Continues(w, l, r, o, f) ==
  /\ l = NoMessage \/ l.seq <= w
  /\ ~r.missed =>
       /\ Linked(w, r.unread \o o)
       /\ f.at = "receiving" => Reaches(w, r.unread \o o, f.seen + 1)
       /\ f.at = "sending" =>
            f.held.event.kind = "Resync" \/ Reaches(w, r.unread \o o, f.seen)

(* All of it is covered by w.                                              *)
Covered(w, l, r, o) ==
  /\ l = NoMessage \/ l.seq <= w
  /\ \A m \in ToSet(r.unread) \cup ToSet(o) : m.seq <= w

LEMMA SentIsLinked ==
  ASSUME NEW w \in Nat, NEW u \in Seq(Messages), NEW o \in Seq(Frames), NEW m \in Frames,
         Linked(w, u \o o), m.event.kind = "Resync" \/ Reaches(w, u \o o, m.seq)
  PROVE  /\ Linked(w, u \o Append(o, m)) /\ Reaches(w, u \o Append(o, m), m.seq + 1)
         /\ \A n : Reaches(w, u \o o, n) => Reaches(w, u \o Append(o, m), n)
<1>1. u \o o \in Seq(Frames) /\ u \o Append(o, m) = Append(u \o o, m)
  BY WayProperties
<1> QED BY <1>1, AppendKeepsLinked, AppendKeepsReaching

LEMMA DeliveredContinues ==
  ASSUME NEW w \in Nat, Types, NEW f, NEW m \in Messages, f.at = "receiving", f.seen = m.seq,
         DeliveredAs(f, m), late' = late, client' = client, late = NoMessage \/ late.seq <= w,
         ~client.inbox.missed =>
           /\ Linked(w, client.inbox.unread \o outbox)
           /\ m.event.kind = "Resync" \/ Reaches(w, client.inbox.unread \o outbox, m.seq)
  PROVE  Continues(w, late, client.inbox, outbox, forwarder)'
<1> DEFINE u == client.inbox.unread
<1>1. u \in Seq(Messages) /\ outbox \in Seq(Frames) /\ m \in Frames
  BY DEF Types, ConnectionTypes, ClientTypes, Clients, Receiver, Frames
<1>2. CASE client.inbox.missed
  BY <1>2 DEF Continues
<1>3. CASE ~client.inbox.missed
  <2>1. /\ Linked(w, u \o outbox)
        /\ m.event.kind = "Resync" \/ Reaches(w, u \o outbox, m.seq)
    BY <1>3
  <2>2. Linked(w, u \o Append(outbox, m)) /\ Reaches(w, u \o Append(outbox, m), m.seq + 1)
    BY <1>1, <2>1, SentIsLinked
  <2>3. CASE outbox' = Append(outbox, m) /\ forwarder' = f
    BY <2>2, <2>3 DEF Continues
  <2>4. CASE outbox' = Append(outbox, m) /\ forwarder' = Off
    BY <2>2, <2>4, OffProperties DEF Continues
  <2>5. CASE /\ outbox' = outbox /\ forwarder'.at = "sending" /\ forwarder'.held = m
             /\ forwarder'.seen = f.seen
    BY <2>1, <2>5 DEF Continues
  <2> QED BY <2>3, <2>4, <2>5 DEF DeliveredAs
<1> QED BY <1>2, <1>3

(* The steps that only move along what is on its way.                      *)
Transmits ==
  \/ EngineBegins \/ EngineGoesOn \/ EditQueue \/ FanIn \/ UNCHANGED vars
  \/ SendLate \/ Receive \/ Lag \/ Resync \/ Forward
  \/ ReadFrame /\ outbox[1] \in Messages

LEMMA ConnectionIdle ==
  ASSUME Types, EngineBegins \/ EngineGoesOn \/ EditQueue \/ FanIn \/ UNCHANGED vars
  PROVE  /\ UNCHANGED <<desk, late, outbox, client, view>>
         /\ forwarder'.at = forwarder.at /\ forwarder'.seen = forwarder.seen
         /\ forwarder'.held = forwarder.held
<1>1. CASE FanIn
  BY <1>1, FanInTypes DEF Publishes
<1>2. CASE EngineBegins \/ EngineGoesOn \/ EditQueue \/ UNCHANGED vars
  BY <1>2 DEF EngineBegins, EngineGoesOn, EditQueue, vars, connection
<1> QED BY <1>1, <1>2

LEMMA TransmitsContinues ==
  ASSUME Types, Backlogged(seq, desk, forwarder), Transmits, NEW w \in Nat,
         Continues(w, late, client.inbox, outbox, forwarder)
  PROVE  Continues(w, late, client.inbox, outbox, forwarder)'
<1> DEFINE u == client.inbox.unread
<1>1. /\ u \in Seq(Messages) /\ outbox \in Seq(Frames) /\ client.inbox \in Receiver(Messages)
      /\ forwarder \in Forwarders /\ forwarder.seen \in Nat /\ seq \in Nat
      /\ forwarder.backlog.unread \in Seq(Messages)
  BY DEF Types, ConnectionTypes, ClientTypes, Clients, Receiver, Frames, Forwarders
<1>2. CASE EngineBegins \/ EngineGoesOn \/ EditQueue \/ FanIn \/ UNCHANGED vars
  BY <1>2, ConnectionIdle DEF Continues
<1>3. CASE SendLate
  <2>1. /\ late \in Messages /\ late' = NoMessage /\ client' = client /\ forwarder' = forwarder
        /\ outbox' = outbox \/ outbox' = Append(outbox, late)
    BY <1>3, SendLateTypes
  <2>2. CASE outbox' = outbox
    BY <2>1, <2>2 DEF Continues
  <2>3. CASE outbox' = Append(outbox, late) /\ ~client.inbox.missed
    <3>1. late.seq \in Nat /\ late.seq <= w + 1 /\ late \in Frames
      BY <2>1, MessageFacts DEF Continues, Frames
    <3>2. Linked(w, u \o outbox) /\ Reaches(w, u \o outbox, late.seq)
      BY <2>3, <3>1 DEF Continues, Reaches
    <3>3. /\ Linked(w, u \o outbox')
          /\ \A n : Reaches(w, u \o outbox, n) => Reaches(w, u \o outbox', n)
      BY <1>1, <2>3, <3>1, <3>2, SentIsLinked
    <3> QED BY <2>1, <2>3, <3>3 DEF Continues
  <2>4. CASE client.inbox.missed
    BY <2>1, <2>4 DEF Continues
  <2> QED BY <2>1, <2>2, <2>3, <2>4
<1>4. CASE Receive
  <2> DEFINE m == forwarder.backlog.unread[1]
  <2>1. /\ client' = client /\ late' = late /\ forwarder.at = "receiving"
        /\ ~forwarder.backlog.missed /\ forwarder.backlog.unread # <<>> /\ m \in Messages
        /\ \/ /\ m.seq <= forwarder.seen /\ outbox' = outbox
              /\ forwarder'.at = "receiving" /\ forwarder'.seen = forwarder.seen
           \/ /\ m.seq > forwarder.seen
              /\ \E f \in Forwarders : f.at = "receiving" /\ f.seen = m.seq /\ DeliveredAs(f, m)
    BY <1>4, ReceiveTypes
  <2>2. m.seq = forwarder.seen + 1 \/ m.seq <= forwarder.seen
    <3>1. /\ Numbers(seq, forwarder.backlog.unread)
          /\ seq - Len(forwarder.backlog.unread) <= forwarder.seen
      BY <2>1 DEF Backlogged
    <3>2. m.seq = seq - Len(forwarder.backlog.unread) + 1 /\ Len(forwarder.backlog.unread) \in Nat
      BY <1>1, <2>1, <3>1, TailNumbers
    <3>3. \A a, b, c \in Nat : a - b <= c => a - b + 1 = c + 1 \/ a - b + 1 <= c
      OBVIOUS
    <3> HIDE DEF m
    <3> QED BY <1>1, <3>1, <3>2, <3>3
  <2> HIDE DEF m
  <2>3. CASE /\ m.seq <= forwarder.seen /\ outbox' = outbox
             /\ forwarder'.at = "receiving" /\ forwarder'.seen = forwarder.seen
    BY <2>1, <2>3 DEF Continues
  <2>4. CASE /\ m.seq > forwarder.seen
             /\ \E f \in Forwarders : f.at = "receiving" /\ f.seen = m.seq /\ DeliveredAs(f, m)
    <3>1. m.seq = forwarder.seen + 1
      BY <1>1, <2>1, <2>2, <2>4, MessageFacts
    <3>2. PICK f \in Forwarders : f.at = "receiving" /\ f.seen = m.seq /\ DeliveredAs(f, m)
      BY <2>4
    <3>3. /\ late = NoMessage \/ late.seq <= w
          /\ ~client.inbox.missed => Linked(w, u \o outbox) /\ Reaches(w, u \o outbox, m.seq)
      BY <2>1, <3>1 DEF Continues
    <3> QED BY <2>1, <3>2, <3>3, DeliveredContinues
  <2> QED BY <2>1, <2>3, <2>4
<1>5. CASE Lag
  BY <1>5, LagTypes DEF Continues
<1>6. CASE Resync
  <2>1. /\ client' = client /\ late' = late /\ MakingUp \in Messages
        /\ MakingUp.seq = forwarder.seen /\ MakingUp.event.kind = "Resync"
        /\ \E f \in Forwarders : /\ f.at = "receiving" /\ f.seen = forwarder.seen
                                 /\ f.backlog = forwarder.backlog /\ DeliveredAs(f, MakingUp)
    BY <1>6, ResyncTypes
  <2>2. PICK f \in Forwarders : f.at = "receiving" /\ f.seen = MakingUp.seq /\ DeliveredAs(f, MakingUp)
    BY <2>1
  <2>3. /\ late = NoMessage \/ late.seq <= w
        /\ ~client.inbox.missed => Linked(w, u \o outbox)
    BY DEF Continues
  <2> QED BY <2>1, <2>2, <2>3, DeliveredContinues
<1>7. CASE Forward
  <2>1. /\ client' = client /\ late' = late /\ forwarder.at = "sending" /\ forwarder.held \in Messages
        /\ outbox' = Append(outbox, forwarder.held)
        /\ forwarder' = Off \/ (forwarder'.at = "receiving" /\ forwarder'.seen = forwarder.seen)
    BY <1>7, ForwardTypes
  <2>2. forwarder.held.seq = forwarder.seen /\ forwarder.held \in Frames
    BY <2>1 DEF Backlogged, Frames
  <2>3. CASE ~client.inbox.missed
    <3>1. /\ Linked(w, u \o outbox)
          /\ \/ forwarder.held.event.kind = "Resync"
             \/ Reaches(w, u \o outbox, forwarder.held.seq)
      BY <2>1, <2>2, <2>3 DEF Continues
    <3>2. /\ Linked(w, u \o Append(outbox, forwarder.held))
          /\ Reaches(w, u \o Append(outbox, forwarder.held), forwarder.held.seq + 1)
      BY <1>1, <2>2, <3>1, SentIsLinked
    <3>3. forwarder'.at # "sending" /\ (forwarder'.at = "receiving" => forwarder'.seen = forwarder.seen)
      BY <2>1, OffProperties
    <3> QED BY <2>1, <2>2, <3>2, <3>3 DEF Continues
  <2>4. CASE client.inbox.missed
    BY <2>1, <2>4 DEF Continues
  <2> QED BY <2>3, <2>4
<1>8. CASE ReadFrame /\ outbox[1] \in Messages
  <2>1. /\ outbox # <<>> /\ outbox' = Tail(outbox) /\ late' = late /\ forwarder' = forwarder
        /\ Kept(Messages, client.inbox, outbox[1], ClientBacklog, client'.inbox)
    BY <1>8, ReadFrameTypes, MessageFacts
  <2>2. CASE client'.inbox.unread = Append(u, outbox[1]) /\ client'.inbox.missed = client.inbox.missed
    <3>1. client'.inbox.unread \o outbox' = u \o outbox
      BY <1>1, <1>8, <2>1, <2>2, WayProperties
    <3> QED BY <2>1, <2>2, <3>1 DEF Continues
  <2>3. CASE client'.inbox.missed = TRUE
    BY <2>1, <2>3 DEF Continues
  <2> QED BY <2>1, <2>2, <2>3 DEF Kept
<1> QED BY <1>2, <1>3, <1>4, <1>5, <1>6, <1>7, <1>8 DEF Transmits

LEMMA TransmitsKeeps ==
  ASSUME Types, Transmits
  PROVE  /\ desk' = desk /\ client'.phase = client.phase /\ client'.answer = client.answer
         /\ client'.seen = client.seen
         /\ NoneIn(outbox) => NoneIn(outbox')
         /\ \A m \in Snapshots : OneIn(outbox, m) => OneIn(outbox', m)
<1>1. outbox \in Seq(Frames)
  BY DEF Types, ConnectionTypes, Frames
<1>2. ASSUME outbox' = outbox \/ \E m \in Messages : outbox' = Append(outbox, m)
      PROVE  /\ NoneIn(outbox) => NoneIn(outbox')
             /\ \A m \in Snapshots : OneIn(outbox, m) => OneIn(outbox', m)
  BY <1>1, <1>2, OneIsAppended DEF Frames
<1>3. ASSUME NEW f, NEW m \in Messages, DeliveredAs(f, m)
      PROVE  outbox' = outbox \/ \E x \in Messages : outbox' = Append(outbox, x)
  BY <1>3 DEF DeliveredAs
<1>4. CASE EngineBegins \/ EngineGoesOn \/ EditQueue \/ FanIn \/ UNCHANGED vars
  BY <1>4, ConnectionIdle
<1>5. CASE SendLate
  BY <1>2, <1>5, SendLateTypes
<1>6. CASE Receive
  <2>1. /\ desk' = desk /\ client' = client
        /\ outbox' = outbox \/ \E f \in Forwarders, m \in Messages : DeliveredAs(f, m)
    BY <1>6, ReceiveTypes
  <2> QED BY <1>2, <1>3, <2>1
<1>7. CASE Lag
  BY <1>7, LagTypes
<1>8. CASE Resync
  <2>1. /\ desk' = desk /\ client' = client
        /\ \E f \in Forwarders, m \in Messages : DeliveredAs(f, m)
    BY <1>8, ResyncTypes
  <2> QED BY <1>2, <1>3, <2>1
<1>9. CASE Forward
  BY <1>2, <1>9, ForwardTypes
<1>10. CASE ReadFrame /\ outbox[1] \in Messages
  <2>1. /\ outbox # <<>> /\ outbox' = Tail(outbox) /\ desk' = desk /\ client'.phase = client.phase
        /\ client'.answer = client.answer /\ client'.seen = client.seen
        /\ outbox[1] \notin Snapshots
    BY <1>10, ReadFrameTypes, MessageFacts
  <2> QED BY <1>1, <2>1, OneIsTaken
<1> QED BY <1>4, <1>5, <1>6, <1>7, <1>8, <1>9, <1>10 DEF Transmits

(* Before its snapshot is sent, no forwarder sends anything.               *)
LEMMA TransmitsCovered ==
  ASSUME Types, Transmits, forwarder.at = "unborn", NEW w,
         Covered(w, late, client.inbox, outbox)
  PROVE  Covered(w, late, client.inbox, outbox)'
<1>1. outbox \in Seq(Frames)
  BY DEF Types, ConnectionTypes, Frames
<1>2. CASE EngineBegins \/ EngineGoesOn \/ EditQueue \/ FanIn \/ UNCHANGED vars
  BY <1>2, ConnectionIdle DEF Covered
<1>3. CASE SendLate
  <2>1. /\ late \in Messages /\ late # NoMessage /\ late' = NoMessage /\ client' = client
        /\ outbox' = outbox \/ outbox' = Append(outbox, late)
    BY <1>3, SendLateTypes, MessageFacts
  <2>2. ToSet(outbox') \subseteq ToSet(outbox) \cup {late}
    <3>1. late \in Frames
      BY <2>1 DEF Frames
    <3>2. ToSet(Append(outbox, late)) \subseteq ToSet(outbox) \cup {late}
      BY <1>1, <3>1, AppendedSet
    <3> QED BY <2>1, <3>2
  <2> QED BY <2>1, <2>2 DEF Covered
<1>4. CASE ReadFrame /\ outbox[1] \in Messages
  <2>1. /\ outbox # <<>> /\ outbox' = Tail(outbox) /\ late' = late
        /\ Kept(Messages, client.inbox, outbox[1], ClientBacklog, client'.inbox)
    BY <1>4, ReadFrameTypes, MessageFacts
  <2>2. ToSet(outbox') \subseteq ToSet(outbox) /\ outbox[1] \in ToSet(outbox)
    <3>1. DOMAIN outbox = 1 .. Len(outbox) /\ Len(outbox) \in Nat \ {0}
      BY <1>1, <2>1, EmptySeq, LenProperties
    <3>2. 1 \in DOMAIN outbox
      BY <3>1
    <3> QED BY <1>1, <2>1, <3>2, TailSubset DEF ToSet
  <2>3. ToSet(client'.inbox.unread) \subseteq ToSet(client.inbox.unread) \cup {outbox[1]}
    BY <2>1 DEF Kept
  <2> QED BY <2>1, <2>2, <2>3 DEF Covered
<1>5. CASE Receive \/ Lag \/ Resync \/ Forward
  BY <1>5 DEF Receive, Lag, Resync, Forward
<1> QED BY <1>2, <1>3, <1>4, <1>5 DEF Transmits

---------------------------------------------------------------------------
(* How far a client has come: without a connection; it asks, and no        *)
(* snapshot is on its way; its snapshot was sent; was received; it reads.  *)

Unconnected ==
  /\ client.phase = "away" /\ desk.at = "idle" /\ forwarder = Off /\ late = NoMessage
  /\ outbox = <<>> /\ client.answer = NoMessage
Asked ==
  /\ client.phase \in {"connecting", "asking"} /\ client.answer = NoMessage /\ NoneIn(outbox)
  /\ \/ desk.at \in {"asked", "number"}
     \/ desk.at \in {"numbered", "complete"} /\ Covered(desk.seq, late, client.inbox, outbox)
Sent ==
  /\ client.phase \in {"connecting", "asking"} /\ client.answer = NoMessage /\ desk.at = "idle"
  /\ \E m \in Snapshots :
       OneIn(outbox, m) /\ Continues(m.seq, late, client.inbox, outbox, forwarder)
Answered ==
  /\ client.phase \in {"connecting", "asking"} /\ client.answer \in Snapshots /\ desk.at = "idle"
  /\ NoneIn(outbox) /\ Continues(client.answer.seq, late, client.inbox, outbox, forwarder)
Reading ==
  /\ client.phase = "reading" /\ client.answer = NoMessage /\ desk.at = "idle"
  /\ NoneIn(outbox) /\ Continues(client.seen, late, client.inbox, outbox, forwarder)

Stages == Unconnected \/ Asked \/ Sent \/ Answered \/ Reading
Linkage == Backlogged(seq, desk, forwarder) /\ Stages

LEMMA NothingIsNone == NoneIn(<<>>)
BY DEF NoneIn

LEMMA UnconnectedStays ==
  ASSUME Types, Unconnected, [Next]_vars
  PROVE  Stages'
<1>1. CASE EngineBegins \/ EngineGoesOn \/ EditQueue \/ UNCHANGED vars
  BY <1>1
  DEF EngineBegins, EngineGoesOn, EditQueue, vars, connection, Unconnected, Stages
<1>2. CASE FanIn
  <2>1. forwarder.at = "off" /\ UNCHANGED <<desk, late, outbox, client>>
    BY <1>2, ConnectionIdle, OffProperties DEF Unconnected
  <2>2. forwarder' = forwarder
    BY <1>2, <2>1, OffStays
  <2> QED BY <2>1, <2>2 DEF Unconnected, Stages
<1>3. CASE Connect
  <2>1. /\ client'.phase = "connecting" /\ client'.answer = NoMessage /\ desk'.at = "asked"
        /\ outbox' = <<>>
    BY <1>3, ConnectTypes DEF Unconnected
  <2> QED BY <2>1, NothingIsNone DEF Asked, Stages
<1>4. ~(Listen \/ TakeSnapshot \/ Answer \/ SendLate \/ AskAgain \/ TakeAnswer \/ NextEvent)
  BY DEF Unconnected, Listen, TakeSnapshot, Answer, SendLate, AskAgain, TakeAnswer, NextEvent
<1>5. ~(Receive \/ Lag \/ Resync \/ Forward \/ ReadFrame \/ Break \/ StopServing)
  BY OffProperties
  DEF Unconnected, Receive, Lag, Resync, Forward, ReadFrame, Break, StopServing
<1> QED BY <1>1, <1>2, <1>3, <1>4, <1>5 DEF Next, Works, FanIn

LEMMA DisconnectStage ==
  ASSUME Types, Break \/ StopServing
  PROVE  Stages'
BY DisconnectTypes DEF Unconnected, Stages

(* A snapshot is read only where there is one.                             *)
LEMMA ReadsWhatIsThere ==
  ASSUME Types, ReadFrame
  PROVE  /\ outbox \in Seq(Frames) /\ outbox # <<>>
         /\ NoneIn(outbox) => outbox[1] \in Messages
         /\ outbox[1] \in Messages \cup Snapshots
BY ReadFrameTypes, OneIsTaken DEF Frames

LEMMA AskedGoesOn ==
  ASSUME Types, Asked, [Next]_vars
  PROVE  Stages'
<1>1. CASE Transmits
  <2>1. /\ desk' = desk /\ client'.phase = client.phase /\ client'.answer = client.answer
        /\ NoneIn(outbox')
    BY <1>1, TransmitsKeeps DEF Asked
  <2>2. CASE desk.at \in {"asked", "number"}
    BY <2>1, <2>2 DEF Asked, Stages
  <2>3. CASE desk.at \in {"numbered", "complete"} /\ Covered(desk.seq, late, client.inbox, outbox)
    <3>1. PICK w : w = desk.seq
      OBVIOUS
    <3>2. forwarder.at = "unborn"
      BY <2>3 DEF Types, ConnectionTypes
    <3>3. Covered(w, late, client.inbox, outbox)'
      BY <1>1, <2>3, <3>1, <3>2, TransmitsCovered
    <3> QED BY <2>1, <2>3, <3>1, <3>3 DEF Asked, Stages
  <2> QED BY <2>2, <2>3 DEF Asked
<1>2. CASE Listen
  <2>1. desk'.at = "number" /\ outbox' = outbox /\ client' = client
    BY <1>2, ListenTypes
  <2> QED BY <2>1 DEF Asked, Stages
<1>3. CASE TakeSnapshot
  <2>1. /\ \/ desk.at = "number" /\ desk'.at = "numbered" /\ desk'.seq = seq
           \/ desk.at = "numbered" /\ desk'.at = "complete" /\ desk'.seq = desk.seq
        /\ UNCHANGED <<late, outbox, client>>
    BY <1>3, TakeSnapshotTypes
  <2>2. Covered(seq, late, client.inbox, outbox)
    BY PipeParts DEF Types, InRange, Covered
  <2> QED BY <2>1, <2>2 DEF Asked, Stages
<1>4. CASE Answer
  <2>1. /\ Snapshot \in Snapshots /\ Snapshot.seq = desk.seq /\ desk.at = "complete"
        /\ desk'.at = "idle" /\ outbox' = Append(outbox, Snapshot)
        /\ forwarder'.at = "receiving" /\ forwarder'.seen = desk.seq
        /\ UNCHANGED <<late, client>>
    BY <1>4, AnswerTypes
  <2>2. Covered(desk.seq, late, client.inbox, outbox)
    BY <2>1 DEF Asked
  <2>3. PICK w, m, at, f : w = desk.seq /\ m = Snapshot /\ f = forwarder'
    OBVIOUS
  <2>4. w \in Nat /\ client.inbox.unread \in Seq(Messages) /\ outbox \in Seq(Frames) /\ m \in Frames
    BY <2>1, <2>3
    DEF Types, ConnectionTypes, Desks, ClientTypes, Clients, Receiver, Frames
  <2>5. Linked(w, client.inbox.unread \o outbox)
    <3> DEFINE u == client.inbox.unread
               s == u \o outbox
    <3>1. u \in Seq(Frames)
      BY <2>4, SeqMonotonic DEF Frames
    <3>2. /\ Len(u) \in Nat /\ DOMAIN u = 1 .. Len(u) /\ s \in Seq(Frames)
          /\ Len(outbox) \in Nat /\ DOMAIN outbox = 1 .. Len(outbox)
          /\ Len(s) = Len(u) + Len(outbox)
          /\ \A i \in 1 .. Len(u) + Len(outbox) : s[i] = IF i <= Len(u) THEN u[i] ELSE outbox[i - Len(u)]
      BY <2>4, <3>1, LenProperties, ConcatProperties
    <3>3. DOMAIN s = 1 .. Len(u) + Len(outbox)
      BY <3>2, LenProperties
    <3> HIDE DEF s
    <3>4. ASSUME NEW i \in DOMAIN s
          PROVE  s[i].seq <= w + 1
      <4>1. s[i] \in ToSet(u) \cup ToSet(outbox)
        <5>1. CASE i <= Len(u)
          <6>1. i \in DOMAIN u /\ s[i] = u[i]
            BY <3>2, <3>3, <5>1
          <6> QED BY <6>1 DEF ToSet
        <5>2. CASE ~(i <= Len(u))
          <6>1. i - Len(u) \in DOMAIN outbox /\ s[i] = outbox[i - Len(u)]
            BY SMTT(30), <3>2, <3>3, <5>2
          <6> QED BY <6>1 DEF ToSet
        <5> QED BY <5>1, <5>2
      <4>2. s[i].seq <= w
        BY <2>2, <2>3, <4>1 DEF Covered
      <4>3. s[i].seq \in Nat
        BY <3>2, <3>3, ElementOfSeq, FrameNumbers
      <4> QED BY <2>4, <4>2, <4>3
    <3> QED BY <3>4 DEF Linked, Follows, s
  <2>6. Reaches(w, client.inbox.unread \o outbox, m.seq)
    BY <2>1, <2>3, <2>4 DEF Reaches
  <2>7. /\ Linked(w, client.inbox.unread \o Append(outbox, m))
        /\ Reaches(w, client.inbox.unread \o Append(outbox, m), w + 1)
    BY <2>1, <2>3, <2>4, <2>5, <2>6, SentIsLinked
  <2>8. OneIn(Append(outbox, m), m)
    BY <2>4, OneIsAppended DEF Asked
  <2>9. Continues(w, late, client.inbox, Append(outbox, m), f)
    BY <2>1, <2>2, <2>3, <2>7 DEF Continues, Covered
  <2>10. m \in Snapshots /\ m.seq = w /\ outbox' = Append(outbox, m)
    BY <2>1, <2>3
  <2> QED BY <2>1, <2>3, <2>8, <2>9, <2>10 DEF Asked, Sent, Stages
<1>5. CASE ReadFrame
  BY <1>1, <1>5, ReadsWhatIsThere DEF Transmits, Asked
<1>6. CASE Break \/ StopServing
  BY <1>6, DisconnectStage
<1>7. ~(Connect \/ TakeAnswer \/ NextEvent \/ AskAgain)
  BY DEF Asked, Connect, TakeAnswer, NextEvent, AskAgain
<1> QED BY <1>1, <1>2, <1>3, <1>4, <1>5, <1>6, <1>7 DEF Next, Works, FanIn, Transmits

LEMMA SentGoesOn ==
  ASSUME Types, Backlogged(seq, desk, forwarder), Sent, [Next]_vars
  PROVE  Stages'
<1>1. PICK m \in Snapshots :
        OneIn(outbox, m) /\ Continues(m.seq, late, client.inbox, outbox, forwarder)
  BY DEF Sent
<1>2. m.seq \in Nat
  BY MessageFacts
<1>3. CASE Transmits
  <2>1. /\ desk' = desk /\ client'.phase = client.phase /\ client'.answer = client.answer
        /\ OneIn(outbox', m)
    BY <1>1, <1>3, TransmitsKeeps
  <2>2. Continues(m.seq, late, client.inbox, outbox, forwarder)'
    BY <1>1, <1>2, <1>3, TransmitsContinues
  <2> QED BY <2>1, <2>2 DEF Sent, Stages
<1>4. CASE ReadFrame /\ outbox[1] \in Snapshots
  <2>1. /\ outbox # <<>> /\ outbox \in Seq(Frames) /\ outbox' = Tail(outbox)
        /\ client'.phase = client.phase /\ client'.answer = outbox[1] /\ desk' = desk
        /\ client'.inbox = client.inbox /\ late' = late /\ forwarder' = forwarder
    BY <1>4, ReadFrameTypes, MessageFacts DEF Frames
  <2>2. outbox[1] = m /\ NoneIn(Tail(outbox))
    BY <1>1, <1>4, <2>1, OneIsTaken
  <2>3. client.inbox.unread \in Seq(Frames)
    <3>1. client.inbox.unread \in Seq(Messages)
      BY DEF Types, ClientTypes, Clients, Receiver
    <3> QED BY <3>1, SeqMonotonic DEF Frames
  <2>4. forwarder.seen \in Nat
    BY DEF Types, ConnectionTypes, Forwarders
  <2>5. Continues(m.seq, late, client.inbox, Tail(outbox), forwarder)
    <3>1. CASE client.inbox.missed
      BY <1>1, <3>1 DEF Continues
    <3>2. CASE ~client.inbox.missed
      <4>1. Linked(m.seq, client.inbox.unread \o outbox) /\ m.seq <= m.seq
        BY <1>1, <1>2, <3>2 DEF Continues
      <4>2. /\ Linked(m.seq, client.inbox.unread \o Tail(outbox))
            /\ \A n \in Nat : Reaches(m.seq, client.inbox.unread \o outbox, n) =>
                                Reaches(m.seq, client.inbox.unread \o Tail(outbox), n)
        BY <1>2, <2>1, <2>2, <2>3, <4>1, RemovalKeepsLinked
      <4>3. forwarder.seen + 1 \in Nat
        BY <2>4
      <4> QED BY <1>1, <2>4, <3>2, <4>2, <4>3 DEF Continues
    <3> QED BY <3>1, <3>2
  <2> QED BY <1>1, <2>1, <2>2, <2>5 DEF Sent, Answered, Stages
<1>5. CASE ReadFrame
  BY <1>3, <1>4, <1>5, ReadsWhatIsThere DEF Transmits
<1>6. CASE Break \/ StopServing
  BY <1>6, DisconnectStage
<1>7. ~(Connect \/ Listen \/ TakeSnapshot \/ Answer \/ TakeAnswer \/ NextEvent \/ AskAgain)
  BY DEF Sent, Connect, Listen, TakeSnapshot, Answer, TakeAnswer, NextEvent, AskAgain
<1> QED BY <1>3, <1>5, <1>6, <1>7 DEF Next, Works, FanIn, Transmits

LEMMA AnsweredGoesOn ==
  ASSUME Types, Backlogged(seq, desk, forwarder), Answered, [Next]_vars
  PROVE  Stages'
<1>1. PICK w \in Nat : w = client.answer.seq
  BY MessageFacts DEF Answered
<1>2. CASE Transmits
  <2>1. /\ desk' = desk /\ client'.phase = client.phase /\ client'.answer = client.answer
        /\ NoneIn(outbox')
    BY <1>2, TransmitsKeeps DEF Answered
  <2>2. Continues(w, late, client.inbox, outbox, forwarder)'
    BY <1>1, <1>2, TransmitsContinues DEF Answered
  <2> QED BY <1>1, <2>1, <2>2 DEF Answered, Stages
<1>3. CASE TakeAnswer
  <2>1. /\ UNCHANGED <<desk, forwarder, late, outbox>> /\ client'.phase = "reading"
        /\ client'.answer = NoMessage /\ client'.seen = client.answer.seq
        /\ client'.inbox = client.inbox
    BY <1>3, TakeAnswerTypes
  <2> QED BY <2>1 DEF Answered, Reading, Stages
<1>4. CASE ReadFrame
  BY <1>2, <1>4, ReadsWhatIsThere DEF Transmits, Answered
<1>5. CASE Break \/ StopServing
  BY <1>5, DisconnectStage
<1>6. ~(Connect \/ Listen \/ TakeSnapshot \/ Answer \/ NextEvent \/ AskAgain)
  BY DEF Answered, Connect, Listen, TakeSnapshot, Answer, NextEvent, AskAgain
<1> QED BY <1>2, <1>3, <1>4, <1>5, <1>6 DEF Next, Works, FanIn, Transmits

(* The next event, while a client reads, follows what it has seen.         *)
LEMMA NextEventFollows ==
  ASSUME Types, Reading, NextEvent
  PROVE  /\ Reading'
         /\ client'.seen # client.seen =>
              \/ client'.seen = client.seen + 1
              \/ client.inbox.unread[1].event.kind = "Resync"
<1> DEFINE u == client.inbox.unread
           m == u[1]
<1>1. /\ UNCHANGED <<desk, forwarder, late, outbox>> /\ client'.phase = "reading"
      /\ client'.answer = client.answer /\ ~client.inbox.missed /\ u # <<>> /\ m \in Messages
      /\ client.inbox \in Receiver(Messages) /\ client'.inbox = Taken(client.inbox)
      /\ \/ m.seq <= client.seen /\ client'.seen = client.seen
         \/ m.seq > client.seen /\ client'.seen = m.seq
  BY NextEventTypes
<1>2. /\ client'.inbox.unread = Tail(u) /\ client'.inbox.missed = client.inbox.missed
  BY <1>1, TakenProperties
<1>3. /\ client.seen \in Nat /\ m.seq \in Nat /\ forwarder.seen \in Nat
      /\ u \in Seq(Messages) /\ outbox \in Seq(Frames)
  BY <1>1, MessageFacts
  DEF Types, ConnectionTypes, ClientTypes, Clients, Forwarders, Receiver, Frames
<1>4. /\ u \o outbox \in Seq(Frames) /\ u \o outbox # <<>> /\ (u \o outbox)[1] = m
      /\ Tail(u) \o outbox = Tail(u \o outbox)
  BY <1>1, <1>3, WayProperties
<1>5. PICK w, x : w = client.seen /\ x = client'.seen
  OBVIOUS
<1> DEFINE s == u \o outbox
<1>6. s \in Seq(Frames) /\ s # <<>> /\ s[1] = m /\ Tail(u) \o outbox = Tail(s)
  BY <1>4
<1>7. /\ Linked(w, s)
      /\ forwarder.at = "receiving" => Reaches(w, s, forwarder.seen + 1)
      /\ forwarder.at = "sending" =>
           forwarder.held.event.kind = "Resync" \/ Reaches(w, s, forwarder.seen)
      /\ late = NoMessage \/ late.seq <= w
  BY <1>1, <1>5 DEF Reading, Continues
<1> HIDE DEF s, m
<1>8. w \in Nat /\ x \in Nat /\ w <= x /\ m.seq <= x /\ (x = w \/ x = m.seq)
  BY <1>1, <1>3, <1>5
<1>9. /\ m.event.kind = "Resync" \/ m.seq <= w + 1
      /\ Linked(x, Tail(s))
      /\ \A n \in Nat : Reaches(w, s, n) => Reaches(x, Tail(s), n)
  <2>1. s[1].seq <= x
    BY <1>6, <1>8
  <2>2. /\ s[1].event.kind = "Resync" \/ s[1].seq <= w + 1
        /\ Linked(x, Tail(s))
        /\ \A n \in Nat : Reaches(w, s, n) => Reaches(x, Tail(s), n)
    BY <1>6, <1>7, <1>8, <2>1, TailKeepsLinked
  <2> QED BY <1>6, <2>2
<1>10. forwarder.seen + 1 \in Nat
  BY <1>3
<1>11. late = NoMessage \/ late.seq <= x
  <2>1. late # NoMessage => late.seq \in Nat
    BY MessageFacts DEF Types, ConnectionTypes
  <2> QED BY <1>7, <1>8, <2>1
<1>12. Continues(x, late, client.inbox, outbox, forwarder)'
  <2>1. client'.inbox.unread \o outbox' = Tail(s)
    BY <1>1, <1>2, <1>6
  <2>2. forwarder' = forwarder /\ late' = late
    BY <1>1
  <2>3. /\ forwarder.at = "receiving" => Reaches(x, Tail(s), forwarder.seen + 1)
        /\ forwarder.at = "sending" =>
             forwarder.held.event.kind = "Resync" \/ Reaches(x, Tail(s), forwarder.seen)
    BY <1>3, <1>7, <1>9, <1>10
  <2> QED BY <1>9, <1>11, <2>1, <2>2, <2>3 DEF Continues
<1>13. Reading'
  BY <1>1, <1>5, <1>12 DEF Reading
<1>14. x # w => x = w + 1 \/ m.event.kind = "Resync"
  BY <1>1, <1>3, <1>5, <1>8, <1>9
<1> QED BY <1>5, <1>13, <1>14 DEF m

LEMMA ReadingGoesOn ==
  ASSUME Types, Backlogged(seq, desk, forwarder), Reading, [Next]_vars
  PROVE  Stages'
<1>1. PICK w \in Nat : w = client.seen
  BY DEF Types, ClientTypes, Clients
<1>2. CASE Transmits
  <2>1. /\ desk' = desk /\ client'.phase = client.phase /\ client'.answer = client.answer
        /\ client'.seen = client.seen /\ NoneIn(outbox')
    BY <1>2, TransmitsKeeps DEF Reading
  <2>2. Continues(w, late, client.inbox, outbox, forwarder)'
    BY <1>1, <1>2, TransmitsContinues DEF Reading
  <2> QED BY <1>1, <2>1, <2>2 DEF Reading, Stages
<1>3. CASE NextEvent
  BY <1>3, NextEventFollows DEF Stages
<1>4. CASE AskAgain
  <2>1. /\ outbox' = outbox /\ client'.phase = "asking" /\ client'.answer = client.answer
        /\ desk'.at = "asked"
    BY <1>4, AskAgainTypes
  <2> QED BY <2>1 DEF Reading, Asked, Stages
<1>5. CASE ReadFrame
  BY <1>2, <1>5, ReadsWhatIsThere DEF Transmits, Reading
<1>6. CASE Break \/ StopServing
  BY <1>6, DisconnectStage
<1>7. ~(Connect \/ Listen \/ TakeSnapshot \/ Answer \/ TakeAnswer)
  BY DEF Reading, Connect, Listen, TakeSnapshot, Answer, TakeAnswer
<1> QED BY <1>2, <1>3, <1>4, <1>5, <1>6, <1>7 DEF Next, Works, FanIn, Transmits

LEMMA SpecLinkage ==
  Spec => [](Types /\ Linkage)
<1>1. ASSUME Init
      PROVE  Linkage
  <2>1. /\ seq = 0 /\ forwarder = Off /\ late = NoMessage /\ outbox = <<>> /\ client = Away
        /\ desk = Taking("idle")
    BY <1>1 DEF Init
  <2>2. desk.at = "idle" /\ client.phase = "away" /\ client.answer = NoMessage
    BY <2>1 DEF Taking, Away
  <2>3. Backlogged(seq, desk, forwarder)
    BY <2>1, OffIsBacklogged
  <2> QED BY <2>1, <2>2, <2>3 DEF Linkage, Stages, Unconnected
<1>2. Types /\ Linkage /\ [Next]_vars => Linkage'
  BY NextBacklogged, UnconnectedStays, AskedGoesOn, SentGoesOn, AnsweredGoesOn, ReadingGoesOn
  DEF Linkage, Stages
<1> QED BY <1>1, <1>2, SpecTypes, PTL DEF Spec

(* A client that reads applies the event after the last it applied, or the *)
(* whole state: nothing EventStream::next_seq skips was never seen,        *)
(* whatever the sizes of the four queues a message may be lost in.         *)
THEOREM NothingIsLostSilently ==
  Spec => NoSilentGap
<1>1. ASSUME Types, Linkage, [Next]_vars
      PROVE  [client.phase = "reading" /\ client'.phase = "reading" /\ client'.seen # client.seen
                => \/ client'.seen = client.seen + 1
                   \/ Head(client.inbox.unread).event.kind = "Resync"]_vars
  <2>1. SUFFICES ASSUME client.phase = "reading", client'.phase = "reading",
                        client'.seen # client.seen
                 PROVE  \/ client'.seen = client.seen + 1
                        \/ Head(client.inbox.unread).event.kind = "Resync"
    OBVIOUS
  <2>2. Reading
    BY <1>1, <2>1 DEF Linkage, Stages, Unconnected, Asked, Sent, Answered
  <2>3. CASE NextEvent
    <3>1. client.inbox.unread # <<>> /\ client.inbox \in Receiver(Messages)
      BY <1>1, <2>3, NextEventTypes
    <3>2. Head(client.inbox.unread) = client.inbox.unread[1]
      BY <3>1, TakenProperties
    <3> QED BY <1>1, <2>1, <2>2, <2>3, <3>2, NextEventFollows
  <2>4. CASE Transmits
    BY <1>1, <2>1, <2>4, TransmitsKeeps
  <2>5. CASE ReadFrame
    BY <1>1, <2>1, <2>5, ReadFrameTypes
  <2>6. CASE AskAgain \/ Break \/ StopServing
    BY <1>1, <2>1, <2>6, AskAgainTypes, DisconnectTypes
  <2>7. ~(Connect \/ Listen \/ TakeSnapshot \/ Answer \/ TakeAnswer)
    BY <2>2 DEF Reading, Connect, Listen, TakeSnapshot, Answer, TakeAnswer
  <2> QED BY <1>1, <2>3, <2>4, <2>5, <2>6, <2>7 DEF Next, Works, FanIn, Transmits
<1> QED BY <1>1, SpecLinkage, PTL DEF Spec, NoSilentGap

---------------------------------------------------------------------------
(* What of the engine's state is still to be told.                         *)

Telling(s) == \E i \in DOMAIN s : s[i].kind = "StateChanged"
Saying(s) == \E i \in DOMAIN s : Says(s[i])
StateToCome == heard.missed \/ Telling(heard.unread) \/ Saying(engine.doing)

(* The last that s says of the state is x.                                 *)
LastSaid(s, x) ==
  \A i \in DOMAIN s :
    s[i].kind = "StateChanged" /\ (\A j \in DOMAIN s : j > i => s[j].kind # "StateChanged")
      => s[i].of = x

(* A handler that says no change of the state makes none, and fan_in heard *)
(* of the last; one that does ends with what it says.                      *)
HandlerAgrees(doing, said, x) ==
  \/ Calm(doing, x) /\ LastSaid(said, x)
  \/ \E y : Turns(doing, x, y)

LEMMA TailOfSteps ==
  ASSUME NEW s \in Seq(Steps), s # <<>>, NEW x
  PROVE  /\ Calm(s, x) => CalmStep(s[1], x) /\ Calm(Tail(s), x)
         /\ Saying(Tail(s)) => Saying(s)
         /\ Saying(s) => Says(s[1]) \/ Saying(Tail(s))
         /\ \A y : Turns(s, x, y) =>
              IF s[1].do = "publish" THEN Turns(Tail(s), s[1].status.state, y)
              ELSE \/ Says(s[1]) /\ s[1].event.of = x /\ Calm(Tail(s), x)
                   \/ ~Says(s[1]) /\ Turns(Tail(s), x, y)
<1> DEFINE t == Tail(s)
           n == Len(s)
           h == s[1]
<1>1. /\ n \in Nat \ {0} /\ DOMAIN s = 1 .. n /\ t \in Seq(Steps) /\ Len(t) = n - 1
      /\ \A i \in 1 .. Len(t) : t[i] = s[i + 1]
  BY EmptySeq, LenProperties, HeadTailProperties
<1>2. DOMAIN t = 1 .. n - 1
  BY <1>1, LenProperties
<1> HIDE DEF t, n
<1>3. \A i \in DOMAIN t : i + 1 \in DOMAIN s /\ t[i] = s[i + 1]
  BY <1>1, <1>2
<1>4. \A i \in DOMAIN s : i = 1 \/ (i - 1 \in DOMAIN t /\ t[i - 1] = s[i])
  BY <1>1, <1>2
<1>5. 1 \in DOMAIN s
  BY <1>1
<1>6. Calm(s, x) => CalmStep(h, x) /\ Calm(t, x)
  BY <1>3, <1>5 DEF Calm
<1>7. /\ Saying(t) => Saying(s)
      /\ Saying(s) => Says(h) \/ Saying(t)
  BY <1>3, <1>4 DEF Saying
<1>8. ASSUME NEW y, Turns(s, x, y)
      PROVE  IF h.do = "publish" THEN Turns(t, h.status.state, y)
             ELSE \/ Says(h) /\ h.event.of = x /\ Calm(t, x)
                  \/ ~Says(h) /\ Turns(t, x, y)
  <2>1. PICK k \in DOMAIN s : TurnsAt(s, k, x, y)
    BY <1>8 DEF Turns
  <2>2. \A j \in DOMAIN t : j + 1 > k => CalmStep(t[j], y)
    BY <1>3, <2>1 DEF TurnsAt
  <2>3. CASE k = 1
    <3>1. Says(h) /\ h.event.of = y /\ x = y
      BY <2>1, <2>3 DEF TurnsAt
    <3>2. Calm(t, y)
      BY <1>1, <1>2, <2>2, <2>3 DEF Calm
    <3> QED BY <3>1, <3>2 DEF Says
  <2>4. CASE k # 1
    <3>1. k - 1 \in DOMAIN t /\ t[k - 1] = s[k] /\ k \in Nat
      BY <1>1, <1>4, <2>4
    <3>2. Says(t[k - 1]) /\ t[k - 1].event.of = y
      BY <2>1, <3>1 DEF TurnsAt
    <3>3. \A j \in DOMAIN t : j > k - 1 => CalmStep(t[j], y)
      <4>1. \A j \in DOMAIN t : j > k - 1 => j + 1 > k
        BY <1>1, <1>2, <3>1
      <4> QED BY <2>2, <4>1
    <3>4. \A l \in {0, 1} : \A j \in DOMAIN t : j < k - 1 - l => j + 1 < k - l
      BY <1>1, <1>2, <3>1
    <3>5. CASE x = y /\ \A j \in DOMAIN s : j < k => CalmStep(s[j], x)
      <4>1. CalmStep(h, x)
        BY <1>1, <1>5, <2>4, <3>5
      <4>2. \A j \in DOMAIN t : j < k - 1 => CalmStep(t[j], x)
        <5>1. \A j \in DOMAIN t : j < k - 1 => j + 1 < k
          BY <1>1, <1>2, <3>1
        <5> QED BY <1>3, <3>5, <5>1
      <4>3. TurnsAt(t, k - 1, x, y)
        BY <3>2, <3>3, <3>5, <4>2 DEF TurnsAt
      <4>4. h.do = "publish" => h.status.state = x
        BY <4>1 DEF CalmStep
      <4> QED BY <3>1, <4>1, <4>3, <4>4 DEF Turns, CalmStep
    <3>6. CASE /\ k > 1 /\ s[k - 1].do = "publish" /\ s[k - 1].status.state = y
               /\ \A j \in DOMAIN s : j < k - 1 => CalmStep(s[j], x)
      <4>1. CASE k = 2
        <5>1. h.do = "publish" /\ h.status.state = y
          BY <3>6, <4>1
        <5>2. \A j \in DOMAIN t : ~(j < k - 1)
          BY <1>1, <1>2, <4>1
        <5>3. TurnsAt(t, k - 1, y, y)
          BY <3>2, <3>3, <5>2 DEF TurnsAt
        <5> QED BY <3>1, <5>1, <5>3 DEF Turns
      <4>2. CASE k # 2
        <5>1. k - 1 > 1 /\ (k - 1) - 1 \in DOMAIN t /\ t[(k - 1) - 1] = s[k - 1]
          <6>1. k - 1 \in DOMAIN s /\ k - 1 # 1
            BY <1>1, <2>4, <3>1, <4>2
          <6> QED BY <1>1, <1>4, <6>1, <3>1
        <5>2. CalmStep(h, x)
          BY <1>5, <3>6, <5>1
        <5>3. \A j \in DOMAIN t : j < (k - 1) - 1 => CalmStep(t[j], x)
          <6>1. \A j \in DOMAIN t : j < (k - 1) - 1 => j + 1 < k - 1
            BY <1>1, <1>2, <3>1
          <6> QED BY <1>3, <3>6, <6>1
        <5>4. TurnsAt(t, k - 1, x, y)
          BY <3>2, <3>3, <3>6, <5>1, <5>3 DEF TurnsAt
        <5>5. h.do = "publish" => h.status.state = x
          BY <5>2 DEF CalmStep
        <5> QED BY <3>1, <5>2, <5>4, <5>5 DEF Turns, CalmStep
      <4> QED BY <4>1, <4>2
    <3> QED BY <2>1, <3>5, <3>6 DEF TurnsAt
  <2> QED BY <2>3, <2>4
<1> QED BY <1>6, <1>7, <1>8 DEF t

LEMMA TurningIsSaying ==
  ASSUME NEW s, NEW x
  PROVE  /\ \A y : Turns(s, x, y) => Saying(s)
         /\ Calm(s, x) => ~Saying(s)
BY DEF Turns, TurnsAt, Saying, Calm, CalmStep

LEMMA AppendToSaid ==
  ASSUME NEW S, NEW s \in Seq(S), NEW m \in S, NEW x
  PROVE  /\ Telling(s) \/ m.kind = "StateChanged" <=> Telling(Append(s, m))
         /\ m.kind # "StateChanged" /\ LastSaid(s, x) => LastSaid(Append(s, m), x)
         /\ m.kind = "StateChanged" /\ m.of = x => LastSaid(Append(s, m), x)
<1> DEFINE t == Append(s, m)
           n == Len(s)
<1>1. /\ n \in Nat /\ DOMAIN s = 1 .. n /\ Len(t) = n + 1 /\ t[n + 1] = m /\ t \in Seq(S)
      /\ \A i \in 1 .. n : t[i] = s[i]
  BY LenProperties, AppendProperties
<1>2. DOMAIN t = 1 .. n + 1
  BY <1>1, LenProperties
<1> HIDE DEF t, n
<1>3. /\ n + 1 \in DOMAIN t
      /\ \A i \in DOMAIN s : i \in DOMAIN t /\ t[i] = s[i] /\ n + 1 > i
      /\ \A i \in DOMAIN t : i = n + 1 \/ i \in DOMAIN s
  BY <1>1, <1>2
<1>4. Telling(s) \/ m.kind = "StateChanged" <=> Telling(t)
  BY <1>1, <1>3 DEF Telling
<1>5. m.kind # "StateChanged" /\ LastSaid(s, x) => LastSaid(t, x)
  BY <1>1, <1>3 DEF LastSaid
<1>6. m.kind = "StateChanged" /\ m.of = x => LastSaid(t, x)
  BY <1>1, <1>3 DEF LastSaid
<1> QED BY <1>4, <1>5, <1>6 DEF t

LEMMA TailOfSaid ==
  ASSUME NEW S, NEW s \in Seq(S), s # <<>>, NEW x
  PROVE  /\ Telling(s) <=> s[1].kind = "StateChanged" \/ Telling(Tail(s))
         /\ LastSaid(s, x) => LastSaid(Tail(s), x)
         /\ LastSaid(s, x) /\ s[1].kind = "StateChanged" /\ ~Telling(Tail(s)) => s[1].of = x
<1> DEFINE t == Tail(s)
           n == Len(s)
<1>1. /\ n \in Nat \ {0} /\ DOMAIN s = 1 .. n /\ t \in Seq(S) /\ Len(t) = n - 1
      /\ \A i \in 1 .. Len(t) : t[i] = s[i + 1]
  BY EmptySeq, LenProperties, HeadTailProperties
<1>2. DOMAIN t = 1 .. n - 1
  BY <1>1, LenProperties
<1> HIDE DEF t, n
<1>3. /\ 1 \in DOMAIN s
      /\ \A i \in DOMAIN t : i + 1 \in DOMAIN s /\ t[i] = s[i + 1]
  BY <1>1, <1>2
<1>4. \A i \in DOMAIN s : i = 1 \/ (i - 1 \in DOMAIN t /\ t[i - 1] = s[i])
  BY <1>1, <1>2
<1>5. Telling(s) <=> s[1].kind = "StateChanged" \/ Telling(t)
  BY <1>3, <1>4 DEF Telling
<1>6. ASSUME LastSaid(s, x), NEW i \in DOMAIN t, t[i].kind = "StateChanged",
             \A j \in DOMAIN t : j > i => t[j].kind # "StateChanged"
      PROVE  t[i].of = x
  <2>1. ASSUME NEW j \in DOMAIN s, j > i + 1
        PROVE  s[j].kind # "StateChanged"
    <3>1. j # 1 /\ j - 1 > i
      BY <1>1, <1>2, <2>1
    <3> QED BY <1>4, <1>6, <3>1
  <2> QED BY <1>3, <1>6, <2>1 DEF LastSaid
<1>7. ASSUME LastSaid(s, x), s[1].kind = "StateChanged", ~Telling(t)
      PROVE  s[1].of = x
  <2>1. \A j \in DOMAIN s : j > 1 => s[j].kind # "StateChanged"
    BY <1>1, <1>4, <1>7 DEF Telling
  <2> QED BY <1>3, <1>7, <2>1 DEF LastSaid
<1> QED BY <1>5, <1>6, <1>7 DEF t, LastSaid

EngineAgrees == HandlerAgrees(engine.doing, heard.unread, engine.status.state)

LEMMA EngineKeepsAgreeing ==
  ASSUME Types, EngineAgrees, EngineBegins \/ EngineGoesOn
  PROVE  /\ EngineAgrees'
         /\ ~StateToCome' => ~StateToCome /\ engine'.status.state = engine.status.state
<1> DEFINE x == engine.status.state
           doing == engine.doing
<1>1. /\ engine \in Engines /\ doing \in Seq(Steps) /\ engine.status \in Statuses
      /\ heard \in Receiver(EngineEvents) /\ Len(heard.unread) <= EngineBacklog
      /\ heard.unread \in Seq(EngineEvents) /\ EngineBacklog \in Nat \ {0}
  BY EventStreamAssumption DEF Types, DaemonTypes, Engines, Receiver
<1>2. CASE EngineBegins
  <2>1. PICK d \in Handlers(engine.status) :
          engine' = [engine EXCEPT !.doing = d, !.moves = @ + 1]
    BY <1>2 DEF EngineBegins
  <2>2. doing = <<>> /\ heard' = heard /\ engine'.doing = d /\ engine'.status = engine.status
    <3>1. engine'.doing = d /\ engine'.status = engine.status
      BY <1>1, <2>1 DEF Engines
    <3> QED BY <1>2, <3>1 DEF EngineBegins
  <2>3. PICK y : Moves(d, x, y)
    BY <1>1, HandlersMove
  <2>4. ~Saying(doing) /\ ~\E z : Turns(doing, x, z)
    BY <2>2 DEF Saying, Turns
  <2>5. LastSaid(heard.unread, x)
    BY <2>4 DEF EngineAgrees, HandlerAgrees
  <2>6. HandlerAgrees(d, heard.unread, x)
    BY <2>3, <2>5 DEF HandlerAgrees, Moves
  <2> QED BY <2>2, <2>4, <2>6 DEF EngineAgrees, StateToCome
<1>3. CASE EngineGoesOn
  <2> DEFINE step == doing[1]
             rest == [engine EXCEPT !.doing = Tail(@)]
  <2>1. doing # <<>> /\ Head(doing) = step /\ step \in Steps
    <3>1. doing # <<>>
      BY <1>3 DEF EngineGoesOn
    <3> QED BY <1>1, <3>1, HeadTailProperties
  <2>2. /\ rest.doing = Tail(doing) /\ rest.status = engine.status /\ rest \in Engines
    BY <1>1, <2>1, HeadTailProperties DEF Engines
  <2>3. CASE step.do = "publish"
    <3>1. engine' = [rest EXCEPT !.status = step.status] /\ heard' = heard
      BY <1>3, <2>1, <2>3 DEF EngineGoesOn
    <3>2. engine'.doing = Tail(doing) /\ engine'.status = step.status
      BY <2>2, <3>1 DEF Engines
    <3>3. ~Says(step)
      BY <2>3 DEF Says
    <3>4. CASE Calm(doing, x) /\ LastSaid(heard.unread, x)
      <4>1. step.status.state = x /\ Calm(Tail(doing), x)
        BY <1>1, <2>1, <2>3, <3>4, TailOfSteps DEF CalmStep
      <4> QED BY <1>1, <2>1, <3>1, <3>2, <3>3, <3>4, <4>1, TailOfSteps
              DEF EngineAgrees, HandlerAgrees, StateToCome
    <3>5. CASE \E y : Turns(doing, x, y)
      <4>1. PICK y : Turns(doing, x, y)
        BY <3>5
      <4>2. Turns(Tail(doing), step.status.state, y)
        BY <1>1, <2>1, <2>3, <4>1, TailOfSteps
      <4>3. Saying(Tail(doing))
        BY <4>2, TurningIsSaying
      <4> QED BY <3>1, <3>2, <4>2, <4>3 DEF EngineAgrees, HandlerAgrees, StateToCome
    <3> QED BY <3>4, <3>5 DEF EngineAgrees, HandlerAgrees
  <2>4. CASE step.do # "publish"
    <3> DEFINE e == step.event
    <3>1. engine' = rest /\ heard' = Offered(heard, e, EngineBacklog)
      BY <1>3, <2>1, <2>4 DEF EngineGoesOn
    <3>2. e \in EngineEvents /\ step.do = "emit"
      BY <2>1, <2>4 DEF Steps
    <3>3. Kept(EngineEvents, heard, e, EngineBacklog, heard')
      BY <1>1, <3>1, <3>2, OfferedProperties
    <3> HIDE DEF e
    <3>4. Says(step) <=> e.kind = "StateChanged"
      BY <3>2 DEF Says, e
    <3>5. /\ LastSaid(heard.unread, x) /\ e.kind # "StateChanged" => LastSaid(heard'.unread, x)
          /\ e.kind = "StateChanged" /\ e.of = x => LastSaid(heard'.unread, x)
          /\ heard.missed \/ Telling(heard.unread) \/ e.kind = "StateChanged"
               => heard'.missed \/ Telling(heard'.unread)
      <4>1. CASE heard'.unread = Append(heard.unread, e) /\ heard'.missed = heard.missed
        BY ZenonT(60), <1>1, <3>2, <4>1, AppendToSaid
      <4>2. CASE /\ heard.unread # <<>> /\ heard'.unread = Append(Tail(heard.unread), e)
                 /\ heard'.missed = TRUE
        <5>1. Tail(heard.unread) \in Seq(EngineEvents)
          BY <1>1, <4>2, HeadTailProperties
        <5> DEFINE t == Tail(heard.unread)
        <5>2. t \in Seq(EngineEvents) /\ (LastSaid(heard.unread, x) => LastSaid(t, x))
          BY <1>1, <4>2, <5>1, TailOfSaid
        <5>3. heard'.unread = Append(t, e)
          BY <4>2
        <5> HIDE DEF t
        <5> QED BY <3>2, <4>2, <5>2, <5>3, AppendToSaid
      <4> QED BY <3>3, <4>1, <4>2 DEF Kept
    <3>6. /\ Saying(Tail(doing)) => Saying(doing)
          /\ Saying(doing) => Says(step) \/ Saying(Tail(doing))
      BY <1>1, <2>1, TailOfSteps
    <3>7. ~StateToCome' => ~StateToCome
      BY <2>2, <3>1, <3>4, <3>5, <3>6 DEF StateToCome
    <3>8. HandlerAgrees(Tail(doing), heard'.unread, x)
      <4>1. CASE Calm(doing, x) /\ LastSaid(heard.unread, x)
        <5>1. CalmStep(step, x) /\ Calm(Tail(doing), x)
          BY <1>1, <2>1, <4>1, TailOfSteps
        <5>2. LastSaid(heard'.unread, x)
          BY <3>4, <3>5, <4>1, <5>1 DEF CalmStep
        <5> QED BY <5>1, <5>2 DEF HandlerAgrees
      <4>2. CASE \E y : Turns(doing, x, y)
        <5>1. PICK y : Turns(doing, x, y)
          BY <4>2
        <5>2. \/ Says(step) /\ step.event.of = x /\ Calm(Tail(doing), x)
              \/ ~Says(step) /\ Turns(Tail(doing), x, y)
          BY <1>1, <2>1, <2>4, <5>1, TailOfSteps
        <5>3. Says(step) /\ step.event.of = x => LastSaid(heard'.unread, x)
          BY <3>4, <3>5 DEF e
        <5> QED BY <5>2, <5>3 DEF HandlerAgrees
      <4> QED BY <4>1, <4>2 DEF EngineAgrees, HandlerAgrees
    <3> QED BY <2>2, <3>1, <3>7, <3>8 DEF EngineAgrees
  <2> QED BY <2>3, <2>4
<1> QED BY <1>2, <1>3

LEMMA FanInKeepsAgreeing ==
  ASSUME Types, EngineAgrees, FanIn
  PROVE  EngineAgrees'
<1>1. /\ heard \in Receiver(EngineEvents) /\ heard.unread \in Seq(EngineEvents)
  BY DEF Types, DaemonTypes, Receiver
<1>2. /\ engine' = engine
      /\ \/ heard'.unread = heard.unread
         \/ heard.unread # <<>> /\ heard'.unread = Tail(heard.unread)
  BY FanInTypes
<1>3. CASE heard'.unread = heard.unread
  BY <1>2, <1>3 DEF EngineAgrees
<1>4. CASE heard.unread # <<>> /\ heard'.unread = Tail(heard.unread)
  BY <1>1, <1>2, <1>4, TailOfSaid DEF EngineAgrees, HandlerAgrees
<1> QED BY <1>2, <1>3, <1>4

---------------------------------------------------------------------------
(* From number n on, whatever reaches the client leaves it with a state in *)
(* "wholes": the message of that number itself, every state of the whole,  *)
(* and every message of the kind that says a part of it.                   *)

Fits(m, n, kind, ofs, wholes) ==
  m.seq >= n =>
    /\ m.event.kind \in {"Resync", "Snapshot"} => m.event.of \in wholes
    /\ m.event.kind = kind => m.event.of \in ofs
    /\ m.seq = n => m.event.kind \in {kind, "Resync", "Snapshot"}

Settled(n, kind, ofs, wholes) ==
  /\ \A m \in Pipe : Fits(m, n, kind, ofs, wholes)
  /\ desk.at = "complete" /\ desk.seq >= n => desk.state \in wholes
  /\ client.phase = "reading" /\ client.seen >= n => view \in wholes

(* Showing an event leads there, or does not lead away.                    *)
Stable(kind, ofs, wholes) ==
  /\ kind \notin {"Resync", "Snapshot"} /\ wholes \subseteq Whole
  /\ \A v \in Whole, e \in Events :
       /\ e.kind = kind /\ e.of \in ofs => Shown(v, e) \in wholes
       /\ v \in wholes /\ e.kind \notin {kind, "Resync"} => Shown(v, e) \in wholes

WithQueue(q) == {w \in Whole : w.queue >= q}
WithState(x) == {w \in Whole : w.status.state = x}

LEMMA QueueStable ==
  ASSUME NEW q \in Nat
  PROVE  Stable("QueueChanged", {q}, WithQueue(q))
<1>1. ASSUME NEW v \in Whole, NEW e \in Events
      PROVE  /\ e.kind = "QueueChanged" /\ e.of \in {q} => Shown(v, e) \in WithQueue(q)
             /\ v \in WithQueue(q) /\ e.kind \notin {"QueueChanged", "Resync"}
                  => Shown(v, e) \in WithQueue(q)
  <2>1. e.kind # "Snapshot"
    BY DEF Events, EngineEvents
  <2>2. /\ Shown(v, e) \in Whole
        /\ e.kind \notin {"Resync", "Snapshot"} =>
             Shown(v, e).queue = IF e.kind = "QueueChanged" THEN e.of ELSE v.queue
    BY ShownProperties
  <2> QED BY <2>1, <2>2 DEF WithQueue
<1> QED BY <1>1 DEF Stable, WithQueue

LEMMA StateStable ==
  ASSUME NEW x
  PROVE  Stable("StateChanged", {x}, WithState(x))
<1>1. ASSUME NEW v \in Whole, NEW e \in Events
      PROVE  /\ e.kind = "StateChanged" /\ e.of \in {x} => Shown(v, e) \in WithState(x)
             /\ v \in WithState(x) /\ e.kind \notin {"StateChanged", "Resync"}
                  => Shown(v, e) \in WithState(x)
  <2>1. e.kind # "Snapshot"
    BY DEF Events, EngineEvents
  <2>2. /\ Shown(v, e) \in Whole
        /\ e.kind \notin {"Resync", "Snapshot"} =>
             Shown(v, e).status.state = IF e.kind = "StateChanged" THEN e.of ELSE v.status.state
    BY ShownProperties
  <2> QED BY <2>1, <2>2 DEF WithState
<1> QED BY <1>1 DEF Stable, WithState

(* Publishing what fits.                                                   *)
LEMMA SettledPublishes ==
  ASSUME Types, NEW n \in Nat, n <= seq, NEW kind, NEW ofs, NEW wholes, Settled(n, kind, ofs, wholes),
         NEW e \in Events, Publishes(e), e.kind = kind => e.of \in ofs,
         e.kind = "Resync" => e.of \in wholes
  PROVE  Settled(n, kind, ofs, wholes)'
<1>1. /\ UNCHANGED <<desk, client, view>> /\ seq \in Nat
      /\ Pipe' \subseteq Pipe \cup {Numbered(seq + 1, e)}
  BY PublishesTypes DEF Types, ConnectionTypes, Publishes
<1>2. /\ Numbered(seq + 1, e).seq = seq + 1 /\ Numbered(seq + 1, e).event = e
      /\ e.kind # "Snapshot" /\ seq + 1 # n
  BY <1>1, NumberedMessage DEF Events, EngineEvents
<1>3. Fits(Numbered(seq + 1, e), n, kind, ofs, wholes)
  BY <1>2 DEF Fits
<1> QED BY <1>1, <1>3 DEF Settled

(* Publishing what settles it.                                             *)
LEMMA PublishingSettles ==
  ASSUME Types, NEW kind, NEW ofs, NEW wholes, Stable(kind, ofs, wholes), NEW e \in Events,
         Publishes(e), NEW n, n = seq + 1,
         (e.kind = kind /\ e.of \in ofs) \/ (e.kind = "Resync" /\ e.of \in wholes)
  PROVE  Settled(n, kind, ofs, wholes)'
<1>1. /\ UNCHANGED <<desk, client, view>> /\ seq \in Nat
      /\ desk.seq \in Nat /\ desk.seq <= seq /\ client.seen \in Nat /\ client.seen <= seq
      /\ Pipe' \subseteq Pipe \cup {Numbered(seq + 1, e)}
  BY PublishesTypes DEF Types, ConnectionTypes, ClientTypes, Desks, Clients, Publishes
<1>2. ~(desk.seq >= n) /\ ~(client.seen >= n)
  BY <1>1
<1>3. \A m \in Pipe : ~(m.seq >= n)
  <2>1. \A m \in Pipe : m.seq \in Nat /\ m.seq <= seq
    BY PipeNumbers DEF Types, InRange
  <2> QED BY <1>1, <2>1
<1>4. Numbered(seq + 1, e).event = e
  BY <1>1, NumberedMessage
<1>5. Fits(Numbered(seq + 1, e), n, kind, ofs, wholes)
  BY <1>4 DEF Fits, Stable
<1> QED BY <1>1, <1>2, <1>3, <1>5 DEF Settled, Fits

LEMMA SettledMoves ==
  ASSUME Types, NEW n, NEW kind, NEW ofs, NEW wholes, Settled(n, kind, ofs, wholes),
         \A m \in Pipe' : m \in Pipe \/ Fits(m, n, kind, ofs, wholes),
         desk' = desk \/ desk'.at # "complete" \/ desk'.state \in wholes,
         client'.phase = "reading" =>
           \/ client.phase = "reading" /\ client'.seen = client.seen /\ view' = view
           \/ client'.seen >= n => view' \in wholes
  PROVE  Settled(n, kind, ofs, wholes)'
BY DEF Settled

LEMMA SettledStays ==
  ASSUME Types, Linkage, NEW n \in Nat, n <= seq, NEW kind, NEW ofs, NEW wholes,
         Stable(kind, ofs, wholes), State \in wholes, Settled(n, kind, ofs, wholes),
         [Next]_vars, ~FanIn
  PROVE  Settled(n, kind, ofs, wholes)'
<1>1. CASE EngineBegins \/ EngineGoesOn \/ EditQueue \/ UNCHANGED vars
  <2>1. UNCHANGED <<desk, forwarder, late, outbox, client, view>>
    BY <1>1 DEF EngineBegins, EngineGoesOn, EditQueue, vars, connection
  <2> QED BY <2>1, UnchangedPipe, SettledMoves
<1>2. CASE Listen \/ SendLate \/ Receive \/ Lag \/ Forward
  <2>1. CASE Listen
    BY <2>1, ListenTypes, SettledMoves
  <2>2. CASE SendLate
    BY <2>2, SendLateTypes, SettledMoves
  <2>3. CASE Receive
    <3>1. Pipe' \subseteq Pipe /\ UNCHANGED <<desk, client, view>>
      BY <2>3, ReceiveTypes
    <3> QED BY <3>1, SettledMoves
  <2>4. CASE Lag
    BY <2>4, LagTypes, SettledMoves
  <2>5. CASE Forward
    BY <2>5, ForwardTypes, SettledMoves
  <2> QED BY <1>2, <2>1, <2>2, <2>3, <2>4, <2>5
<1>3. CASE TakeSnapshot
  <2>1. /\ Pipe' = Pipe /\ UNCHANGED <<client, view>>
        /\ desk'.at = "numbered" \/ desk'.state = State
    BY <1>3, TakeSnapshotTypes
  <2>2. desk' = desk \/ desk'.at # "complete" \/ desk'.state \in wholes
    BY <2>1
  <2> QED BY <2>1, <2>2, SettledMoves
<1>4. CASE Answer
  <2>1. /\ Pipe' \subseteq Pipe \cup {Snapshot} /\ UNCHANGED <<client, view>> /\ desk'.at = "idle"
        /\ Snapshot \in Snapshots /\ Snapshot.seq = desk.seq /\ Snapshot.event.of = desk.state
        /\ desk.at = "complete" /\ desk.seq \in Nat
    BY <1>4, AnswerTypes DEF Types, ConnectionTypes, Desks
  <2>2. Fits(Snapshot, n, kind, ofs, wholes)
    <3>1. Snapshot.event.kind = "Snapshot"
      BY <2>1, MessageFacts
    <3> QED BY <2>1, <3>1 DEF Fits, Settled, Stable
  <2> QED BY <2>1, <2>2, SettledMoves
<1>5. CASE Resync
  <2>1. /\ Pipe' \subseteq Pipe \cup {MakingUp} /\ UNCHANGED <<desk, client, view>>
        /\ MakingUp.event.kind = "Resync" /\ MakingUp.event.of = State
    BY <1>5, ResyncTypes
  <2>2. Fits(MakingUp, n, kind, ofs, wholes)
    BY <2>1 DEF Fits, Stable
  <2> QED BY <2>1, <2>2, SettledMoves
<1>6. CASE Connect \/ AskAgain \/ Break \/ StopServing
  <2>1. CASE Connect
    BY <2>1, ConnectTypes, SettledMoves
  <2>2. CASE AskAgain
    BY <2>2, AskAgainTypes, SettledMoves
  <2>3. CASE Break \/ StopServing
    BY <2>3, DisconnectTypes, SettledMoves
  <2> QED BY <1>6, <2>1, <2>2, <2>3
<1>7. CASE ReadFrame
  BY <1>7, ReadFrameTypes, SettledMoves
<1>8. CASE TakeAnswer
  <2> DEFINE m == client.answer
  <2>1. /\ Pipe' \subseteq Pipe /\ desk' = desk /\ m \in Snapshots /\ m \in Pipe
        /\ client'.seen = m.seq /\ view' = m.event.of
    BY <1>8, TakeAnswerTypes
  <2>2. client'.seen >= n => view' \in wholes
    <3>1. m.event.kind = "Snapshot" /\ Fits(m, n, kind, ofs, wholes)
      BY <2>1, MessageFacts DEF Settled
    <3> QED BY <2>1, <3>1 DEF Fits
  <2> QED BY <2>1, <2>2, SettledMoves
<1>9. CASE NextEvent
  <2> DEFINE m == client.inbox.unread[1]
  <2>1. /\ Pipe' \subseteq Pipe /\ desk' = desk /\ client.phase = "reading"
        /\ m \in Messages /\ m \in Pipe
        /\ \/ m.seq <= client.seen /\ client'.seen = client.seen /\ view' = view
           \/ m.seq > client.seen /\ client'.seen = m.seq /\ view' = Shown(view, m.event)
    BY <1>9, NextEventTypes
  <2>2. Reading
    BY <2>1 DEF Linkage, Stages, Unconnected, Asked, Sent, Answered
  <2>3. /\ client'.seen # client.seen =>
             client'.seen = client.seen + 1 \/ m.event.kind = "Resync"
    BY <1>9, <2>2, NextEventFollows
  <2>4. /\ m.seq \in Nat /\ client.seen \in Nat /\ view \in Whole /\ m.event \in Events
        /\ m.event.kind # "Snapshot"
    BY <2>1, MessageFacts DEF Types, ClientTypes, Clients
  <2>5. Fits(m, n, kind, ofs, wholes)
    BY <2>1 DEF Settled
  <2> HIDE DEF m
  <2>6. CASE m.seq > client.seen /\ client'.seen = m.seq /\ view' = Shown(view, m.event)
    <3>1. ASSUME m.seq >= n
          PROVE  Shown(view, m.event) \in wholes
      <4>1. CASE m.event.kind = "Resync"
        <5>1. Shown(view, m.event) = m.event.of
          BY <2>4, <4>1, ShownProperties
        <5> QED BY <2>5, <3>1, <4>1, <5>1 DEF Fits
      <4>2. CASE m.event.kind = kind
        BY <2>4, <2>5, <3>1, <4>2 DEF Fits, Stable
      <4>3. CASE m.event.kind \notin {kind, "Resync"}
        <5>1. m.seq # n
          BY <2>4, <2>5, <3>1, <4>3 DEF Fits
        <5>2. client.seen >= n
          BY <2>3, <2>4, <2>6, <3>1, <4>3, <5>1
        <5>3. view \in wholes
          BY <2>1, <5>2 DEF Settled
        <5> QED BY <2>4, <4>3, <5>3 DEF Stable
      <4> QED BY <4>1, <4>2, <4>3
    <3>2. client'.seen >= n => view' \in wholes
      BY <2>6, <3>1
    <3> QED BY <2>1, <3>2, SettledMoves
  <2>7. CASE client'.seen = client.seen /\ view' = view
    BY <2>1, <2>7, SettledMoves
  <2> QED BY <2>1, <2>6, <2>7
<1> QED BY <1>1, <1>2, <1>3, <1>4, <1>5, <1>6, <1>7, <1>8, <1>9 DEF Next, Works, FanIn

---------------------------------------------------------------------------
(* What is last announced of the queue is settled since its announcement,  *)
(* and the state of the engine once nothing of it is still to be told.     *)

QueueAgrees ==
  \E n \in 0..seq, q \in Nat :
    queue.announced = q /\ Settled(n, "QueueChanged", {q}, WithQueue(q))

StateAgrees ==
  StateToCome \/ \E n \in 0..seq, x \in States :
    engine.status.state = x /\ Settled(n, "StateChanged", {x}, WithState(x))

Agreement == EngineAgrees /\ QueueAgrees /\ StateAgrees

LEMMA QueueGoesOnAgreeing ==
  ASSUME Types, Linkage, QueueAgrees, [Next]_vars
  PROVE  QueueAgrees'
<1>1. PICK n \in 0..seq, q \in Nat :
        queue.announced = q /\ Settled(n, "QueueChanged", {q}, WithQueue(q))
  BY DEF QueueAgrees
<1>2. /\ seq \in Nat /\ n \in Nat /\ n <= seq /\ queue.version \in Nat
      /\ queue.announced <= queue.version /\ Stable("QueueChanged", {q}, WithQueue(q))
  BY <1>1, QueueStable DEF Types, DaemonTypes, ConnectionTypes, Queues
<1>3. State \in WithQueue(q)
  <2>1. State \in Whole /\ State.queue = queue.version
    BY WholeState DEF Types
  <2> QED BY <1>1, <1>2, <2>1 DEF WithQueue
<1>4. CASE FanIn
  <2>1. PICK e \in Events :
          /\ Publishes(e)
          /\ \/ queue' = queue /\ e \in EngineEvents
             \/ queue' = queue /\ e = Event("Resync", State)
             \/ FanInQueue /\ e = Event("QueueChanged", queue.version) /\ queue'.announced = queue.version
             \/ queue' = queue /\ e = Event("ShuttingDown", None)
    BY <1>4, FanInTypes
  <2>2. seq' = seq + 1
    BY <2>1 DEF Publishes
  <2>3. CASE queue' = queue /\ e.kind # "QueueChanged" /\ (e.kind = "Resync" => e.of = State)
    <3>1. Settled(n, "QueueChanged", {q}, WithQueue(q))'
      BY <1>1, <1>2, <1>3, <2>1, <2>3, SettledPublishes
    <3>2. n \in 0..seq'
      BY <1>2, <2>2
    <3> QED BY <1>1, <2>3, <3>1, <3>2 DEF QueueAgrees
  <2>4. CASE e = Event("QueueChanged", queue.version) /\ queue'.announced = queue.version
    <3>1. PICK v, k \in Nat : v = queue.version /\ k = seq + 1
      BY <1>2
    <3>2. v \in Nat /\ Stable("QueueChanged", {v}, WithQueue(v))
      BY <1>2, <3>1, QueueStable
    <3>3. e.kind = "QueueChanged" /\ e.of \in {v}
      BY <2>4, <3>1 DEF Event
    <3>4. Settled(k, "QueueChanged", {v}, WithQueue(v))'
      BY <2>1, <3>1, <3>2, <3>3, PublishingSettles
    <3>5. k \in 0..seq'
      BY <1>2, <2>2, <3>1
    <3> QED BY <2>4, <3>1, <3>2, <3>4, <3>5 DEF QueueAgrees
  <2> QED BY <2>1, <2>3, <2>4 DEF EngineEvents, Event
<1>5. CASE ~FanIn
  <2>1. Settled(n, "QueueChanged", {q}, WithQueue(q))'
    BY <1>1, <1>2, <1>3, <1>5, SettledStays
  <2>2. seq' = seq /\ queue'.announced = queue.announced
    <3>1. CASE EditQueue
      BY <1>2, <3>1 DEF EditQueue, Types, DaemonTypes, Queues
    <3>2. CASE ~EditQueue
      BY <1>5, <3>2
      DEF Next, Works, FanIn, EngineGoesOn, Listen, TakeSnapshot, Answer, Receive, Lag, Resync,
          Forward, Connect, ReadFrame, TakeAnswer, NextEvent, AskAgain, EngineBegins, StopServing,
          SendLate, Break, Disconnect, vars, daemon
    <3> QED BY <3>1, <3>2
  <2> QED BY <1>1, <2>1, <2>2 DEF QueueAgrees
<1> QED BY <1>4, <1>5

LEMMA StateGoesOnAgreeing ==
  ASSUME Types, Linkage, EngineAgrees, StateAgrees, [Next]_vars
  PROVE  EngineAgrees' /\ StateAgrees'
<1> DEFINE x == engine.status.state
<1>1. /\ seq \in Nat /\ engine.status \in Statuses /\ x \in States
      /\ heard \in Receiver(EngineEvents) /\ heard.unread \in Seq(EngineEvents)
  BY DEF Types, DaemonTypes, ConnectionTypes, Engines, Statuses, States, Receiver
<1>2. State \in Whole /\ State.status = engine.status
  BY WholeState DEF Types
<1>3. CASE ~FanIn
  <2>1. /\ EngineAgrees' /\ seq' = seq
        /\ ~StateToCome' => ~StateToCome /\ engine'.status.state = x
    <3>1. CASE EngineBegins \/ EngineGoesOn
      BY <3>1, EngineKeepsAgreeing DEF EngineBegins, EngineGoesOn
    <3>2. CASE ~(EngineBegins \/ EngineGoesOn)
      <4>1. engine' = engine /\ heard' = heard /\ seq' = seq
        BY <1>3, <3>2
        DEF Next, Works, FanIn, Listen, TakeSnapshot, Answer, Receive, Lag, Resync, EditQueue,
            Forward, Connect, ReadFrame, TakeAnswer, NextEvent, AskAgain, StopServing, SendLate,
            Break, Disconnect, vars, daemon
      <4> QED BY <4>1 DEF EngineAgrees, StateToCome
    <3> QED BY <3>1, <3>2
  <2>2. CASE StateToCome'
    BY <2>1, <2>2 DEF StateAgrees
  <2>3. CASE ~StateToCome'
    <3>1. PICK n \in 0..seq, y \in States : x = y /\ Settled(n, "StateChanged", {y}, WithState(y))
      BY <2>1, <2>3 DEF StateAgrees
    <3>2. State \in WithState(y) /\ Stable("StateChanged", {y}, WithState(y)) /\ n \in Nat /\ n <= seq
      <4>1. State \in WithState(y)
        BY <1>2, <3>1 DEF WithState
      <4> QED BY <1>1, <4>1, StateStable
    <3>3. Settled(n, "StateChanged", {y}, WithState(y))'
      BY <1>3, <3>1, <3>2, SettledStays
    <3> QED BY <2>1, <2>3, <3>1, <3>3 DEF StateAgrees
  <2> QED BY <2>2, <2>3
<1>4. CASE FanIn
  <2>1. EngineAgrees' /\ engine' = engine
    BY <1>4, FanInKeepsAgreeing, FanInTypes
  <2>2. CASE StateToCome'
    BY <2>1, <2>2 DEF StateAgrees
  <2>3. CASE ~StateToCome'
    <3>1. PICK e \in Events :
            /\ Publishes(e)
            /\ \/ /\ ~heard.missed /\ heard.unread # <<>> /\ e = heard.unread[1]
                  /\ e \in EngineEvents /\ heard'.unread = Tail(heard.unread)
               \/ heard.missed /\ e = Event("Resync", State)
               \/ heard' = heard /\ e.kind \in {"QueueChanged", "ShuttingDown"}
      <4>1. Event("QueueChanged", queue.version).kind = "QueueChanged"
            /\ Event("ShuttingDown", None).kind = "ShuttingDown"
        BY DEF Event
      <4> QED BY <1>4, <4>1, FanInTypes
    <3>2. seq' = seq + 1
      BY <3>1 DEF Publishes
    <3>3. PICK y \in States, k \in Nat : y = x /\ k = seq + 1
      BY <1>1
    <3>4. State \in WithState(y) /\ Stable("StateChanged", {y}, WithState(y))
      BY <1>2, <3>3, StateStable DEF WithState
    <3>5. CASE \/ e.kind = "StateChanged" /\ e.of = y
               \/ e.kind = "Resync" /\ e.of = State
      <4>1. Settled(k, "StateChanged", {y}, WithState(y))'
        BY <3>1, <3>3, <3>4, <3>5, PublishingSettles
      <4>2. k \in 0..seq'
        BY <1>1, <3>2, <3>3
      <4> QED BY <2>1, <3>3, <4>1, <4>2 DEF StateAgrees
    <3>6. CASE ~StateToCome /\ e.kind \notin {"StateChanged", "Resync"}
      <4>1. PICK n \in 0..seq, z \in States :
              x = z /\ Settled(n, "StateChanged", {z}, WithState(z))
        BY <3>6 DEF StateAgrees
      <4>2. n \in Nat /\ n <= seq
        BY <1>1
      <4>3. Settled(n, "StateChanged", {z}, WithState(z))'
        BY <3>1, <3>6, <4>1, <4>2, SettledPublishes
      <4>4. n \in 0..seq'
        BY <1>1, <3>2
      <4> QED BY <2>1, <4>1, <4>3, <4>4 DEF StateAgrees
    <3>7. ~Saying(engine.doing) /\ LastSaid(heard.unread, x)
      <4>1. ~Saying(engine.doing)
        BY <2>1, <2>3 DEF StateToCome
      <4> QED BY <4>1, TurningIsSaying DEF EngineAgrees, HandlerAgrees
    <3>8. CASE /\ ~heard.missed /\ heard.unread # <<>> /\ e = heard.unread[1]
               /\ e \in EngineEvents /\ heard'.unread = Tail(heard.unread)
      <4>1. ~Telling(Tail(heard.unread))
        BY <2>3, <3>8 DEF StateToCome
      <4>2. e.kind = "StateChanged" => e.of = y
        BY <1>1, <3>3, <3>7, <3>8, <4>1, TailOfSaid
      <4>3. e.kind # "StateChanged" => ~StateToCome
        BY <1>1, <3>7, <3>8, <4>1, TailOfSaid DEF StateToCome
      <4>4. e.kind # "Resync"
        BY <3>8 DEF EngineEvents
      <4> QED BY <3>5, <3>6, <4>2, <4>3, <4>4
    <3>9. CASE heard.missed /\ e = Event("Resync", State)
      BY <3>5, <3>9 DEF Event
    <3>10. CASE heard' = heard /\ e.kind \in {"QueueChanged", "ShuttingDown"}
      BY <2>1, <2>3, <3>6, <3>10 DEF StateToCome
    <3> QED BY <3>1, <3>8, <3>9, <3>10
  <2> QED BY <2>2, <2>3
<1> QED BY <1>3, <1>4

LEMMA InitAgrees ==
  ASSUME Init
  PROVE  Agreement
<1>1. /\ Types /\ heard = Listening /\ seq = 0 /\ desk = Taking("idle") /\ client = Away
      /\ forwarder = Off /\ late = NoMessage /\ outbox = <<>> /\ queue.announced = 0
      /\ engine.doing = <<>>
  BY InitTypes DEF Init
<1>2. Pipe = {}
  <2>1. client.inbox.unread = <<>> /\ client.answer = NoMessage /\ ToSet(<<>>) = {}
        /\ forwarder.backlog.unread = <<>> /\ forwarder.held = NoMessage
    BY <1>1, OffProperties, ListeningProperties DEF Away, ToSet
  <2> QED BY <1>1, <2>1 DEF Pipe
<1>3. desk.at = "idle" /\ client.phase = "away"
  BY <1>1 DEF Taking, Away
<1>4. \A n, kind, ofs, wholes : Settled(n, kind, ofs, wholes)
  BY <1>2, <1>3 DEF Settled
<1>5. Calm(engine.doing, engine.status.state) /\ LastSaid(heard.unread, engine.status.state)
  BY <1>1, ListeningProperties DEF Calm, LastSaid
<1>6. engine.status.state \in States
  BY <1>1 DEF Types, DaemonTypes, Engines, Statuses, States
<1> QED BY <1>1, <1>4, <1>5, <1>6 DEF Agreement, EngineAgrees, HandlerAgrees, QueueAgrees, StateAgrees

(* A client that has applied the last number shows a queue no older than   *)
(* the last announced one and, once the engine rests and fan_in has caught *)
(* up, whether something plays: although publish numbers an event after    *)
(* the engine changed, and snapshot reads the number before the state.     *)
THEOREM WhatIsAppliedIsShown ==
  Spec => []AppliedIsShown
<1>1. Types /\ Linkage /\ Agreement /\ [Next]_vars => Agreement'
  BY QueueGoesOnAgreeing, StateGoesOnAgreeing DEF Agreement
<1>2. ASSUME Types, Agreement
      PROVE  AppliedIsShown
  <2>1. SUFFICES ASSUME client.phase = "reading", client.seen = seq
                 PROVE  /\ view.queue >= queue.announced
                        /\ engine.doing = <<>> /\ heard = Listening =>
                             view.status.state = engine.status.state
    BY DEF AppliedIsShown
  <2>2. seq \in Nat
    BY <1>2 DEF Types, ConnectionTypes
  <2>3. view.queue >= queue.announced
    <3>1. PICK n \in 0..seq, q \in Nat :
            queue.announced = q /\ Settled(n, "QueueChanged", {q}, WithQueue(q))
      BY <1>2 DEF Agreement, QueueAgrees
    <3>2. seq >= n
      BY <2>2
    <3> QED BY <2>1, <3>1, <3>2 DEF Settled, WithQueue
  <2>4. ASSUME engine.doing = <<>>, heard = Listening
        PROVE  view.status.state = engine.status.state
    <3>1. ~StateToCome
      BY <2>4, ListeningProperties DEF StateToCome, Telling, Saying
    <3>2. PICK n \in 0..seq, x \in States :
            engine.status.state = x /\ Settled(n, "StateChanged", {x}, WithState(x))
      BY <1>2, <3>1 DEF Agreement, StateAgrees
    <3>3. seq >= n
      BY <2>2
    <3> QED BY <2>1, <3>2, <3>3 DEF Settled, WithState
  <2> QED BY <2>3, <2>4
<1> QED BY <1>1, <1>2, InitAgrees, SpecLinkage, PTL DEF Spec
=============================================================================
