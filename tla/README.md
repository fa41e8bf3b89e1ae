# A verification of phonia

phonia is a music player for TIDAL and local files. A daemon, `phoniad`, owns the *queue* (what is
played, in what order) and the *engine* (a thread that plays it, gapless and bit-perfect); its
clients (a terminal interface, `phonia ctl`, MPRIS) are thin, and follow it over a socket.
This directory specifies the parts of it whose correctness depends on order, interleaving and
failure, checks them with TLC on small instances, and proves what matters most with TLAPS for every
instance.

    tlc -config Queue.cfg MCQueue                        the queue
    tlc -config Engine.cfg MCEngine                      the audio thread
    tlc -config Playback.cfg MCPlayback                  the frames, from download to listener
    tlc -config Outputs.cfg OutputsProperties            the card, the streams, the route
    tlc -config EventStream.cfg EventStreamProperties    the daemon's events, up to a client
    tlc -config Autoplay.cfg AutoplayProperties          autoplay, and clients' requests
    tlc -config Tui.cfg TuiProperties                    the terminal interface
    tlapm QueueProofs.tla                                the theorems about the queue
    tlapm OutputsProofs.tla                              the theorems about the outputs
    tlapm EngineProofs.tla                               the theorems about the audio thread
    tlapm PlaybackProofs.tla                             the theorems about the frames
    tlapm EventStreamProofs.tla                          the theorems about the events
    tlapm AutoplayProofs.tla                             the theorems about autoplay
    tlapm TuiProofs.tla                                  the theorems about the interface

## The system

`core` is `src/crates/phonia-core/src`, `daemon` is `src/crates/phoniad/src`.

| Part | Source | State it keeps | What makes it correct |
|---|---|---|---|
| Queue | `core/queue/` | entries as listed and as played, current entry, last offer, history, the slot a removed current entry left, modes; a published snapshot | both orders agree; nothing names a removed entry; edits do not change what is to come; what is peeked is what is played; subscribers see it |
| Engine, audio thread | `core/engine/audio_thread.rs` | state, generation of the awaited load, track written and track heard, track opened ahead, sink, pending release | events and status match what is heard; late answers are ignored; a request for the device is answered once; waits end |
| Engine, handle | `core/engine/mod.rs` | – | a program that asks for the device is answered within 3 s |
| Controller | `core/control.rs` | – | removing what plays skips it, and only it |
| Daemon: events | `daemon/daemon.rs` | sequence number, event channel, last sink report | a client that applies a snapshot and the events after it ends in the daemon's state |
| Daemon: connections | `daemon/server.rs` | per client: outbox, forwarder, slow requests | nothing between snapshot and first event is lost; a slow client is resynchronised; shutdown is told |
| Daemon: autoplay | `daemon/autoplay.rs` | generation, entry, fetching, resume | one radio at a time; a stopped or cleared queue is left alone |
| Daemon: outputs | `daemon/outputs.rs`, `core/output/fallback.rs` | route, open side | what is announced is what plays |
| Sink and ring | `core/output/shared/mod.rs`, `ring.rs` | frames queued, silence in front, gone, closed, waker | every frame reaches the server, nobody sleeps for ever |
| Device reservation | `core/output/reserve.rs`, `dbus.rs` | who holds the device | it is open only while it is ours (or there is no bus), and given back when it is not wanted |
| Devices | `core/output/alsa.rs`, `shared/pulse.rs`, `mixer.rs`, `caps.rs` | kernel or server state | I/O |
| Recently played, play log | `core/recent.rs`, `play_log.rs` | the track heard so far | each listening counted once; the newest save wins |
| Streams, decoding | `core/stream.rs`, `dash.rs`, `decode.rs`, `openers.rs` | buffered segments, where to reopen | no frame is skipped; a short download is not taken for the end |
| Session, catalogue, credentials | `core/tidal.rs`, `catalog/`, `auth/` | tokens | remote API, a migration between stores |
| Protocol | `src/crates/phonia-ipc` | – | types and framing |
| Terminal interface | `src/crates/phonia-tui` | connection, search, views, library, lyrics, each with what it waits for | an answer is put where it belongs, or nowhere; nothing waits for ever |
| Command line | `src/crates/phonia` | – | requests and printing |

How they interact:

- A client's request reaches `Daemon::handle`, which calls the `Controller`: queue calls take the
  queue's mutex, engine commands go through a channel to the audio thread.
- The audio thread asks the queue through `TrackSupplier`. `peek` and `started` are called on the
  thread itself; `advance` and `open` in a spawned task that answers with a message
  (`Loaded`, `LoadFailed`, `QueueExhausted`, `Prefetched`), so the queue may change between each of
  them, and the task may be aborted at any of its awaits.
- The desktop asks for the device through a callback that sends `ReleaseRequested` and waits.
- Events of the engine, changes of the queue and reports of the sinks meet in `fan_in`, where each
  gets its number, and go to one forwarder per subscriber.
- Autoplay hangs off `fan_in`: it fetches a radio in a task, adds it under the lock that clients'
  requests take (`control_lock`), and may tell the engine to play.
- The terminal interface sends each request as a task of its own over one connection that it opens
  again when it is lost; answers find their place by the number they were asked under.

The hard parts are therefore: answers that arrive late, out of order, or after they were
superseded; two tracks under way at a gapless boundary while the listener seeks, skips, edits the
queue or another program takes the device; every failure of the device in the middle of a handler;
queue edits between the offer of an entry and its opening; and, in the daemon, state read at one
moment and numbered at another. `PROJECT.json` lists each hazard at its line.

## Modules

| Module | Contents |
|---|---|
| `IdSequences` | sequences of distinct identifiers: splice, remove, position, arrangements |
| `Queue` | the queue: one action per call |
| `QueueProperties` | its invariants and action properties |
| `MCQueue` | its instances for TLC |
| `IdSequenceLemmas`, `QueueProofs` | lemmas about the operators; the theorems about the queue |
| `Engine` | the audio thread: one action per message or period of audio |
| `EngineProperties` | its invariants, action properties and liveness |
| `MCEngine` | its instances for TLC |
| `EngineProofs` | the theorems about the audio thread |
| `Listening` | what playback promises a listener: the abstract specification of `Playback` |
| `Playback` | download, decoder, audio thread, ring and sound server, frame by frame |
| `PlaybackProperties`, `MCPlayback` | its properties, the refinement of `Listening`; its instances |
| `PlaybackProofs` | the theorems about the frames |
| `Outputs`, `OutputsProperties` | the factory that falls back, the reservation, switches, the route |
| `OutputsProofs` | the theorems about the outputs |
| `Broadcast` | one receiver of a bounded channel that drops the oldest |
| `EventStream`, `EventStreamProperties` | numbering, snapshots, forwarding, resyncing, a client that applies |
| `EventStreamProofs` | the theorems about the events |
| `Autoplay`, `AutoplayProperties` | the Controller, radios and autoplay's state, over a small queue and engine |
| `AutoplayProofs` | the theorems about autoplay |
| `Tui`, `TuiProperties` | the terminal interface's connection, requests, answers, pages |
| `TuiProofs` | the theorems about the terminal interface |

`Engine`, `Playback`, `Outputs` and `Autoplay` each see the audio thread from one side: commands and
answers, frames, sinks, tracks started. What one of them leaves free (whether an output opens, how
much was heard, what comes next) another one settles. A composition of all of them is beyond TLC.

### Queue

`queue/mod.rs` puts `Inner` behind a mutex, so a call is a step. The variables are the fields of
`Inner` and the snapshot that `Queue::mutate` publishes. An entry is its id; of its metadata only
whether the title is known is kept, because learning it (`record_meta`) publishes. The version
counter is represented by what it is for: an action either publishes or leaves `published` alone,
as the code moves the version or does not. The slots of the source count from 0 and those of the
model from 1; `vacated` counts the entries before the slot in both. Shuffling is any permutation.
`remove` handles its ids one by one; `RemoveIds` gives its result for the set (the order in which
they are named does not matter, and where `vacated` ends up follows from counting the entries that
remain before it).

`peek` and `advance` are written apart in the source, and apart here: `Peek` measures from the
current entry and never looks at the offer.

`Insert` covers `add` (inserting at the end). `Commit` is both `open` (which commits before it
opens) and `started` (which commits at a gapless boundary). Opening ahead changes nothing but
titles (`RecordMeta`).

### Engine

The thread handles one message at a time and each to its end, and `play_step` once per period while
it plays. Its methods call each other deeply (`interrupt_current`, `begin_load`, `fail`,
`close_output`, …); each is an operator from the thread's fields to its fields, and a handler
composes them in the order of the source, early returns included. What the environment decides
within a handler (whether a device opens or a pause works, what the queue answers, how much has
been heard, whether the entry was removed) is a parameter that the action leaves open.

Positions and samples are abstracted: "the listener has heard the boundary" is a choice, and so is
"the seek goes beyond the end". Time is left out: a deadline may have passed whenever it is set.
`held` is the pause of the device itself, next to the thread's belief of it. A flush ends it, unless
it fails: `flush_sink` then tells the error and the handler goes on, and the device is paused with
nobody knowing (`stuck`). Whether a paused device would let itself be flushed is the device's to
change (`DeviceTurns`), so that a handler need not ask at each of its flushes. `told` and `orderly`
follow the events a listener receives; `owed` counts the programs waiting for an answer. A spawned
task is an element of `loads` or `prefetches` until its answer is handled or known to be lost;
an abort may come too late to hold the answer back, and then the answer is handled as any other.

What the queue answers is chosen freely in this module: it is open to any supplier. `Autoplay` has
a queue and an engine together, each smaller.

### Playback

Every frame is a pair of its track's place in the list and its place in the track, and each buffer
between the download and the speaker is a sequence of frames: the segments fetched ahead
(`stream.rs`), the chunk decoded (`playing.pending`), the ring, what the server holds; with
`playing.recent`, the frames kept to be played again. The thread's `play_step` is a `PlayStep` that
may go on into a `Decode` or a `Write`, because both can block, and the sound server draws from the
ring (`Pull`) and plays (`Play`) in between. `Position` is computed as the thread computes it, from
what was written, the lead-in, and the delay of the sink. The listener (`listener`) is what the
properties compare it with: where the frames heard have got to, the jumps that were asked for, and
what was lost. Silence is frames of no track. The output may go away in any step; whether the
writer, the drain or a pause notices is as the code has it.

Left out: the latency between the server and the speaker; formats (all tracks share one); the
first track in the instance has seek mode ForwardOnly, and is not joined onto, since
`seek_forward_only` does not count the lead-in (see the divergences); a flush that fails while the
output is there (`Engine` has it); and how long a track that was written waits for the next to open
(`WaitForNext`), which in the code is a little less than its audio lasts.

### Outputs

`thread` is the audio thread with the sink it has open and the factory it opens from;
`inbox` what it was sent: requests to hand the card back, switches. Opening is three steps (reserve
the name, open the card, or open a stream), since other programs ask in between (`Ask`, answered
after the thread looked, or denied after 3 s without an answer). Each attempt to reserve may find no
bus; the card is then opened with nothing reserved (`noBus`). A factory that falls back says
which side it opened (`switches`), `fan_in` hears it later and announces it after an await, and a
switch by hand (`request`) does the same under its own lock: the route that clients are shown trails
both. `crossed` and `leftover` are history variables for the two places where the code is known to
go wrong (below). The volume is left out.

### EventStream

The engine publishes its status and emits events as a sequence of steps per handler, in the order of
the source (`TrackStarted` before the status that has the track). `fan_in` hears them through a
bounded channel (`Broadcast`), numbers them and offers them to the subscriber's; a snapshot reads
its number and the state in two steps. The reader of a connection answers a subscription, aborts
an older forwarder (which may still have one message on its way: `late`) and starts another one; the
forwarder sends to the outbox and, when it lost events, the whole state. The client reads answers
and events from its own bounded channel, asks again when that overflowed, connects again when the
connection breaks, and applies to `view`.

Left out: the handshake and the framing; a forwarder that was aborted is over once its message is
sent; the state of a snapshot is read in one step; of it only the status (state, track, output) and
the version of the queue are kept; between the client's events and its screen there is no further
channel.

### Autoplay

The requests of clients that matter here (play, stop, clear, remove, add, autoplay on and off) are
under the control lock, and take two steps each where the `Controller` edits the queue and then commands the engine; the
engine takes commands later and asks the queue itself when a track ends. `fan_in` considers autoplay
in steps (what is due, what plays), a radio is an element of `fetches` until it lands, is dropped
because its generation is old, or times out, and what it adds is added in steps of its own under
the same lock.

Left out: repeat, shuffle and opening ahead; a track is taken from the queue and started in one
step (`Engine` and `Queue` have the two apart); which tracks of a radio are new to the queue.

### Tui

`state` is what the interface remembers: per list its rows, total and `loading`; per search, view,
part of the library and lyrics its phase and the number its answers are matched by. A request goes
through the channel to the connection (`channel`), becomes a task (`underway`) and comes back as a
page, an error or a loss. Two tasks may answer in any order; what the interface knows of the
connection (`news`) trails it. A key is an action with the cursor anywhere, so a list may ask for
its next page whenever the code lets it.

Left out: what is drawn, covers, moving the cursor, everything that is only sent (playback keys,
adding to the queue), recently played and recommended albums, starting the daemon. The lists on the
home screen never grow by pages, as in the code (`load_more` is called for search and library only).
Pages are single rows, and answers are handed over as late as their tasks like, so only news of the
connection has a queue. When a view gave up, the answer that opens it is taken as a page of it: the
view stays failed, as in the code.

## What is checked

| Run | Bounds | Shows |
|---|---|---|
| `Queue.cfg` | 3 entries ever created, 2 per call, history of 2, one untitled | all seven properties of the queue |
| `Engine.cfg` | 3 tracks, 2 formats, 4 loads, 2 tracks opened ahead, 2 askers | eight invariants and the end of waits |
| `QueuePrevious.cfg` | 4 entries | refutes `PreviousLeavesCurrent` |
| `EngineSwitchSeeking.cfg` | 3 loads | refutes `PlayingHasOutput` |
| `EngineSwitchAdopting.cfg` | 3 loads | refutes `LoadingAwaitsAnAnswer` |
| `EngineRelease.cfg` | 3 loads | refutes `ReleasePauses` |
| `Playback.cfg` | tracks of 3, 1 and 2 frames that seek in three ways, segments of 2, a ring of 2, a server of 2, 2 commands, 1 failure | four invariants, `HearsEveryFrame` (implements `Listening`), `ThreadReturns` |
| `PlaybackAside.cfg` | the same | refutes `AudioSetAsideIsPlayed` |
| `Outputs.cfg` | a card, 2 streams, 1 switch by hand, 3 opens, 1 failure, 1 asker, a bus that comes and goes | four invariants, `RouteCatchesUp` |
| `EventStream.cfg` | 2 tracks, every buffer of one message, 1 move of the engine, 1 edit, 1 lost connection, the end of the daemon | two invariants, `NoSilentGap`, `CatchesUp` |
| `Autoplay.cfg` | 3 entries, the first a file, 3 requests, 3 radios | two invariants, `GoesOn`, `RadioFollowsItsEntry`, `SkipsTheRemoved` |
| `Tui.cfg` | 1 tab, 1 part of the library, 2 kinds of view, 2 pages, 3 keys, 2 lost connections | three invariants, `NothingWaitsForEver` |

Why the bounds are enough. The queue's calls relate at most an entry, its neighbour and the one
offered: with three entries there is one before, one after and one removed, the history overflows,
a reshuffled cycle can open with its last entry, and a vacated slot can have entries put in before,
at and behind it. (What needs more is proved.) The engine relates the track heard, the one written
behind it and the one asked for after both; three tracks with two formats give a boundary that can
be joined and one that cannot, a track a seek reopens, one it repositions and one that cannot seek;
four generations give an awaited answer with older ones still on their way, across a handover, a
seek and a switch of output. Bounds sit in `Room`, and in the guards on `owed` and
`prefetchGeneration`, which stop questions from being asked and never an answer from arriving.

`Playback`: the tracks are longer than, as long as and shorter than a segment, a chunk and the ring, so
that a boundary falls inside each of them, and a track (the second) begins and ends while the one before is still in
the ring. Two commands make a pause and a release, a release and a resume, a seek after a switch;
the failure may fall before, between and after them. `Outputs`: three opens are a track that fits,
one that does not and one that fits again, with a request for the card and a failure or a switch
anywhere in between. `EventStream`: with buffers of one message each is overrun by the next event;
a move of the engine is a handler that publishes several times and emits several events, enough to
overrun all of them, to fall between the two reads of a snapshot, and to leave a loss as the last
thing that happens. `Autoplay`: an entry to play, one that a radio brings and one added meanwhile;
three requests make a removal after a Stop after a start; with a second and third radio, one of an
older generation is under way when a newer lands. `Tui`: three keys replace a search while its page is under way, or
open, close and open a view; two losses meet a request that was sent on the first connection and
asked again on the second; two pages are the least for which a second can be lost, doubled or put
in the wrong list. Tabs, parts and kinds beyond these differ in nothing but their name, except for
the views of artists (two lists) and of everything else (one), which are both there; that parts share one
number, and what goes wrong when there are several, is told below.

Bounds of these modules, too, stop commands, failures and keys, never an answer or a step that is
due.

`CHECK_DEADLOCK FALSE`: the queue can be empty with no entry left to create; the engine can use up its
questions; the list of `Playback` ends; and where the commands are used up, nothing has to happen in
`Outputs`, `Autoplay`, `EventStream` (whose daemon may have stopped for good) or `Tui` (which may
have been refused by a daemon of another version).

Fairness of `Engine` (only `WaitsEnd` needs it): weak fairness of the answer awaited and of the newest track
opened ahead. The thread aborts a task only when it no longer awaits it, `run` reads messages in
every state, and a task sends exactly one. That the supplier's own calls end is an assumption about
the network: nothing in the engine bounds them. No fairness is assumed of commands, of the device
or of playing. `WaitsEnd` therefore says that the engine itself never loses the answer it waits for,
not that the network is quick.

Of the others: `Playback` assumes that the thread, the download, the sound server and its callback
go on (`ThreadReturns`); `Outputs` that the thread takes its messages and the daemon's tasks
theirs; `EventStream` that the handler of the engine, `fan_in`, the connection's tasks and the
client go on, and that a client whose connection broke tries again; `Autoplay` that the thread and
the daemon do what is before them and a radio is answered or times out (`FETCH_TIMEOUT`), but not
that tracks end; `Tui` that the interface takes its messages, that the connection's task goes on, and
that each request is answered or fails, as its task ends with the connection at the latest. All of
it is weak fairness of steps which nothing but their own execution turns off: threads and tasks that the
scheduler runs. Nothing is assumed of users, devices or connections, which may be silent for ever.

`HearsEveryFrame` is a refinement: `Playback` implements `Listening`, with the place and position of
the listener for its variables and each jump that was asked for, or loss that was noticed, for a jump
of it. So between two of those every frame is heard once and in order, over segments, chunks, the
ring, boundaries and outputs closed and opened again.

Every property of the passing runs is paired in `PROJECT.json` with a mutant: a plausible mistake
in one definition (a slot not moved, a flush forgotten, the wrong track ended) under which TLC
finds the property violated. The mutants stand before the definitions they alter.

### What the refuted runs show

1. `PreviousLeavesCurrent`: `remove` takes entries out of the history without joining what becomes
   adjacent. After a, b, c, a and the removal of b and c, the history ends in the entry that is
   playing, and Previous restarts it.
2. `PlayingHasOutput`: switching the output while a seek reopens the stream closes the sink;
   `finish_seek` starts playing without one and the next period stops with an error.
3. `LoadingAwaitsAnAnswer`: switching the output while the engine waits for the next track to
   finish opening forgets that it is to be started; the engine stays in Loading.
4. `ReleasePauses`: giving the device back at the moment the next track becomes audible, after it
   was removed from the queue, asks for another track; the device is released in Loading, and taken
   again when that track arrives.

5. `AudioSetAsideIsPlayed`: what a closed output had not played is put back to be written again, but
   a thread that had written its last frame ends the track, or waits for the next to be audible,
   before it looks there: the end of the track is not heard.

### Divergences met without a run

Some are exceptions that a property names; some lie in what a module leaves out. They are hazards,
or the notes of hazards, in `PROJECT.json`.

In the queue and the engine:

- `move_to` leaves the vacated slot where it was (`queue/inner.rs:243`).
- A pause asked for while a track opened ahead is adopted is lost when that track fails.
- "The flush that always precedes this also unpaused the device" (`audio_thread.rs:1258`): not when it
  fails. `drop` or `prepare` of the card (`alsa.rs:573`) and the server's flush (`shared/mod.rs:172`)
  come before the device is unpaused, `flush_sink` (`audio_thread.rs:1391`) tells the error and goes
  on, and the pause is forgotten. Seeking while paused, with a flush that fails, and resuming then
  says Playing over a paused device: the card refuses what is written ("write() called on a paused
  ALSA sink"); the shared output, as long as its server lives, fills up and plays nothing.
  `DevicePauseIsKnown` keeps such a device (`stuck`) apart from all other pauses.
- A program whose request waits for a track to be ready is left without an answer when the pause it
  is to be granted with is taken back by resuming: it waits until the next of the ways that end
  the wait, or for its 3 s. `AskersAreAnswered` counts it as still waiting.
- `seek_forward_only` (`audio_thread.rs:1207`) does not count the lead-in of a track joined
  gaplessly: it takes the source to be further than it is, skips too little, and the position
  reported is ahead of what is heard. `Miscounts`, in `PlaybackProofs`, is this step. When the sink runs dry in the middle of a track, the audio the server then drops is
  audio, not silence.

In the outputs (`Outputs`, with `leftover` and `crossed`):

- A resume or a switch that cannot open the card leaves it reserved (`audio_thread.rs:1342`,
  `1470`). A request for the card is then granted at once, since no sink is open (`1519`), and the
  name is given away under a slot that takes it for held. `OpenIsReserved` excepts it, and
  `CardIsGivenBack` shows that nothing else leaves the card reserved.
- What a falling-back factory says is noted without the control lock (`daemon.rs:1010`): crossing a
  switch by hand it may leave clients with the other route. `RouteCatchesUp` excepts it.
- Not modelled: the level is carried from the card to one shared stream and on to the next
  (`daemon/outputs.rs:177`); a volume set between `channel_volume` and `attach` is lost; a change
  from outside within the echo of one's own is ignored; the two publishers of `VolumeChanged` are not
  ordered with each other.

In the daemon:

- "Number of the last event it includes": the number of a snapshot is read before the state
  (`daemon.rs:472`) and the engine emits `TrackStarted` before it publishes the status that has the
  track. A client can be at the last number and show an older track until the next status change;
  `AppliedIsShown` and `CatchesUp` therefore speak of whether something plays and of the queue.
- Removing the entry that plays reads the status, edits and then skips (`control.rs:51`): after a
  Stop that the engine has not handled, the skip starts music. A radio begun from a state read
  before a Stop can resume after it, and music it started can lead to the next radio. `StaysSilent`
  excepts these (`early`).
- A radio answered between the engine running dry and `fan_in` hearing of it (or before the status
  says Stopped) is added without resuming, and one begun while the first is being added keeps that
  from resuming. `GoesOn` speaks of those that are to resume.
- Saves of the recently played overlap on one temporary file (`daemon.rs:405`). A play whose report
  was lost on its way back is reported twice (`daemon.rs:1533`).

In the terminal interface:

- Losing the connection while one part of the library loads moves the number all parts share
  (`library.rs:336`). A page under way for a part that is done is then not taken when it arrives,
  and that list never asks again. `LoadingIsAwaited` leaves the library's pages out.
- `clear_pending` (`app.rs:801`) says that "only one can be waiting at a time"; an artist's page has two
  lists that wait apart. When one fails, the other can ask for the same page twice and shows it
  twice. `RowsAreTheirOwn` excepts the lists of artists.
- A favourite that is answered after the connection went reloads a library that then fails, and is
  not tried again when the connection is back.
- Not modelled: an answer with the recently played that arrives after an event with newer ones
  replaces them; "no retry until the next reconnect" is said of it and of the recommended albums,
  which are never asked for again once they are there.

## What is proved

`QueueProofs` proves, for every number of entries, batch, history limit and set of untitled
entries (`QueueAssumption`, which is all that is assumed):

| Theorem | Statement |
|---|---|
| `TypesHold` | `Spec => []TypeOK` |
| `OrderFollowsItems` | `Spec => []OrderMatchesItems` |
| `CursorStaysLive` | `Spec => []CursorIsLive` |
| `SubscribersSeeTheQueue` | `Spec => []SnapshotIsCurrent` |
| `ForwardAlwaysMovesOn` | `Spec => ForwardMovesOn` |
| `PeekIsWhatAdvanceGives` | `Spec => PeekAgreesWithAdvance` |
| `EditsLoseNothing` | `Spec => EditsKeepUpcoming` |

The argument: the conjunction `Inv` of the four invariants is inductive (theorem `Invariance`), and none
of its parts is alone. That the cursor is live needs the play order to hold the entries that exist
(`OrderMatchesItems`), since an offer is taken from the order; that the vacated slot is within the
order (`TypeOK`) needs the count of the entries removed before it; and that entries stay distinct
needs every id to have been issued before `nextId`. There is one lemma per action. They rest on
`IdSequenceLemmas`: what splicing and removing do to the length, the elements and the distinctness
of a sequence, and that the ranks of the places kept are a bijection. The three action properties follow
from the invariant: a reshuffled cycle never opens with the entry it leaves because its permutation is
of distinct entries, and peek and advance agree because, with nothing offered, they measure from the
same entry. That an edit keeps what is to come needs two facts about the operators. Where the cursor
is after splicing or removing (`CutSpliced`, `CutKept`), which also shows why the vacated slot is moved
the way it is. And that what follows the cursor is then what followed it before, less what was removed
(`WithoutAfter`) or plus the batch (`RestSpliced`).

`Without`, which `UnheardIsKept` uses too, is defined through ranks, not with `SelectSeq`, whose
recursive definition cannot be reasoned about; `MCQueue` assumes, and TLC evaluates, that the two agree on short sequences.

`EngineProofs` proves, for every set of tracks, their formats and ways to be sought in, and every
bound (`EngineAssumption`):

| Theorem | Statement |
|---|---|
| `TypesHold` | `Spec => []TypeOK` |
| `ListenersAreToldRight` | `Spec => []EventsFollowTheListener` |
| `StatusIsPublished` | `Spec => []StatusIsCurrent` |
| `PausesAreKnown` | `Spec => []DevicePauseIsKnown` |
| `SamplesAreOfTheTrack` | `Spec => []SourceIsOfCurrent` |
| `WaitsCanEnd` | `Spec => []QuestionsAreOpen` |
| `ProgramsAreAnswered` | `Spec => []AskersAreAnswered` |
| `FieldsAgree` | `Spec => []ThreadIsConsistent` |

The argument: a handler is a composition of methods, so there is a lemma for each method, of the form
"from fields like these, to fields like those", and one for each handler that chains them. The
invariant `Full` has four parts. `Base` is what every method keeps: types, questions numbered apart,
what opens ahead with its question, who is owed an answer, and no sink beside a device handed back.
`Tells` (the events fit what is heard), `Fit` (the fields fit a state) and `Published` (the status is
the fields) hold between handlers and are broken within them; what holds there instead has a name:
`Quiet` once a track was interrupted, `Clear` when one can start, `Asks` when a question can be
asked, `Alone` when a track can end, `Endable` when it can fail. No property is inductive alone. That the samples are those of the
current track needs the answer to a seek to be about it, hence questions numbered apart
(`Numbered`) and an open question in no other state (`Fit`); that a program is answered once needs
to know whom the put-off request is of, hence `Owes(e, k)`, with `k` the programs whose answer the
rest of the handler still owes; and that a device is not paused behind the engine's back needs
`Fit` to say what was paused, and `Base` to say that a pause of either kind is of an open device:
a flush that fails turns the one that is known into the one that is not.

`OutputsProofs` proves, for every set of streams and every bound (`OutputsAssumption`: the fallback
is one of the streams, the card is none, and the bounds are numbers):

| Theorem | Statement |
|---|---|
| `TypesHold` | `Spec => []TypeOK` |
| `TheCardIsOurs` | `Spec => []OpenIsReserved` |
| `TheCardIsGivenBack` | `Spec => []CardIsGivenBack` |
| `TheFactoryClimbsBack` | `Spec => []ClimbsBack` |

The argument: `Inv` (theorem `Invariance`) joins what the thread is doing and has open
(`ThreadAgrees`), what is reserved and under whose name (`ReservedAgrees`), what another program was
granted (`AskerAgrees`) and `ClimbsBack` to the types of what is sent and of the daemon's records. No
part is inductive alone. A granted request gives up the name later than it is granted, of the
reservation it was asked about: that the card is not open then rests on `AskerAgrees`, that
such a request was granted only where what is held was left over; and this on `ReservedAgrees`, that
a reservation of a thread with nothing open is one a failed resume or switch left over, which is
also why the card is given back in every other case. A card that is open, or about to be, is
reserved exactly when the attempt to reserve it found a bus. That a stream is open only with
nothing reserved rests on `ThreadAgrees`, since only the factory that tries the card first ever
opens a stream after reserving, and gives back before it does. There is one lemma per step, over
lemmas for what the steps share: opened, failed, closed, given back.

`EventStreamProofs` proves, for every set of tracks, every size of the four bounded buffers and every
bound (`EventStreamAssumption`: there is a track, the buffers hold at least one message):

| Theorem | Statement |
|---|---|
| `TypesCorrect` | `Spec => []TypeOK` |
| `NothingIsLostSilently` | `Spec => NoSilentGap` |
| `WhatIsAppliedIsShown` | `Spec => []AppliedIsShown` |

The argument has three layers, each an invariant that rests on the one before. `Types` gives every
part its type and says that no message is ahead of the last number. `Linkage` follows the numbers: a
sequence is `Linked` after a number if each of its messages follows one before it or makes up for all of
them (a snapshot, a resync), and `Reaches` a number if that is where it ends. What is unread of
the forwarder is what was numbered last and joins what the forwarder has seen (`Backlogged`), and a
connection goes through stages (`Unconnected`, `Asked`, `Sent`, `Answered`, `Reading`) in each of which
what is between the forwarder and the client, taken in the order the client applies it, continues from
the last number applied (`Continues`). The stages cannot be merged: until the snapshot was sent no message may count, and one of an
older forwarder (`late`) must be covered by what was applied. `Agreement` then says what
the numbers mean. A handler of the engine emits `StateChanged` after it published that state, if it
publishes another (`Turns`), so what is last said, or still to be said, is the state (`EngineAgrees`); the same of
the queue's version (`QueueAgrees`); and what the client shows, changed by what is on its way, is that
(`StateAgrees`), which survives a loss since what makes up for it is read after it.

`AutoplayProofs` proves, for every number of entries, requests and radios, whichever entries are
local files (`AutoplayAssumption`):

| Theorem | Statement |
|---|---|
| `TypesHold` | `Spec => []TypeOK` |
| `SilenceIsKept` | `Spec => []StaysSilent` |
| `RadioGoesLast` | `Spec => RadioFollowsItsEntry` |
| `OnlyTheRemovedIsSkipped` | `Spec => SkipsTheRemoved` |

The argument: `Inv` (theorem `Invariance`) adds three things to the types. `EntryIsLast`: from the moment
it is found due until it is added, a radio's entry is the last, because the control lock is held and
the engine only ever takes entries. `SkipsAgree`: what is to be skipped is gone from the queue, and what plays is it or
started later, from the status being read to the command being taken; it needs `EngineAgrees`,
that a track that plays is the current entry if there is one. `SilenceAgrees`: after a Stop that nothing
older interferes with, no radio is under way, no skip is to come, and the last command to reach the
engine is a Stop (`Quiet`). That no radio begins then needs a radio considered while something
plays to count as older (`fan.early`): the proof did not go through as long as what an exception
started could itself lead to another radio unnoticed, and TLC, on a larger instance, then found that behaviour;
the history variable now covers it.

`TuiProofs` proves, for every set of tabs (none of them named `all`, by which everything is asked for
at once), parts and kinds of views among those there are, every number of pages, keys and losses (`TuiAssumption`):

| Theorem | Statement |
|---|---|
| `TypesHold` | `Spec => []TypeOK` |
| `WhatIsShownIsItsOwn` | `Spec => []RowsAreTheirOwn` |
| `NothingWaitsInVain` | `Spec => []LoadingIsAwaited` |

The argument: what an answer may do depends on what else is outstanding, so `Inv` (theorem `Invariance`) speaks of
`Out`, everything in the channel or in a task. For each list, whatever was asked for it under the number it
now has was asked at most once (`Lone`); a page on its way is the next one, of the same query, and the list
says that it loads (`PagedGood`); while all of a search or a view is on its way, none of its pages
is (`SearchGood`, `ViewGood`); the numbers of views differ and are below the next one to be given (`ViewsGood`); the answer with the lyrics that is taken
is of the track looked at (`LyricsGood`). Conversely, what is shown as loading has such a request. That the
rows are in order needs all of it: a second page is asked for only after the first came, which rests
on `loading`, which rests on no other answer having reset it. Every step but the two that send and
answer is shown to leave a tag's requests alone (`Leaves`), so that there is one lemma per action
and per part of the state it touches. The lists of artists are only proved to hold rows of their own
(`OwnRows`): the same page may come twice there (see the divergences).

`PlaybackProofs` proves, for every list of tracks, their lengths and ways to be sought in, every size
of segment, chunk, period, ring, server and silence (`PlaybackAssumption`: there is a track and none is
empty, a period fits the ring, and the silence in front covers what the server drops):

| Theorem | Statement |
|---|---|
| `WhatIsDroppedIsSilence` | `Spec => []SilenceComesFirst` |
| `WhatIsUnheardIsKept` | `Spec => []UnheardIsKept` |
| `TypesHold` | `Spec /\ [][~Miscounts]_vars => []TypeOK` |
| `ReportedIsHeard` | `Spec /\ [][~Miscounts]_vars => []PositionIsHeard` |
| `EveryFrameIsHeard` | `Spec /\ [][~Miscounts]_vars => HearsEveryFrame`: `Playback` implements `Listening` |
| `FirstIsCounted` | `ForwardOnlyIsFirst` implies `Spec => [][~Miscounts]_vars` |

`Miscounts` is a seek, in a stream that can only go forward, of a track that was joined to one before
it: the code then does not count the lead-in (see the divergences), and what follows is not what a
listener hears. The last three properties are proved of all behaviours without such a step, and
`FirstIsCounted` shows that lists in which such a stream can only be the first track, as in the run,
have no others. Nothing else is excepted; the first two need not even that.

The argument has two layers. `InvBase` is about the output alone. The frames between the
thread and the listener (`Line`) are silence, then audio (`Held`), as much silence as the sink's
bookkeeping says; the audio is the end of what is kept (`Kept`); and as long as the server did not run
dry unexpectedly, it will not drop more than there is silence in front, or the sink is to add some before
it writes. No part is inductive alone: that the delay the sink reports is the audio unheard needs
`silent` to count what is really there, and that a flush leaves the counts right needs nothing to
be written while silence is owed. `Inv` adds what is counted. The frames as they are written make a tape:
the end of the track before, then the track (`Tape`). What is unheard and what is pending are the
parts of it after what was heard and after what was written (`TapeGood`), which needs the counts of the
source, of what it is to skip, of what was written and of the lead-in to add up (`CountsGood`). The listener
is where the tape has been heard to (`Follows`). So the next frame to be heard is the next of the tape,
and every step is shown to go on (`GoesOn`): it keeps this, and the listener hears the next frame, or
counts one jump or loss (`Listens`), which is a step of `Listening`. What is lost at the end of a track whose
last frames were set aside after the source was spent has a state of its own (`GivesUp`). That an output set aside loses
nothing then follows: what was unheard is put in front of what is pending, on the same tape. Where the
engine no longer knows how much was heard (an output that died), `SetAside` is proved for every
count that the sink may give.

Only model-checked: liveness under fairness
(`WaitsEnd`, `ThreadReturns`, `CatchesUp`, `RouteCatchesUp`, `GoesOn`, `NothingWaitsForEver`), which
is beyond the prover, as are `ENABLED`, induction over data and `RECURSIVE` operators. Every invariant,
action property and refinement that a passing run checks is stated by a theorem.

## Plan

What is left, in this order.

1. **Player** – Controller, Engine and Queue composed: a load offers and commits in two steps and
   can be aborted between them.
2. **Listened** – recently played and play log: each listening counted once, saved in order, reported.
3. **Volume** – per output, through switches, with the echo of one's own changes.
4. The session: tokens refreshed by requests that overlap.

## Not modelled

- Devices (ALSA, mixer, capabilities, the connection to PulseAudio), codecs and containers: input and
  output through the kernel, a server or a library. What the engine sees of them is chosen freely in
  `Engine` and `Outputs`.
- The remote catalogue, the conversions of the daemon, MPRIS, the protocol's types, the
  configuration, the command line: requests and mappings with hardly any state of their own.
- Credentials: a migration between a file and a keyring.
- What the terminal interface draws.
- Recently played, play log, volume: see the plan.
