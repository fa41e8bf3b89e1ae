------------------------------- MODULE Queue -------------------------------
(***************************************************************************)
(* The play queue: crates/phonia-core/src/queue/inner.rs (the sequencing   *)
(* state machine) behind the mutex of queue/mod.rs, which makes each call  *)
(* one step and publishes a snapshot when the call changed the version.    *)
(*                                                                         *)
(* An entry is its id.  Of what an entry carries only whether its title is *)
(* known is kept, since learning it (record_meta) publishes a snapshot.    *)
(* The version counter is represented by whether a call advances it.       *)
(***************************************************************************)
EXTENDS IdSequences, FiniteSetsExt

CONSTANTS
  MaxId,         \* bound: how many entries are ever created
  MaxBatch,      \* bound: how many tracks one call adds
  HistoryLimit,  \* HISTORY_LIMIT
  Untitled       \* the entries added without a title

ASSUME QueueAssumption ==
  /\ MaxId \in Nat
  /\ MaxBatch \in Nat
  /\ HistoryLimit \in Nat \ {0}
  /\ Untitled \subseteq 1..MaxId

VARIABLES
  nextId,           \* the id the next entry gets
  items,            \* the entries as a list shows them
  order,            \* the order they are played in
  current,          \* the entry the engine last opened
  pending,          \* what advance last answered, until something is opened
  pendingBackward,  \* whether that answered Previous
  history,          \* entries played before current, most recent last
  vacated,          \* the slot the removed current entry left, if any
  repeat,
  shuffle,
  autoplay,
  titled,           \* untitled entries whose title has been learnt
  published         \* the snapshot subscribers read

cursor == <<current, pending, pendingBackward, history, vacated>>
settings == <<repeat, shuffle, autoplay>>
vars == <<nextId, items, order, cursor, settings, titled, published>>

(* Option::None for an id (ids start at 1) and for a slot.                 *)
None == 0
NoSlot == -1

RepeatModes == {"Off", "One", "All"}
Hows == {"Restart", "Auto", "Next", "Previous"}

Ids == ToSet(items)
Issued == 1..(nextId - 1)
InOrder(id) == id \in ToSet(order)

Snapshot ==
  [items |-> items, order |-> order, current |-> current, titled |-> titled,
   shuffle |-> shuffle, repeat |-> repeat, autoplay |-> autoplay]

(* Queue::mutate publishes the state a call left, if the version moved.    *)
Publish == published' = Snapshot'

(* The largest index of the history that is still in the queue.            *)
LastLive == Max({0} \cup {i \in DOMAIN history : InOrder(history[i])})

---------------------------------------------------------------------------
(* Editing.                                                                *)

NewIds(n) == [k \in 1..n |-> nextId + k - 1]

\* Mutant: the play order grows at its end, wherever the list does.
InsertInOrderAtEnd(at, new) ==
  order' = order \o new /\ vacated' = vacated

\* Mutant: the slot a removed entry left stays where it is.
InsertInOrderKeepingSlot(at, new) ==
  order' = Spliced(order, at, new) /\ vacated' = vacated

(* insert_in_order: what is put in before the slot a removed entry left    *)
(* pushes it along; what is put in exactly there takes it over.            *)
InsertInOrder(at, new) ==
  /\ order' = Spliced(order, at, new)
  /\ vacated' = IF vacated # NoSlot /\ at < vacated
                  THEN vacated + Len(new) ELSE vacated

AddNew(n, itemsAt, orderAt) ==
  /\ nextId + n - 1 <= MaxId
  /\ nextId' = nextId + n
  /\ items' = Spliced(items, itemsAt, NewIds(n))
  /\ InsertInOrder(orderAt, NewIds(n))
  /\ UNCHANGED <<current, pending, pendingBackward, history, settings, titled>>
  /\ Publish

(* At "at" in the list; at the end of the play order while shuffled.       *)
(* Appending (add) is inserting at the end.                                *)
Insert(at, n) ==
  AddNew(n, at, IF shuffle THEN Len(order) ELSE at)

(* Right after the current entry in both sequences, or at the slot it      *)
(* left, or first.                                                         *)
PlayNext(n) ==
  LET slot(s) == IF current # None /\ current \in ToSet(s)
                   THEN PositionIn(s, current)
                   ELSE IF vacated = NoSlot THEN 0
                   ELSE IF vacated < Len(s) THEN vacated ELSE Len(s)
  IN  AddNew(n, slot(items), slot(order))

\* Mutant: a removed entry can still be gone back to.
PlayedStillThere(ids) == history

PlayedWithout(ids) == Without(history, ids)

(* The entries of "ids" go, in whatever order they are named.  If the      *)
(* current one is among them, the slot it leaves is where the entries that *)
(* preceded it and remain end; a slot left earlier moves the same way.     *)
RemoveIds(ids) ==
  LET left == IF current \in ids \cap Ids THEN PositionIn(order, current) - 1
              ELSE vacated
  IN  /\ ids \cap Ids # {}
      /\ items' = Without(items, ids)
      /\ order' = Without(order, ids)
      /\ vacated' = IF left = NoSlot THEN NoSlot ELSE KeptUpTo(order, ids, left)
      /\ current' = IF current \in ids THEN None ELSE current
      /\ pending' = IF pending \in ids THEN None ELSE pending
      /\ history' = PlayedWithout(ids)
      /\ UNCHANGED <<nextId, pendingBackward, settings, titled>>
      /\ Publish

(* To position "to" of the list, counted after taking the entry out.       *)
MoveTo(id, to) ==
  /\ id \in Ids
  /\ items' = LET rest == RemoveAt(items, PositionIn(items, id))
              IN  Spliced(rest, to, <<id>>)
  /\ order' = IF shuffle THEN order ELSE items'
  /\ UNCHANGED <<nextId, cursor, settings, titled>>
  /\ Publish

Clear ==
  /\ items' = <<>>
  /\ order' = <<>>
  /\ current' = None
  /\ pending' = None
  /\ pendingBackward' = FALSE
  /\ history' = <<>>
  /\ vacated' = NoSlot
  /\ UNCHANGED <<nextId, settings, titled>>
  /\ Publish

\* Mutant: the version does not move, and no snapshot is published.
SetRepeatUnseen(mode) ==
  /\ repeat # mode
  /\ repeat' = mode
  /\ UNCHANGED <<nextId, items, order, cursor, shuffle, autoplay, titled, published>>

SetRepeat(mode) ==
  /\ repeat # mode
  /\ repeat' = mode
  /\ UNCHANGED <<nextId, items, order, cursor, shuffle, autoplay, titled>>
  /\ Publish

SetAutoplay(on) ==
  /\ autoplay # on
  /\ autoplay' = on
  /\ UNCHANGED <<nextId, items, order, cursor, repeat, shuffle, titled>>
  /\ Publish

(* The current entry heads the new order, the rest follow in any order.    *)
Shuffled ==
  LET first == IF current = None THEN <<>> ELSE <<current>>
  IN  {first \o rest : rest \in Arrangements(Ids \ {current})}

SetShuffle(on) ==
  /\ shuffle # on
  /\ shuffle' = on
  /\ IF on THEN order' \in Shuffled ELSE order' = items
  /\ vacated' = NoSlot
  /\ UNCHANGED <<nextId, items, current, pending, pendingBackward, history,
                 repeat, autoplay, titled>>
  /\ Publish

(* Opening an entry that had no title revealed it.                         *)
RecordMeta(id) ==
  /\ id \in Ids
  /\ id \in Untitled \ titled
  /\ titled' = titled \cup {id}
  /\ UNCHANGED <<nextId, items, order, cursor, settings>>
  /\ Publish

---------------------------------------------------------------------------
(* Sequencing.                                                             *)

(* What advance measures from: what it last offered, or what is playing.   *)
BaseId == IF pending # None /\ InOrder(pending) THEN pending ELSE current

(* How many entries of the play order are behind a cursor on "id".         *)
Passed(id) ==
  IF InOrder(id) THEN PositionIn(order, id)
  ELSE IF vacated # NoSlot THEN vacated ELSE 0

FirstOf(s) == IF s = <<>> THEN None ELSE s[1]
LastOf(s) == IF s = <<>> THEN None ELSE s[Len(s)]
Nth(i) == IF i \in DOMAIN order THEN order[i] ELSE None

AtEnd(id) == Passed(id) >= Len(order)

Wraps(how) ==
  \/ how = "Auto" /\ repeat = "All"
  \/ how = "Next" /\ repeat # "Off"

StaysPut(how) == how = "Restart" \/ (how = "Auto" /\ repeat = "One")
GoesForward(how) == how \in {"Auto", "Next"} /\ ~StaysPut(how)

(* A shuffled order that has run out is shuffled again.                    *)
Reshuffles(how, id) ==
  GoesForward(how) /\ Wraps(how) /\ shuffle /\ AtEnd(id) /\ order # <<>>

Forward(how, id) ==
  IF ~AtEnd(id) THEN Nth(Passed(id) + 1)
  ELSE IF Wraps(how) THEN FirstOf(order) ELSE None

(* What was actually played beats what the order says.                     *)
Backward ==
  IF LastLive > 0 THEN history[LastLive]
  ELSE IF InOrder(BaseId)
    THEN IF PositionIn(order, BaseId) = 1
           THEN IF repeat = "All" THEN LastOf(order) ELSE None
           ELSE Nth(PositionIn(order, BaseId) - 1)
  ELSE IF vacated # NoSlot THEN Nth(vacated)
  ELSE FirstOf(order)

Stay(how, id) ==
  IF how = "Auto" /\ id = None THEN FirstOf(order) ELSE id

Target(how) ==
  CASE StaysPut(how) -> Stay(how, BaseId)
    [] GoesForward(how) -> Forward(how, BaseId)
    [] how = "Previous" -> Backward

Offer(how, id) ==
  /\ pending' = id
  /\ pendingBackward' = (how = "Previous" /\ id # None)

\* Mutant: a new cycle may open with the entry that closed the last one.
NewCycleAsShuffled(p, last) == p

(* A new cycle does not open with the entry that closed the last one.      *)
NewCycle(p, last) ==
  IF Len(p) >= 2 /\ p[1] = last THEN [p EXCEPT ![1] = p[2], ![2] = p[1]] ELSE p

AdvanceReshuffling(how) ==
  /\ Reshuffles(how, BaseId)
  /\ \E p \in Arrangements(ToSet(order)) : order' = NewCycle(p, BaseId)
  /\ Offer(how, order'[1])
  /\ UNCHANGED <<nextId, items, current, history, vacated, settings, titled>>
  /\ Publish

AdvanceInOrder(how) ==
  /\ ~Reshuffles(how, BaseId)
  /\ Offer(how, Target(how))
  /\ history' = IF how = "Previous" THEN SubSeq(history, 1, LastLive) ELSE history
  /\ UNCHANGED <<nextId, items, order, current, vacated, settings, titled, published>>

Advance(how) == AdvanceReshuffling(how) \/ AdvanceInOrder(how)

(* What peek answers: an id, None for the end, or that it cannot tell (the *)
(* new cycle of a shuffled order is a decision, not a question).  The      *)
(* source measures and steps here again, from the current entry alone.     *)
Unknown == -2

PeekForward(wraps) ==
  LET next == Passed(current) + 1
  IN  IF next <= Len(order) THEN order[next]
      ELSE IF order = <<>> \/ ~wraps THEN None
      ELSE IF shuffle THEN Unknown ELSE order[1]

\* Mutant: the question forgets that an entry may repeat.
PeekPastRepeat(how) ==
  CASE how = "Restart" -> current
    [] how = "Auto" -> PeekForward(repeat = "All")
    [] how = "Next" -> PeekForward(repeat # "Off")
    [] how = "Previous" -> Unknown

Peek(how) ==
  CASE how = "Restart" -> current
    [] how = "Auto" /\ repeat = "One" ->
         IF current = None THEN FirstOf(order) ELSE current
    [] how = "Auto" /\ repeat # "One" -> PeekForward(repeat = "All")
    [] how = "Next" -> PeekForward(repeat # "Off")
    [] how = "Previous" -> Unknown

\* Mutant: the history grows without end.
RecordedForever(id) == IF current = None THEN history ELSE Append(history, current)

(* What was current goes into the history, unless opening id is a return   *)
(* to it or a step back through the order.                                 *)
Recorded(id) ==
  IF LastOf(history) = id THEN Front(history)
  ELSE IF (pending = id /\ pendingBackward) \/ current = None THEN history
  ELSE IF Len(history) = HistoryLimit THEN Append(Tail(history), current)
  ELSE Append(history, current)

(* The engine opened id.  Opening an entry that has gone changes nothing.  *)
Commit(id) ==
  /\ id \in Ids
  /\ UNCHANGED <<nextId, items, order, settings, titled>>
  /\ pending' = None
  /\ pendingBackward' = FALSE
  /\ vacated' = NoSlot
  /\ IF id = current
       THEN UNCHANGED <<current, history, published>>
       ELSE /\ history' = Recorded(id)
            /\ current' = id
            /\ Publish

---------------------------------------------------------------------------
Init ==
  /\ nextId = 1
  /\ items = <<>>
  /\ order = <<>>
  /\ current = None
  /\ pending = None
  /\ pendingBackward = FALSE
  /\ history = <<>>
  /\ vacated = NoSlot
  /\ repeat = "Off"
  /\ shuffle = FALSE
  /\ autoplay = FALSE
  /\ titled = {}
  /\ published = Snapshot

Edit ==
  \/ \E n \in 1..MaxBatch : PlayNext(n) \/ \E at \in 0..Len(items) : Insert(at, n)
  \/ \E ids \in SUBSET Issued : RemoveIds(ids)
  \/ Clear
  \/ \E id \in Issued : RecordMeta(id)

Rearrange ==
  \/ \E id \in Ids : \E to \in 0..(Len(items) - 1) : MoveTo(id, to)
  \/ \E on \in BOOLEAN : SetShuffle(on) \/ SetAutoplay(on)
  \/ \E mode \in RepeatModes : SetRepeat(mode)

Sequence ==
  \/ \E how \in Hows : Advance(how)
  \/ \E id \in Issued : Commit(id)

Next == Edit \/ Rearrange \/ Sequence

Spec == Init /\ [][Next]_vars
=============================================================================
