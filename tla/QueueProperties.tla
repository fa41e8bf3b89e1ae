-------------------------- MODULE QueueProperties --------------------------
(***************************************************************************)
(* What the queue must guarantee.                                          *)
(***************************************************************************)
EXTENDS Queue

(* Every variable has its type: the slot a removed entry left is a slot of *)
(* the play order, and the history is bounded as the source bounds it.     *)
TypeOK ==
  /\ nextId \in 1..(MaxId + 1)
  /\ items \in Seq(Issued)
  /\ order \in Seq(Issued)
  /\ current \in Issued \cup {None}
  /\ pending \in Issued \cup {None}
  /\ pendingBackward \in BOOLEAN
  /\ history \in Seq(Issued)
  /\ Len(history) <= HistoryLimit
  /\ vacated \in {NoSlot} \cup 0..Len(order)
  /\ repeat \in RepeatModes
  /\ shuffle \in BOOLEAN
  /\ autoplay \in BOOLEAN
  /\ titled \subseteq Untitled

(* inner.rs keeps the list and the play order as two vectors and edits     *)
(* both in every call: whatever the sequence of edits, they hold the same  *)
(* entries, each once, and while not shuffled in the same order.           *)
OrderMatchesItems ==
  /\ Distinct(items)
  /\ Distinct(order)
  /\ ToSet(order) = ToSet(items)
  /\ ~shuffle => order = items

(* The cursor never names an entry that has been removed: neither what is  *)
(* current, nor what has been offered, nor what Previous can go back to;   *)
(* and a vacated slot is remembered only while nothing is current.         *)
CursorIsLive ==
  /\ current \in Ids \cup {None}
  /\ pending \in Ids \cup {None}
  /\ ToSet(history) \subseteq Ids
  /\ vacated # NoSlot => current = None

(* Queue::mutate publishes only when the version moved: every call that    *)
(* changes what a snapshot shows must move it, or subscribers keep showing *)
(* a queue that no longer is.                                              *)
SnapshotIsCurrent == published = Snapshot

(* The engine asks peek what to open ahead and advance what to play, and   *)
(* the source decides the two apart.  With no offer outstanding they give  *)
(* the same answer, and what peek can tell is not decided by advancing: a  *)
(* gapless handover plays what an ordinary advance would have played.      *)
PeekAgreesWithAdvance ==
  [][\A how \in Hows :
       Advance(how) /\ pending = None /\ Peek(how) # Unknown
         => pending' = Peek(how) /\ order' = order]_vars

(* The entries this cycle has still to play, in turn.                      *)
Upcoming == SubSeq(order, Passed(current) + 1, Len(order))

(* The cursor stays with what it was on: only opening, shuffling, starting *)
(* a new cycle or moving an entry may change what is to come.  Adding and  *)
(* removing (even the current entry, and more around the slot it left)     *)
(* neither lose, repeat nor reorder any entry still to be played.          *)
EditsKeepUpcoming ==
  [][Edit =>
       Without(Upcoming', Ids' \ Ids) = Without(Upcoming, Ids \ Ids')]_vars

(* Next, or the end of a track, never offers again the entry it moves on   *)
(* from while there is another one, a reshuffled new cycle included.       *)
ForwardMovesOn ==
  [][\A how \in {"Auto", "Next"} :
       Advance(how) /\ GoesForward(how) /\ InOrder(BaseId) /\ Len(order) >= 2
         => pending' # BaseId]_vars

(* Previous goes back through what was played: when the history has an     *)
(* entry to return to and others remain, it is not the one already         *)
(* playing, which would leave Previous stuck on it.  Refuted: removals     *)
(* bring together entries that were played apart (QueuePrevious).          *)
PreviousLeavesCurrent ==
  current # None /\ Len(order) >= 2 => LastOf(history) # current
=============================================================================
