----------------------------- MODULE QueueProofs -----------------------------
(***************************************************************************)
(* For any number of entries, any history limit and any batch: the types,  *)
(* the agreement of the list and the play order, the cursor's entries and  *)
(* the published snapshot are preserved by every call of the queue; going  *)
(* forward moves on, peek agrees with advance, and an edit keeps what is   *)
(* still to be played.                                                     *)
(***************************************************************************)
EXTENDS QueueProperties, IdSequenceLemmas

(* The inductive invariant.  The conjuncts need each other: an entry is    *)
(* put in at a slot of both vectors because they are equal while not       *)
(* shuffled, new identifiers are new because every identifier in the queue *)
(* was issued, and a vacated slot stays within the order because the order *)
(* keeps its length when it is rearranged.                                 *)
Inv == TypeOK /\ OrderMatchesItems /\ CursorIsLive /\ SnapshotIsCurrent

(* Identifiers are positive, so None is not one, and nextId is a number.   *)
LEMMA IdsArePositive ==
  ASSUME TypeOK
  PROVE  nextId \in Nat \ {0} /\ None \notin Issued /\ Issued \subseteq Nat
BY QueueAssumption DEF TypeOK, Issued, None

(* What is in the list and what is in the play order was issued.           *)
LEMMA EntriesAreIssued ==
  ASSUME TypeOK
  PROVE  Ids \subseteq Issued /\ ToSet(order) \subseteq Issued
<1>1. items \in Seq(Issued) /\ order \in Seq(Issued)
  BY DEF TypeOK
<1>2. /\ DOMAIN items = 1..Len(items) /\ DOMAIN order = 1..Len(order)
      /\ \A i \in DOMAIN items : items[i] \in Issued
      /\ \A i \in DOMAIN order : order[i] \in Issued
  BY <1>1, LenProperties, ElementOfSeq
<1> QED BY <1>2 DEF Ids, ToSet

LEMMA InitInv == Init => Inv
<1> SUFFICES ASSUME Init PROVE Inv
  OBVIOUS
<1>1. <<>> \in Seq(Issued) /\ Len(<<>>) = 0 /\ ToSet(<<>>) = {}
  BY EmptySeq DEF ToSet
<1>2. TypeOK
  <2>1. nextId \in 1..(MaxId + 1) /\ Len(history) <= HistoryLimit
    BY <1>1, QueueAssumption DEF Init
  <2>2. /\ items \in Seq(Issued) /\ order \in Seq(Issued) /\ history \in Seq(Issued)
    BY <1>1 DEF Init
  <2>3. /\ repeat \in RepeatModes /\ pendingBackward \in BOOLEAN /\ shuffle \in BOOLEAN
        /\ autoplay \in BOOLEAN /\ titled \subseteq Untitled
        /\ current \in Issued \cup {None} /\ pending \in Issued \cup {None}
        /\ vacated \in {NoSlot} \cup 0..Len(order)
    BY DEF Init, RepeatModes
  <2> QED BY <2>1, <2>2, <2>3 DEF TypeOK
<1>3. OrderMatchesItems
  BY DEF Init, OrderMatchesItems, Distinct
<1>4. CursorIsLive
  BY <1>1 DEF Init, CursorIsLive, Ids, NoSlot
<1> QED BY <1>2, <1>3, <1>4 DEF Init, Inv, SnapshotIsCurrent

(* The identifiers of a batch are new and distinct.                        *)
LEMMA NewIdsProperties ==
  ASSUME TypeOK, NEW n \in Nat, nextId' = nextId + n
  PROVE  /\ NewIds(n) \in Seq(Issued') /\ Len(NewIds(n)) = n
         /\ ToSet(NewIds(n)) \cap Issued = {}
         /\ Distinct(NewIds(n))
         /\ Issued \subseteq Issued'
<1>1. nextId \in Nat \ {0}
  BY IdsArePositive
<1>2. NewIds(n) \in [1..n -> Issued']
  BY <1>1 DEF NewIds, Issued
<1>3. NewIds(n) \in Seq(Issued') /\ Len(NewIds(n)) = n /\ DOMAIN NewIds(n) = 1..n
  BY <1>2
<1>4. \A k \in 1..n : NewIds(n)[k] = nextId + k - 1
  BY DEF NewIds
<1>5. ToSet(NewIds(n)) \cap Issued = {}
  BY <1>1, <1>3, <1>4 DEF ToSet, Issued
<1>6. Distinct(NewIds(n))
  BY <1>1, <1>3, <1>4 DEF Distinct
<1>7. Issued \subseteq Issued'
  BY <1>1 DEF Issued
<1> QED BY <1>3, <1>5, <1>6, <1>7

(* A batch goes in at any place of the list, and at the same place of the  *)
(* play order unless it is shuffled.                                       *)
LEMMA AddNewInv ==
  ASSUME Inv, NEW n \in 1..MaxBatch,
         NEW itemsAt \in 0..Len(items), NEW orderAt \in 0..Len(order),
         ~shuffle => itemsAt = orderAt,
         AddNew(n, itemsAt, orderAt)
  PROVE  Inv'
<1> DEFINE new == NewIds(n)
<1>1. n \in Nat /\ nextId' = nextId + n /\ nextId + n - 1 <= MaxId
  BY QueueAssumption DEF AddNew
<1>2. /\ new \in Seq(Issued') /\ Len(new) = n
      /\ ToSet(new) \cap Issued = {} /\ Distinct(new) /\ Issued \subseteq Issued'
  BY <1>1, NewIdsProperties DEF Inv
<1>3. /\ items' = Spliced(items, itemsAt, new)
      /\ order' = Spliced(order, orderAt, new)
      /\ vacated' = IF vacated # NoSlot /\ orderAt < vacated
                      THEN vacated + Len(new) ELSE vacated
      /\ UNCHANGED <<current, pending, pendingBackward, history, repeat,
                     shuffle, autoplay, titled>>
      /\ published' = Snapshot'
  BY DEF AddNew, InsertInOrder, Publish, settings
<1> HIDE DEF new
<1>4. /\ items \in Seq(Issued') /\ order \in Seq(Issued') /\ history \in Seq(Issued')
  BY <1>2, SeqMonotonic DEF Inv, TypeOK
<1>5. ToSet(items) \cap ToSet(new) = {} /\ ToSet(order) \cap ToSet(new) = {}
  BY <1>2, EntriesAreIssued DEF Inv, Ids
<1>6. /\ items' \in Seq(Issued') /\ ToSet(items') = ToSet(items) \cup ToSet(new)
      /\ Distinct(items')
  <2>1. Distinct(items)
    BY DEF Inv, OrderMatchesItems
  <2>a. ToSet(items) \cap ToSet(new) = {} /\ Distinct(new)
    BY <1>2, <1>5
  <2>b. items \in Seq(Issued') /\ new \in Seq(Issued')
    BY <1>2, <1>4
  <2>2. /\ Spliced(items, itemsAt, new) \in Seq(Issued')
        /\ Len(Spliced(items, itemsAt, new)) = Len(items) + Len(new)
        /\ ToSet(Spliced(items, itemsAt, new)) = ToSet(items) \cup ToSet(new)
    BY <2>b, SplicedProperties
  <2>3. Distinct(Spliced(items, itemsAt, new))
    BY <2>a, <2>b, <2>1, SplicedProperties
  <2> QED BY <1>2, <1>3, <2>2, <2>3
<1>7. /\ order' \in Seq(Issued') /\ ToSet(order') = ToSet(order) \cup ToSet(new)
      /\ Distinct(order') /\ Len(order') = Len(order) + n
  <2>1. Distinct(order)
    BY DEF Inv, OrderMatchesItems
  <2>a. ToSet(order) \cap ToSet(new) = {} /\ Distinct(new)
    BY <1>2, <1>5
  <2>b. order \in Seq(Issued') /\ new \in Seq(Issued')
    BY <1>2, <1>4
  <2>2. /\ Spliced(order, orderAt, new) \in Seq(Issued')
        /\ Len(Spliced(order, orderAt, new)) = Len(order) + Len(new)
        /\ ToSet(Spliced(order, orderAt, new)) = ToSet(order) \cup ToSet(new)
    BY <2>b, SplicedProperties
  <2>3. Distinct(Spliced(order, orderAt, new))
    BY <2>a, <2>b, <2>1, SplicedProperties
  <2> QED BY <1>2, <1>3, <2>2, <2>3
<1>8. ~shuffle' => order' = items'
  BY <1>3 DEF Inv, OrderMatchesItems
<1>9. nextId' \in 1..(MaxId + 1)
  BY <1>1, QueueAssumption DEF Inv, TypeOK
<1>10. vacated' \in {NoSlot} \cup 0..Len(order')
  <2>1. vacated \in {NoSlot} \cup 0..Len(order) /\ Len(order) \in Nat
    BY <1>4, LenProperties DEF Inv, TypeOK
  <2> QED BY <2>1, <1>1, <1>2, <1>3, <1>7 DEF NoSlot
<1>11. TypeOK'
  BY <1>2, <1>3, <1>4, <1>6, <1>7, <1>9, <1>10 DEF Inv, TypeOK
<1>12. OrderMatchesItems'
  BY <1>6, <1>7, <1>8 DEF Inv, OrderMatchesItems
<1>13. CursorIsLive'
  <2>1. Ids' = Ids \cup ToSet(new)
    BY <1>6 DEF Ids
  <2>2. vacated' # NoSlot => vacated # NoSlot
    BY <1>3
  <2> QED BY <2>1, <2>2, <1>3 DEF Inv, CursorIsLive
<1> QED BY <1>3, <1>11, <1>12, <1>13 DEF Inv, SnapshotIsCurrent

(* A batch put in at one place of both sequences, while not shuffled.      *)
Adds(n) ==
  \E itemsAt \in 0..Len(items), orderAt \in 0..Len(order) :
    (~shuffle => itemsAt = orderAt) /\ AddNew(n, itemsAt, orderAt)

(* Both places Insert and PlayNext choose are places of their sequence.    *)
LEMMA InsertAdds ==
  ASSUME Inv, NEW n \in 1..MaxBatch, NEW at \in 0..Len(items), Insert(at, n)
  PROVE  Adds(n)
<1>1. Len(order) \in Nat
  BY LenProperties DEF Inv, TypeOK
<1>2. ~shuffle => Len(order) = Len(items)
  BY DEF Inv, OrderMatchesItems
<1> DEFINE orderAt == IF shuffle THEN Len(order) ELSE at
<1>3. orderAt \in 0..Len(order) /\ (~shuffle => at = orderAt)
  BY <1>1, <1>2
<1>4. AddNew(n, at, orderAt)
  BY DEF Insert
<1> HIDE DEF orderAt
<1> QED BY <1>3, <1>4 DEF Adds

LEMMA PlayNextAdds ==
  ASSUME Inv, NEW n \in 1..MaxBatch, PlayNext(n)
  PROVE  Adds(n)
<1> DEFINE slot(s) == IF current # None /\ current \in ToSet(s)
                        THEN PositionIn(s, current)
                        ELSE IF vacated = NoSlot THEN 0
                        ELSE IF vacated < Len(s) THEN vacated ELSE Len(s)
<1>1. ASSUME NEW s \in Seq(Issued) PROVE slot(s) \in 0..Len(s)
  <2>1. Len(s) \in Nat /\ DOMAIN s = 1..Len(s)
    BY LenProperties
  <2>2. current \in ToSet(s) => PositionIn(s, current) \in 1..Len(s)
    BY <2>1, PositionInProperties
  <2>3. vacated = NoSlot \/ vacated \in Nat
    BY LenProperties DEF Inv, TypeOK
  <2> QED BY <2>1, <2>2, <2>3
<1>2. slot(items) \in 0..Len(items) /\ slot(order) \in 0..Len(order)
  BY <1>1 DEF Inv, TypeOK
<1>3. ~shuffle => slot(items) = slot(order)
  BY DEF Inv, OrderMatchesItems
<1>4. AddNew(n, slot(items), slot(order))
  BY DEF PlayNext
<1> HIDE DEF slot
<1> QED BY <1>2, <1>3, <1>4 DEF Adds

LEMMA AddsInv ==
  ASSUME Inv, NEW n \in 1..MaxBatch, Adds(n)
  PROVE  Inv'
BY AddNewInv DEF Adds

(* Removing: the slot left by the current entry, or an earlier one, is     *)
(* where the entries that precede it and remain end.                       *)
LEMMA RemoveInv ==
  ASSUME Inv, NEW ids, ids \subseteq Issued, RemoveIds(ids)
  PROVE  Inv'
<1> DEFINE left == IF current \in ids \cap Ids THEN PositionIn(order, current) - 1
                   ELSE vacated
<1>1. /\ items' = Without(items, ids)
      /\ order' = Without(order, ids)
      /\ vacated' = IF left = NoSlot THEN NoSlot ELSE KeptUpTo(order, ids, left)
      /\ current' = IF current \in ids THEN None ELSE current
      /\ pending' = IF pending \in ids THEN None ELSE pending
      /\ history' = Without(history, ids)
      /\ UNCHANGED <<nextId, pendingBackward, repeat, shuffle, autoplay, titled>>
      /\ published' = Snapshot'
  BY DEF RemoveIds, PlayedWithout, Publish, settings
<1>2. Issued' = Issued
  BY <1>1 DEF Issued
<1>3. /\ items \in Seq(Issued) /\ order \in Seq(Issued) /\ history \in Seq(Issued)
      /\ Len(order) \in Nat /\ Len(history) \in Nat /\ DOMAIN order = 1..Len(order)
  BY LenProperties DEF Inv, TypeOK
<1>4. left \in {NoSlot} \cup 0..Len(order)
  <2>1. CASE current \in ids \cap Ids
    <3>1. current \in ToSet(order)
      BY <2>1 DEF Inv, OrderMatchesItems, Ids
    <3>2. PositionIn(order, current) \in 1..Len(order)
      BY <3>1, <1>3, PositionInProperties
    <3> QED BY <2>1, <3>2, <1>3
  <2>2. CASE current \notin ids \cap Ids
    BY <2>2 DEF Inv, TypeOK
  <2> QED BY <2>1, <2>2
<1> HIDE DEF left
<1>5. /\ items' \in Seq(Issued) /\ ToSet(items') = ToSet(items) \ ids
      /\ Distinct(items')
  BY <1>1, <1>3, WithoutProperties DEF Inv, OrderMatchesItems
<1>6. /\ order' \in Seq(Issued) /\ ToSet(order') = ToSet(order) \ ids
      /\ Distinct(order')
      /\ \A i \in 0..Len(order) : KeptUpTo(order, ids, i) \in 0..Len(order')
  BY <1>1, <1>3, WithoutProperties DEF Inv, OrderMatchesItems
<1>7. /\ history' \in Seq(Issued) /\ ToSet(history') = ToSet(history) \ ids
      /\ Len(history') <= Len(history)
  BY <1>1, <1>3, WithoutProperties
<1>8. Len(history') <= HistoryLimit
  <2>1. Len(history') \in Nat
    BY <1>7, LenProperties
  <2> QED BY <2>1, <1>3, <1>7, QueueAssumption DEF Inv, TypeOK
<1>9. vacated' \in {NoSlot} \cup 0..Len(order')
  BY <1>1, <1>4, <1>6
<1>10. /\ current' \in (Issued \ ids) \cup {None}
       /\ pending' \in (Issued \ ids) \cup {None}
  BY <1>1 DEF Inv, TypeOK
<1>11. TypeOK'
  BY <1>1, <1>2, <1>5, <1>6, <1>7, <1>8, <1>9, <1>10 DEF Inv, TypeOK
<1>12. OrderMatchesItems'
  <2>1. ~shuffle' => order' = items'
    BY <1>1 DEF Inv, OrderMatchesItems
  <2> QED BY <2>1, <1>5, <1>6 DEF Inv, OrderMatchesItems
<1>13. CursorIsLive'
  <2>1. Ids' = Ids \ ids
    BY <1>5 DEF Ids
  <2>2. current' \in Ids' \cup {None} /\ pending' \in Ids' \cup {None}
    BY <2>1, <1>1 DEF Inv, CursorIsLive
  <2>3. ToSet(history') \subseteq Ids'
    BY <2>1, <1>7 DEF Inv, CursorIsLive
  <2>4. None \notin ids
    BY IdsArePositive DEF Inv
  <2>5. vacated' # NoSlot => current' = None
    BY <1>1, <2>4 DEF left, Inv, CursorIsLive
  <2> QED BY <2>2, <2>3, <2>5 DEF CursorIsLive
<1> QED BY <1>1, <1>11, <1>12, <1>13 DEF Inv, SnapshotIsCurrent

(* Moving an entry keeps the entries and their number.                     *)
LEMMA MoveInv ==
  ASSUME Inv, NEW id \in Ids, NEW to \in 0..(Len(items) - 1), MoveTo(id, to)
  PROVE  Inv'
<1> DEFINE at == PositionIn(items, id)
           rest == RemoveAt(items, at)
           one == <<id>>
<1>1. /\ items' = Spliced(rest, to, one)
      /\ order' = IF shuffle THEN order ELSE items'
      /\ UNCHANGED <<nextId, current, pending, pendingBackward, history, vacated,
                     repeat, shuffle, autoplay, titled>>
      /\ published' = Snapshot'
  BY DEF MoveTo, cursor, settings, Publish
<1>2. Issued' = Issued
  BY <1>1 DEF Issued
<1>3. items \in Seq(Issued) /\ Distinct(items) /\ Len(items) \in Nat
  BY LenProperties DEF Inv, TypeOK, OrderMatchesItems
<1>4. at \in DOMAIN items /\ items[at] = id /\ id \in Issued
  BY PositionInProperties, EntriesAreIssued DEF Ids, Inv
<1> HIDE DEF at
<1>5. /\ rest \in Seq(Issued) /\ Len(rest) = Len(items) - 1
      /\ ToSet(rest) = Ids \ {id} /\ Distinct(rest)
  BY <1>3, <1>4, RemoveAtProperties DEF Ids
<1>6. /\ one \in Seq(Issued) /\ Len(one) = 1
      /\ ToSet(one) = {id} /\ Distinct(one)
  BY <1>4 DEF ToSet, Distinct
<1> HIDE DEF rest, one
<1>7. ToSet(rest) \cap ToSet(one) = {} /\ to \in 0..Len(rest)
  BY <1>5, <1>6
<1>8. /\ items' \in Seq(Issued) /\ Len(items') = Len(items)
      /\ ToSet(items') = ToSet(items)
  <2>1. /\ items' \in Seq(Issued)
        /\ Len(items') = Len(rest) + Len(one)
        /\ ToSet(items') = ToSet(rest) \cup ToSet(one)
    <3>1. rest \in Seq(Issued) /\ one \in Seq(Issued) /\ to \in 0..Len(rest)
      BY <1>5, <1>6, <1>7
    <3>2. /\ Spliced(rest, to, one) \in Seq(Issued)
          /\ Len(Spliced(rest, to, one)) = Len(rest) + Len(one)
          /\ ToSet(Spliced(rest, to, one)) = ToSet(rest) \cup ToSet(one)
      BY <3>1, SplicedProperties
    <3> QED BY <1>1, <3>2
  <2> QED BY <2>1, <1>3, <1>5, <1>6 DEF Ids
<1>9. Distinct(items')
  BY <1>1, <1>5, <1>6, <1>7, SplicedProperties
<1>10. /\ order' \in Seq(Issued) /\ Len(order') = Len(order)
       /\ ToSet(order') = ToSet(items') /\ Distinct(order')
       /\ ~shuffle' => order' = items'
  BY <1>1, <1>8, <1>9 DEF Inv, TypeOK, OrderMatchesItems
<1>11. TypeOK'
  BY <1>1, <1>2, <1>8, <1>10 DEF Inv, TypeOK
<1>12. OrderMatchesItems'
  BY <1>9, <1>10 DEF OrderMatchesItems
<1>13. CursorIsLive'
  <2>1. Ids' = Ids
    BY <1>8 DEF Ids
  <2> QED BY <2>1, <1>1 DEF Inv, CursorIsLive
<1> QED BY <1>1, <1>11, <1>12, <1>13 DEF Inv, SnapshotIsCurrent

(* Clearing empties both sequences and the cursor.                         *)
LEMMA ClearInv ==
  ASSUME Inv, Clear
  PROVE  Inv'
<1>1. /\ items' = <<>> /\ order' = <<>> /\ current' = None /\ pending' = None
      /\ pendingBackward' = FALSE /\ history' = <<>> /\ vacated' = NoSlot
      /\ UNCHANGED <<nextId, repeat, shuffle, autoplay, titled>>
      /\ published' = Snapshot'
  BY DEF Clear, settings, Publish
<1>2. <<>> \in Seq(Issued') /\ Len(<<>>) = 0 /\ ToSet(<<>>) = {} /\ Distinct(<<>>)
  BY EmptySeq DEF ToSet, Distinct
<1>3. Len(history') <= HistoryLimit
  BY <1>1, <1>2, QueueAssumption
<1>4. TypeOK'
  BY <1>1, <1>2, <1>3 DEF Inv, TypeOK
<1>5. OrderMatchesItems'
  BY <1>1, <1>2 DEF OrderMatchesItems
<1>6. CursorIsLive'
  BY <1>1, <1>2 DEF CursorIsLive, Ids
<1> QED BY <1>1, <1>4, <1>5, <1>6 DEF Inv, SnapshotIsCurrent

(* The settings and the titles are apart from the entries; a change of     *)
(* either publishes.                                                       *)
LEMMA SettingsInv ==
  ASSUME Inv,
         \/ \E mode \in RepeatModes : SetRepeat(mode)
         \/ \E on \in BOOLEAN : SetAutoplay(on)
         \/ \E id \in Issued : RecordMeta(id)
  PROVE  Inv'
<1>1. /\ UNCHANGED <<nextId, items, order, current, pending, pendingBackward,
                     history, vacated, shuffle>>
      /\ repeat' \in RepeatModes /\ autoplay' \in BOOLEAN /\ titled' \subseteq Untitled
      /\ published' = Snapshot'
  BY DEF SetRepeat, SetAutoplay, RecordMeta, Publish, cursor, settings, Inv, TypeOK
<1>2. TypeOK'
  BY <1>1 DEF Inv, TypeOK, Issued
<1>3. OrderMatchesItems' /\ CursorIsLive'
  BY <1>1 DEF Inv, OrderMatchesItems, CursorIsLive, Ids
<1> QED BY <1>1, <1>2, <1>3 DEF Inv, SnapshotIsCurrent

(* A shuffled order holds the entries of the list, each once.              *)
LEMMA ShuffledProperties ==
  ASSUME Inv, NEW p \in Shuffled
  PROVE  p \in Seq(Issued) /\ ToSet(p) = Ids /\ Distinct(p)
<1> DEFINE others == Ids \ {current}
<1>1. IsFiniteSet(Ids)
  BY DistinctCardinality DEF Inv, TypeOK, OrderMatchesItems, Ids
<1>2. IsFiniteSet(others)
  BY <1>1, FS_Difference
<1>3. PICK rest \in Arrangements(others) :
        p = (IF current = None THEN <<>> ELSE <<current>>) \o rest
  BY DEF Shuffled
<1>4. rest \in Seq(others) /\ ToSet(rest) = others /\ Distinct(rest)
  BY <1>2, ArrangementsProperties
<1>5. rest \in Seq(Issued)
  BY <1>4, EntriesAreIssued, SeqMonotonic DEF Inv
<1>6. CASE current = None
  <2>1. p = rest
    BY <1>3, <1>5, <1>6, ConcatEmptySeq
  <2>2. None \notin Ids
    BY IdsArePositive, EntriesAreIssued DEF Inv
  <2> QED BY <2>1, <2>2, <1>4, <1>5, <1>6
<1>7. CASE current # None
  <2>1. current \in Ids /\ current \in Issued
    BY <1>7 DEF Inv, CursorIsLive, TypeOK
  <2>2. p = <<current>> \o rest
    BY <1>3, <1>7
  <2>3. /\ <<current>> \o rest \in Seq(Issued) /\ Distinct(<<current>> \o rest)
        /\ ToSet(<<current>> \o rest) = {current} \cup ToSet(rest)
    BY <2>1, <1>4, <1>5, PutFirst
  <2> QED BY <2>1, <2>2, <2>3, <1>4
<1> QED BY <1>6, <1>7

LEMMA SetShuffleInv ==
  ASSUME Inv, NEW on \in BOOLEAN, SetShuffle(on)
  PROVE  Inv'
<1>1. /\ shuffle' = on /\ vacated' = NoSlot
      /\ IF on THEN order' \in Shuffled ELSE order' = items
      /\ UNCHANGED <<nextId, items, current, pending, pendingBackward, history,
                     repeat, autoplay, titled>>
      /\ published' = Snapshot'
  BY DEF SetShuffle, Publish
<1>2. /\ order' \in Seq(Issued) /\ ToSet(order') = Ids /\ Distinct(order')
      /\ ~on => order' = items
  BY <1>1, ShuffledProperties DEF Inv, TypeOK, OrderMatchesItems, Ids
<1>3. TypeOK'
  BY <1>1, <1>2 DEF Inv, TypeOK, Issued
<1>4. OrderMatchesItems' /\ CursorIsLive'
  BY <1>1, <1>2 DEF Inv, OrderMatchesItems, CursorIsLive, Ids
<1> QED BY <1>1, <1>3, <1>4 DEF Inv, SnapshotIsCurrent

(* The last entry of the history still in the queue is one of its places,  *)
(* or none.                                                                *)
LEMMA LastLiveProperties ==
  ASSUME Inv
  PROVE  /\ LastLive \in 0..Len(history)
         /\ LastLive > 0 => history[LastLive] \in Ids
<1> DEFINE T == {0} \cup {i \in DOMAIN history : InOrder(history[i])}
<1>1. Len(history) \in Nat /\ DOMAIN history = 1..Len(history)
  BY LenProperties DEF Inv, TypeOK
<1>2. T \subseteq 0..Len(history) /\ T # {}
  BY <1>1
<1>3. PICK x \in T : \A y \in T : y <= x
  BY <1>1, <1>2, GreatestNatural
<1>4. LastLive = CHOOSE m \in T : \A y \in T : m >= y
  BY DEF LastLive, Max
<1>5. LastLive \in T
  <2>1. \A y \in T : x >= y
    BY <1>3, <1>2, <1>1
  <2> QED BY <2>1, <1>3, <1>4
<1>6. LastLive > 0 => history[LastLive] \in ToSet(order)
  BY <1>5 DEF InOrder
<1> QED BY <1>2, <1>5, <1>6 DEF Inv, OrderMatchesItems, Ids

(* A new cycle is an arrangement of the same entries.                      *)
LEMMA NewCycleProperties ==
  ASSUME NEW S, NEW p \in Seq(S), Distinct(p), NEW last
  PROVE  /\ NewCycle(p, last) \in Seq(S)
         /\ Len(NewCycle(p, last)) = Len(p)
         /\ ToSet(NewCycle(p, last)) = ToSet(p)
         /\ Distinct(NewCycle(p, last))
<1>1. Len(p) \in Nat /\ DOMAIN p = 1..Len(p) /\ \A i \in DOMAIN p : p[i] \in S
  BY LenProperties, ElementOfSeq
<1>2. CASE ~(Len(p) >= 2 /\ p[1] = last)
  BY <1>2 DEF NewCycle
<1>3. CASE Len(p) >= 2 /\ p[1] = last
  <2> DEFINE r == NewCycle(p, last)
  <2>1. r = [p EXCEPT ![1] = p[2], ![2] = p[1]]
    BY <1>3 DEF NewCycle
  <2>2. /\ p \in [1..Len(p) -> S] /\ 1 \in 1..Len(p) /\ 2 \in 1..Len(p)
    BY <1>1, <1>3, LenProperties
  <2> HIDE DEF r
  <2>3. /\ r \in [1..Len(p) -> S] /\ DOMAIN r = 1..Len(p)
        /\ r[1] = p[2] /\ r[2] = p[1]
        /\ \A i \in 1..Len(p) : i # 1 /\ i # 2 => r[i] = p[i]
    BY <2>1, <2>2, <1>1
  <2>4. r \in Seq(S) /\ Len(r) = Len(p)
    BY <2>3, <1>1
  <2>5. ToSet(r) = ToSet(p)
    <3>1. ASSUME NEW i \in 1..Len(p) PROVE r[i] \in ToSet(p)
      BY <2>2, <2>3, <1>1 DEF ToSet
    <3>2. ASSUME NEW i \in 1..Len(p) PROVE p[i] \in ToSet(r)
      BY <2>2, <2>3, <1>1 DEF ToSet
    <3> QED BY <3>1, <3>2, <2>3, <1>1 DEF ToSet
  <2>6. Distinct(r)
    BY <2>2, <2>3, <1>1 DEF Distinct
  <2> QED BY <2>4, <2>5, <2>6 DEF r
<1> QED BY <1>2, <1>3

LEMMA AdvanceReshufflingInv ==
  ASSUME Inv, NEW how \in Hows, AdvanceReshuffling(how)
  PROVE  Inv'
<1>1. PICK p \in Arrangements(ToSet(order)) : order' = NewCycle(p, BaseId)
  BY DEF AdvanceReshuffling
<1>2. /\ pending' = order'[1]
      /\ pendingBackward' \in BOOLEAN
      /\ UNCHANGED <<nextId, items, current, history, vacated, repeat, shuffle,
                     autoplay, titled>>
      /\ published' = Snapshot'
      /\ shuffle /\ order # <<>>
  BY DEF AdvanceReshuffling, Reshuffles, Offer, Publish, settings
<1>3. order \in Seq(Issued) /\ Distinct(order) /\ Len(order) \in Nat
  BY LenProperties DEF Inv, TypeOK, OrderMatchesItems
<1>4. IsFiniteSet(ToSet(order)) /\ Cardinality(ToSet(order)) = Len(order)
  BY <1>3, DistinctCardinality
<1>5. /\ p \in Seq(ToSet(order)) /\ Len(p) = Len(order)
      /\ ToSet(p) = ToSet(order) /\ Distinct(p)
  BY <1>4, ArrangementsProperties
<1>6. p \in Seq(Issued)
  BY <1>5, EntriesAreIssued, SeqMonotonic DEF Inv
<1>7. /\ order' \in Seq(Issued) /\ Len(order') = Len(order)
      /\ ToSet(order') = ToSet(order) /\ Distinct(order')
  BY <1>1, <1>5, <1>6, NewCycleProperties
<1>8. pending' \in Ids /\ pending' \in Issued
  <2>1. Len(order) > 0
    BY <1>2, <1>3, EmptySeq
  <2>2. 1 \in DOMAIN order' /\ order'[1] \in Issued
    BY <1>3, <1>7, <2>1, LenProperties, ElementOfSeq
  <2>3. order'[1] \in ToSet(order')
    BY <2>2 DEF ToSet
  <2> QED BY <1>2, <1>7, <2>2, <2>3 DEF Inv, OrderMatchesItems, Ids
<1>9. TypeOK'
  BY <1>2, <1>7, <1>8 DEF Inv, TypeOK, Issued
<1>10. OrderMatchesItems'
  BY <1>2, <1>7 DEF Inv, OrderMatchesItems
<1>11. CursorIsLive'
  BY <1>2, <1>8 DEF Inv, CursorIsLive, Ids
<1> QED BY <1>2, <1>9, <1>10, <1>11 DEF Inv, SnapshotIsCurrent

(* Whatever is asked of it, the queue offers one of its entries or none.   *)
LEMMA TargetIsLive ==
  ASSUME Inv, NEW how \in Hows
  PROVE  Target(how) \in Ids \cup {None}
<1> DEFINE Offers == Ids \cup {None}
<1>1. ToSet(order) = Ids /\ DOMAIN order = 1..Len(order) /\ Len(order) \in Nat
  BY LenProperties DEF Inv, TypeOK, OrderMatchesItems, Ids
<1>2. \A i \in DOMAIN order : order[i] \in Ids
  BY <1>1 DEF ToSet
<1>3. \A i : Nth(i) \in Offers
  BY <1>2 DEF Nth
<1>4. FirstOf(order) \in Offers /\ LastOf(order) \in Offers
  <2>1. order # <<>> => Len(order) > 0
    BY <1>1, EmptySeq DEF Inv, TypeOK
  <2> QED BY <1>1, <1>2, <2>1 DEF FirstOf, LastOf
<1>5. BaseId \in Offers
  BY DEF BaseId, Inv, CursorIsLive
<1>6. Forward(how, BaseId) \in Offers /\ Stay(how, BaseId) \in Offers
  BY <1>3, <1>4, <1>5 DEF Forward, Stay
<1>7. Backward \in Offers
  BY <1>3, <1>4, LastLiveProperties DEF Backward
<1>8. StaysPut(how) \/ GoesForward(how) \/ how = "Previous"
  BY DEF StaysPut, GoesForward, Hows
<1> QED BY <1>6, <1>7, <1>8 DEF Target

LEMMA AdvanceInOrderInv ==
  ASSUME Inv, NEW how \in Hows, AdvanceInOrder(how)
  PROVE  Inv'
<1>1. /\ pending' = Target(how)
      /\ pendingBackward' \in BOOLEAN
      /\ history' = IF how = "Previous" THEN SubSeq(history, 1, LastLive) ELSE history
      /\ UNCHANGED <<nextId, items, order, current, vacated, repeat, shuffle,
                     autoplay, titled, published>>
  BY DEF AdvanceInOrder, Offer, settings
<1>2. pending' \in Ids \cup {None} /\ pending' \in Issued \cup {None}
  BY <1>1, TargetIsLive, EntriesAreIssued DEF Inv
<1>3. /\ history' \in Seq(Issued) /\ Len(history') <= HistoryLimit
      /\ ToSet(history') \subseteq ToSet(history)
  <2>1. history \in Seq(Issued) /\ Len(history) \in Nat /\ Len(history) <= HistoryLimit
    BY LenProperties DEF Inv, TypeOK
  <2>2. LastLive \in 0..Len(history)
    BY LastLiveProperties
  <2>3. /\ SubSeq(history, 1, LastLive) \in Seq(Issued)
        /\ Len(SubSeq(history, 1, LastLive)) = LastLive
        /\ ToSet(SubSeq(history, 1, LastLive)) \subseteq ToSet(history)
    BY <2>1, <2>2, BeginningProperties
  <2> QED BY <2>1, <2>2, <2>3, <1>1, QueueAssumption
<1>4. TypeOK'
  BY <1>1, <1>2, <1>3 DEF Inv, TypeOK, Issued
<1>5. OrderMatchesItems' /\ CursorIsLive'
  BY <1>1, <1>2, <1>3 DEF Inv, OrderMatchesItems, CursorIsLive, Ids
<1> QED BY <1>1, <1>4, <1>5 DEF Inv, SnapshotIsCurrent, Snapshot

(* The history stays within its limit, and holds what is in the queue.     *)
LEMMA RecordedProperties ==
  ASSUME Inv, NEW id \in Ids
  PROVE  /\ Recorded(id) \in Seq(Issued)
         /\ Len(Recorded(id)) <= HistoryLimit
         /\ ToSet(Recorded(id)) \subseteq Ids
<1>1. /\ history \in Seq(Issued) /\ Len(history) \in Nat /\ Len(history) <= HistoryLimit
      /\ ToSet(history) \subseteq Ids /\ HistoryLimit \in Nat \ {0}
  BY LenProperties, QueueAssumption DEF Inv, TypeOK, CursorIsLive
<1>2. CASE LastOf(history) = id
  <2>1. history # <<>>
    BY <1>2, IdsArePositive, EntriesAreIssued DEF LastOf, Inv
  <2>2. Len(history) - 1 \in 0..Len(history)
    BY <2>1, <1>1, EmptySeq
  <2>3. /\ Front(history) \in Seq(Issued) /\ Len(Front(history)) = Len(history) - 1
        /\ ToSet(Front(history)) \subseteq ToSet(history)
    BY <2>2, <1>1, BeginningProperties DEF Front
  <2>4. Recorded(id) = Front(history)
    BY <1>2 DEF Recorded
  <2> QED BY <2>3, <2>4, <1>1
<1>3. CASE LastOf(history) # id /\ ((pending = id /\ pendingBackward) \/ current = None)
  BY <1>1, <1>3 DEF Recorded
<1>4. CASE LastOf(history) # id /\ ~((pending = id /\ pendingBackward) \/ current = None)
  <2>1. current \in Issued /\ current \in Ids
    BY <1>4 DEF Inv, TypeOK, CursorIsLive
  <2>2. CASE Len(history) = HistoryLimit
    <3>1. history # <<>>
      BY <2>2, <1>1, EmptySeq
    <3>2. /\ Tail(history) \in Seq(Issued) /\ Len(Tail(history)) = Len(history) - 1
          /\ ToSet(Tail(history)) \subseteq ToSet(history)
      BY <3>1, <1>1, TailSubset
    <3>3. /\ Append(Tail(history), current) \in Seq(Issued)
          /\ Len(Append(Tail(history), current)) = Len(Tail(history)) + 1
          /\ ToSet(Append(Tail(history), current)) \subseteq ToSet(Tail(history)) \cup {current}
      BY <2>1, <3>2, AppendedSet
    <3>4. Recorded(id) = Append(Tail(history), current)
      BY <1>4, <2>2 DEF Recorded
    <3> QED BY <1>1, <2>1, <2>2, <3>2, <3>3, <3>4
  <2>3. CASE Len(history) # HistoryLimit
    <3>1. /\ Append(history, current) \in Seq(Issued)
          /\ Len(Append(history, current)) = Len(history) + 1
          /\ ToSet(Append(history, current)) \subseteq ToSet(history) \cup {current}
      BY <1>1, <2>1, AppendedSet
    <3>2. Recorded(id) = Append(history, current)
      BY <1>4, <2>3 DEF Recorded
    <3> QED BY <1>1, <2>1, <2>3, <3>1, <3>2
  <2> QED BY <2>2, <2>3
<1> QED BY <1>2, <1>3, <1>4

LEMMA CommitInv ==
  ASSUME Inv, NEW id \in Issued, Commit(id)
  PROVE  Inv'
<1>1. /\ id \in Ids
      /\ UNCHANGED <<nextId, items, order, repeat, shuffle, autoplay, titled>>
      /\ pending' = None /\ pendingBackward' = FALSE /\ vacated' = NoSlot
  BY DEF Commit, settings
<1>2. /\ current' \in Ids \cup {None} /\ current' \in Issued \cup {None}
      /\ history' \in Seq(Issued) /\ Len(history') <= HistoryLimit
      /\ ToSet(history') \subseteq Ids
      /\ published' = Snapshot'
  <2>1. CASE id = current
    BY <1>1, <2>1 DEF Commit, Inv, TypeOK, CursorIsLive, SnapshotIsCurrent, Snapshot
  <2>2. CASE id # current
    BY <1>1, <2>2, RecordedProperties DEF Commit, Publish
  <2> QED BY <2>1, <2>2
<1>3. TypeOK'
  BY <1>1, <1>2 DEF Inv, TypeOK, Issued
<1>4. OrderMatchesItems' /\ CursorIsLive'
  BY <1>1, <1>2 DEF Inv, OrderMatchesItems, CursorIsLive, Ids
<1> QED BY <1>2, <1>3, <1>4 DEF Inv, SnapshotIsCurrent

LEMMA StutterInv ==
  ASSUME Inv, UNCHANGED vars
  PROVE  Inv'
BY DEF Inv, TypeOK, OrderMatchesItems, CursorIsLive, SnapshotIsCurrent, Snapshot,
       vars, cursor, settings, Issued, Ids

(* Every call of the queue, one step per action.                           *)
LEMMA NextInv == Inv /\ [Next]_vars => Inv'
<1> SUFFICES ASSUME Inv, [Next]_vars PROVE Inv'
  OBVIOUS
<1>1. ASSUME NEW n \in 1..MaxBatch, PlayNext(n) PROVE Inv'
  BY <1>1, PlayNextAdds, AddsInv
<1>2. ASSUME NEW n \in 1..MaxBatch, NEW at \in 0..Len(items), Insert(at, n) PROVE Inv'
  BY <1>2, InsertAdds, AddsInv
<1>3. ASSUME NEW ids \in SUBSET Issued, RemoveIds(ids) PROVE Inv'
  BY <1>3, RemoveInv
<1>4. CASE Clear
  BY <1>4, ClearInv
<1>5. ASSUME NEW id \in Issued, RecordMeta(id) PROVE Inv'
  BY <1>5, SettingsInv
<1>6. ASSUME NEW id \in Ids, NEW to \in 0..(Len(items) - 1), MoveTo(id, to) PROVE Inv'
  BY <1>6, MoveInv
<1>7. ASSUME NEW on \in BOOLEAN, SetShuffle(on) PROVE Inv'
  BY <1>7, SetShuffleInv
<1>8. ASSUME NEW on \in BOOLEAN, SetAutoplay(on) PROVE Inv'
  BY <1>8, SettingsInv
<1>9. ASSUME NEW mode \in RepeatModes, SetRepeat(mode) PROVE Inv'
  BY <1>9, SettingsInv
<1>10. ASSUME NEW how \in Hows, AdvanceReshuffling(how) PROVE Inv'
  BY <1>10, AdvanceReshufflingInv
<1>11. ASSUME NEW how \in Hows, AdvanceInOrder(how) PROVE Inv'
  BY <1>11, AdvanceInOrderInv
<1>12. ASSUME NEW id \in Issued, Commit(id) PROVE Inv'
  BY <1>12, CommitInv
<1>13. CASE UNCHANGED vars
  BY <1>13, StutterInv
<1> QED
  BY <1>1, <1>2, <1>3, <1>4, <1>5, <1>6, <1>7, <1>8, <1>9, <1>10, <1>11, <1>12,
     <1>13 DEF Next, Edit, Rearrange, Sequence, Advance

(* The inductive invariant holds in every state the queue reaches, for any *)
(* number of entries, batch, history limit and choice of titles.           *)
THEOREM Invariance == Spec => []Inv
<1>1. Init => Inv
  BY InitInv
<1>2. Inv /\ [Next]_vars => Inv'
  BY NextInv
<1> QED BY <1>1, <1>2, PTL DEF Spec

(* Every variable keeps its type: the slot a removed entry left is a slot  *)
(* of the play order, and the history is bounded as inner.rs bounds it.    *)
THEOREM TypesHold == Spec => []TypeOK
<1>1. Inv => TypeOK
  BY DEF Inv
<1> QED BY <1>1, Invariance, PTL

(* The list and the play order, edited separately by every call of         *)
(* inner.rs, hold the same entries, each once, and in the same order while *)
(* not shuffled.                                                           *)
THEOREM OrderFollowsItems == Spec => []OrderMatchesItems
<1>1. Inv => OrderMatchesItems
  BY DEF Inv
<1> QED BY <1>1, Invariance, PTL

(* Neither what is current, what is offered nor what Previous can go back  *)
(* to is an entry that was removed.                                        *)
THEOREM CursorStaysLive == Spec => []CursorIsLive
<1>1. Inv => CursorIsLive
  BY DEF Inv
<1> QED BY <1>1, Invariance, PTL

(* Queue::mutate publishes after every call that changes what a snapshot   *)
(* shows: subscribers never see a queue that no longer is.                 *)
THEOREM SubscribersSeeTheQueue == Spec => []SnapshotIsCurrent
<1>1. Inv => SnapshotIsCurrent
  BY DEF Inv
<1> QED BY <1>1, Invariance, PTL

(* Where an entry is in the play order it is nowhere else.                 *)
LEMMA ForwardMoves ==
  ASSUME Inv, NEW how \in {"Auto", "Next"}, Advance(how), GoesForward(how),
         InOrder(BaseId), Len(order) >= 2
  PROVE  pending' # BaseId
<1>1. order \in Seq(Issued) /\ DOMAIN order = 1..Len(order) /\ Len(order) \in Nat
  BY LenProperties DEF Inv, TypeOK
<1>2. Distinct(order)
  BY DEF Inv, OrderMatchesItems
<1>3. /\ Passed(BaseId) \in 1..Len(order) /\ order[Passed(BaseId)] = BaseId
      /\ \A i \in 1..Len(order) : order[i] = BaseId => i = Passed(BaseId)
  <2>1. Passed(BaseId) = PositionIn(order, BaseId)
    BY DEF Passed
  <2>2. PositionIn(order, BaseId) \in DOMAIN order
        /\ order[PositionIn(order, BaseId)] = BaseId
    BY PositionInProperties DEF InOrder
  <2> QED BY <2>1, <2>2, <1>1, <1>2 DEF Distinct
<1>4. CASE AdvanceReshuffling(how)
  <2>1. PICK p \in Arrangements(ToSet(order)) : order' = NewCycle(p, BaseId)
    BY <1>4 DEF AdvanceReshuffling
  <2>2. pending' = order'[1]
    BY <1>4 DEF AdvanceReshuffling, Offer
  <2>3. IsFiniteSet(ToSet(order)) /\ Cardinality(ToSet(order)) = Len(order)
    BY <1>1, <1>2, DistinctCardinality
  <2>4. /\ p \in Seq(ToSet(order)) /\ Len(p) = Len(order) /\ Distinct(p)
    BY <2>3, ArrangementsProperties
  <2>5. p \in [1..Len(p) -> ToSet(order)] /\ 1 \in DOMAIN p /\ 2 \in DOMAIN p
    BY <2>4, <1>1, LenProperties
  <2>6. CASE p[1] = BaseId
    <3>1. order'[1] = p[2]
      BY <2>1, <2>4, <2>5, <2>6 DEF NewCycle
    <3>2. p[2] # p[1]
      BY <2>4, <2>5 DEF Distinct
    <3> QED BY <3>1, <3>2, <2>2, <2>6
  <2>7. CASE p[1] # BaseId
    BY <2>1, <2>2, <2>7 DEF NewCycle
  <2> QED BY <2>6, <2>7
<1>5. CASE AdvanceInOrder(how)
  <2>1. pending' = Forward(how, BaseId)
    BY <1>5 DEF AdvanceInOrder, Offer, Target, GoesForward
  <2>2. BaseId # None
    BY IdsArePositive, EntriesAreIssued DEF InOrder, Inv
  <2>3. CASE ~AtEnd(BaseId)
    <3>1. Passed(BaseId) + 1 \in DOMAIN order
      BY <2>3, <1>1, <1>3 DEF AtEnd
    <3>2. pending' = order[Passed(BaseId) + 1]
      BY <2>1, <2>3, <3>1 DEF Forward, Nth
    <3> QED BY <3>1, <3>2, <1>1, <1>3
  <2>4. CASE AtEnd(BaseId)
    <3>1. Passed(BaseId) # 1 /\ order # <<>>
      BY <2>4, <1>1, <1>3, EmptySeq DEF AtEnd
    <3>2. order[1] # BaseId
      BY <3>1, <1>1, <1>3
    <3> QED BY <2>1, <2>2, <2>4, <3>1, <3>2 DEF Forward, FirstOf
  <2> QED BY <2>3, <2>4
<1> QED BY <1>4, <1>5 DEF Advance

(* Moving forward never offers again the entry it moves on from while      *)
(* there is another, also when a shuffled order starts a new cycle.        *)
THEOREM ForwardAlwaysMovesOn == Spec => ForwardMovesOn
<1> DEFINE A == \A how \in {"Auto", "Next"} :
                  Advance(how) /\ GoesForward(how) /\ InOrder(BaseId) /\ Len(order) >= 2
                    => pending' # BaseId
<1>1. Inv => A
  BY ForwardMoves
<1>2. [][A]_vars => ForwardMovesOn
  BY DEF ForwardMovesOn
<1> HIDE DEF A
<1> QED BY <1>1, <1>2, Invariance, PTL

(* Steps that peek and advance both take.                                  *)
LEMMA AdvanceGivesPeek ==
  ASSUME Inv, NEW how \in Hows, Advance(how), pending = None, Peek(how) # Unknown
  PROVE  pending' = Peek(how) /\ order' = order
<1>1. BaseId = current
  BY DEF BaseId
<1>2. order \in Seq(Issued) /\ DOMAIN order = 1..Len(order) /\ Len(order) \in Nat
  BY LenProperties DEF Inv, TypeOK
<1>3. Passed(current) \in 0..Len(order)
  <2>1. InOrder(current) => PositionIn(order, current) \in 1..Len(order)
    BY <1>2, PositionInProperties DEF InOrder
  <2>2. vacated \in {NoSlot} \cup 0..Len(order)
    BY DEF Inv, TypeOK
  <2> QED BY <1>2, <2>1, <2>2 DEF Passed
<1>4. order # <<>> <=> Len(order) >= 1
  BY <1>2, EmptySeq
<1>5. how # "Previous"
  BY DEF Peek
<1>6. CASE StaysPut(how)
  <2>1. Peek(how) = Stay(how, current) /\ Target(how) = Stay(how, current)
    BY <1>1, <1>6 DEF Peek, StaysPut, Stay, Target, GoesForward
  <2>2. ~Reshuffles(how, BaseId)
    BY <1>6 DEF Reshuffles, GoesForward
  <2> QED BY <1>5, <2>1, <2>2
          DEF Advance, AdvanceReshuffling, AdvanceInOrder, Offer
<1>7. CASE ~StaysPut(how)
  <2>1. GoesForward(how) /\ Target(how) = Forward(how, current)
    BY <1>1, <1>5, <1>7 DEF GoesForward, StaysPut, Hows, Target
  <2>2. Peek(how) = PeekForward(Wraps(how))
    BY <1>5, <1>7 DEF Peek, StaysPut, Wraps, Hows
  <2>3. ~Reshuffles(how, BaseId)
    BY <1>1, <1>2, <1>3, <1>4, <2>2 DEF Reshuffles, AtEnd, PeekForward
  <2>4. Forward(how, current) = PeekForward(Wraps(how))
    BY <1>1, <1>2, <1>3, <1>4, <2>1, <2>3
       DEF Forward, PeekForward, AtEnd, Nth, FirstOf, Reshuffles
  <2> QED BY <2>1, <2>2, <2>3, <2>4
          DEF Advance, AdvanceReshuffling, AdvanceInOrder, Offer
<1> QED BY <1>6, <1>7

(* What peek tells the engine to open ahead is what advance would give.    *)
THEOREM PeekIsWhatAdvanceGives == Spec => PeekAgreesWithAdvance
<1> DEFINE A == \A how \in Hows :
                  Advance(how) /\ pending = None /\ Peek(how) # Unknown
                    => pending' = Peek(how) /\ order' = order
<1>1. Inv => A
  BY AdvanceGivesPeek
<1>2. [][A]_vars => PeekAgreesWithAdvance
  BY DEF PeekAgreesWithAdvance
<1> HIDE DEF A
<1> QED BY <1>1, <1>2, Invariance, PTL

---------------------------------------------------------------------------
(* What is still to come, under edits.                                     *)

(* How many entries of an order are behind the cursor, and the others.     *)
Cut(o, c, v) == IF c \in ToSet(o) THEN PositionIn(o, c) ELSE IF v # NoSlot THEN v ELSE 0
Rest(o, c, v) == SubSeq(o, Cut(o, c, v) + 1, Len(o))

LEMMA UpcomingIsRest ==
  /\ Upcoming = Rest(order, current, vacated)
  /\ Upcoming' = Rest(order', current', vacated')
BY DEF Upcoming, Rest, Cut, Passed, InOrder

LEMMA CutIsAPlace ==
  ASSUME NEW S, NEW o \in Seq(S), NEW c, NEW v \in {NoSlot} \cup 0..Len(o)
  PROVE  /\ Cut(o, c, v) \in 0..Len(o)
         /\ Rest(o, c, v) \in Seq(S) /\ ToSet(Rest(o, c, v)) \subseteq ToSet(o)
<1>1. Len(o) \in Nat /\ DOMAIN o = 1..Len(o)
  BY LenProperties
<1>2. Cut(o, c, v) \in 0..Len(o)
  <2>1. c \in ToSet(o) => PositionIn(o, c) \in 1..Len(o)
    BY <1>1, PositionInProperties
  <2> QED BY <1>1, <2>1 DEF Cut
<1> DEFINE k == Cut(o, c, v)
           t == SubSeq(o, k + 1, Len(o))
<1> HIDE DEF k
<1>3. /\ t \in Seq(S) /\ Len(t) = Len(o) - k
      /\ \A j \in 1..(Len(o) - k) : t[j] = o[j + k]
  BY <1>2, AfterProperties DEF k
<1>4. DOMAIN t = 1..(Len(o) - k) /\ \A j \in 1..(Len(o) - k) : j + k \in DOMAIN o
  BY <1>1, <1>2, <1>3, LenProperties DEF k
<1> HIDE DEF t
<1>5. ToSet(t) \subseteq ToSet(o)
  BY <1>3, <1>4 DEF ToSet
<1> QED BY <1>2, <1>3, <1>5 DEF k, t, Rest

(* Distinct entries: the place of one is the one it is at.                 *)
LEMMA PlaceOf ==
  ASSUME NEW s, Distinct(s), NEW i \in DOMAIN s
  PROVE  PositionIn(s, s[i]) = i
<1>1. s[i] \in ToSet(s)
  BY DEF ToSet
<1> QED BY <1>1, PositionInProperties DEF Distinct

(* Putting in entries moves the cursor along, and taking them out of what  *)
(* is to come then gives back what was.                                    *)
LEMMA RestSpliced ==
  ASSUME NEW S, NEW o \in Seq(S), NEW new \in Seq(S), NEW at \in 0..Len(o), NEW p \in 0..Len(o),
         ToSet(o) \cap ToSet(new) = {}
  PROVE  LET q == IF at < p THEN p + Len(new) ELSE p
             r == Spliced(o, at, new)
         IN  Without(SubSeq(r, q + 1, Len(r)), ToSet(new)) = SubSeq(o, p + 1, Len(o))
<1> DEFINE M == Len(new)
           q == IF at < p THEN p + M ELSE p
           r == Spliced(o, at, new)
           u == SubSeq(o, p + 1, Len(o))
           w == SubSeq(r, q + 1, Len(r))
           N == Len(o)
<1>1. /\ N \in Nat /\ M \in Nat
      /\ \A i \in 1..N : o[i] \notin ToSet(new)
      /\ \A i \in 1..M : new[i] \in ToSet(new)
  BY LenProperties DEF ToSet
<1>2. /\ r \in Seq(S) /\ Len(r) = N + M
      /\ \A i \in 1..(N + M) : r[i] = IF i <= at THEN o[i]
                                      ELSE IF i <= at + M THEN new[i - at] ELSE o[i - M]
  BY SplicedPlaces
<1> HIDE DEF r
<1>3. at \in 0..N /\ p \in 0..N
  OBVIOUS
<1>4. u \in Seq(S) /\ Len(u) = N - p /\ \A j \in 1..(N - p) : u[j] = o[j + p]
  BY AfterProperties
<1> HIDE DEF N, M, u
<1>5. q \in 0..(N + M)
  <2>1. p + M \in 0..(N + M) /\ p \in 0..(N + M)
    BY <1>1, <1>3
  <2> QED BY <2>1
<1>6. w \in Seq(S) /\ Len(w) = (N + M) - q /\ \A j \in 1..((N + M) - q) : w[j] = r[j + q]
  BY SMTT(30), <1>2, <1>5, AfterProperties
<1> HIDE DEF w
<1>7. \A j \in 1..Len(u) : u[j] \notin ToSet(new)
  <2>1. \A j \in 1..(N - p) : j + p \in 1..N
    BY <1>1, <1>3
  <2> QED BY <2>1, <1>1, <1>4
<1>8. CASE at < p
  <2>1. q = p + M /\ Len(w) = Len(u) + 0
    BY <1>1, <1>3, <1>4, <1>6, <1>8
  <2>2. \A j \in 1..(N - p) : w[j] = u[j]
    <3>1. TAKE j \in 1..(N - p)
    <3>2. /\ j \in 1..((N + M) - q) /\ j + q \in 1..(N + M) /\ ~(j + q <= at)
          /\ ~(j + q <= at + M) /\ (j + q) - M = j + p
      BY <1>1, <1>3, <1>8, <2>1
    <3>3. w[j] = r[j + q] /\ r[j + q] = o[(j + q) - M]
      BY <3>2, <1>2, <1>6
    <3> QED BY <3>2, <3>3, <1>4
  <2>3. /\ 0 \in 0..Len(u) /\ \A j \in 1..0 : w[j] = u[j]
        /\ \A j \in (0 + 1)..(0 + 0) : w[j] \in ToSet(new)
        /\ \A j \in (0 + 1)..Len(u) : w[j + 0] = u[j]
    BY <1>1, <1>3, <1>4, <2>2
  <2>4. 0 \in Nat
    OBVIOUS
  <2>5. Without(w, ToSet(new)) = u
    <3>1. PutInto(u, ToSet(new), 0, 0, w)
      BY <1>7, <2>1, <2>3, <2>4 DEF PutInto
    <3> QED BY <3>1, <1>4, <1>6, WithoutInserted
  <2> QED BY <2>5 DEF w, u, M, r
<1>9. CASE ~(at < p)
  <2> DEFINE k == at - p
  <2>1. q = p /\ Len(w) = Len(u) + M /\ k \in 0..Len(u) /\ Len(u) = N - p
    BY <1>1, <1>3, <1>4, <1>6, <1>9
  <2>2. \A j \in 1..k : w[j] = u[j]
    <3>1. TAKE j \in 1..k
    <3>2. /\ j \in 1..((N + M) - q) /\ j + q \in 1..(N + M) /\ j + q <= at
          /\ j \in 1..(N - p) /\ j + q = j + p
      BY <1>1, <1>3, <1>9, <2>1
    <3>3. w[j] = r[j + q] /\ r[j + q] = o[j + q]
      BY <3>2, <1>2, <1>6
    <3> QED BY <3>2, <3>3, <1>4
  <2>3. \A j \in (k + 1)..(k + M) : w[j] \in ToSet(new)
    <3>1. TAKE j \in (k + 1)..(k + M)
    <3>2. /\ j \in 1..((N + M) - q) /\ j + q \in 1..(N + M) /\ ~(j + q <= at)
          /\ j + q <= at + M /\ (j + q) - at \in 1..M
      BY <1>1, <1>3, <1>9, <2>1
    <3>3. w[j] = r[j + q] /\ r[j + q] = new[(j + q) - at]
      BY <3>2, <1>2, <1>6
    <3> QED BY <3>2, <3>3, <1>1
  <2>4. \A j \in (k + 1)..Len(u) : w[j + M] = u[j]
    <3>1. TAKE j \in (k + 1)..Len(u)
    <3>2. /\ j + M \in 1..((N + M) - q) /\ (j + M) + q \in 1..(N + M)
          /\ ~((j + M) + q <= at) /\ ~((j + M) + q <= at + M)
          /\ ((j + M) + q) - M = j + p /\ j \in 1..(N - p)
      BY <1>1, <1>3, <1>9, <2>1
    <3>3. w[j + M] = r[(j + M) + q] /\ r[(j + M) + q] = o[((j + M) + q) - M]
      BY <3>2, <1>2, <1>6
    <3> QED BY <3>2, <3>3, <1>4
  <2> HIDE DEF k
  <2>5. Without(w, ToSet(new)) = u
    <3>1. PutInto(u, ToSet(new), k, M, w)
      BY <1>1, <1>7, <2>1, <2>2, <2>3, <2>4 DEF PutInto
    <3> QED BY <3>1, <1>4, <1>6, WithoutInserted
  <2> QED BY <2>5 DEF w, u, M, r
<1> QED BY <1>8, <1>9

(* The cursor stays with what it was on when entries are put in.           *)
LEMMA CutSpliced ==
  ASSUME NEW S, NEW o \in Seq(S), NEW new \in Seq(S), NEW at \in 0..Len(o), NEW c,
         NEW v \in {NoSlot} \cup 0..Len(o), v # NoSlot => c \notin ToSet(o),
         Distinct(o), Distinct(new), ToSet(o) \cap ToSet(new) = {}, c \notin ToSet(new)
  PROVE  LET p == Cut(o, c, v)
             w == IF v # NoSlot /\ at < v THEN v + Len(new) ELSE v
         IN  Cut(Spliced(o, at, new), c, w) = IF at < p THEN p + Len(new) ELSE p
<1> DEFINE M == Len(new)
           p == Cut(o, c, v)
           r == Spliced(o, at, new)
           w == IF v # NoSlot /\ at < v THEN v + M ELSE v
<1>1. /\ Len(o) \in Nat /\ M \in Nat /\ DOMAIN o = 1..Len(o)
      /\ p \in 0..Len(o) /\ at \in 0..Len(o)
  BY LenProperties, CutIsAPlace
<1>2. /\ r \in Seq(S) /\ Len(r) = Len(o) + M /\ DOMAIN r = 1..(Len(o) + M)
      /\ \A i \in 1..(Len(o) + M) : r[i] = IF i <= at THEN o[i]
                                           ELSE IF i <= at + M THEN new[i - at] ELSE o[i - M]
  BY SplicedPlaces, LenProperties
<1>3. ToSet(r) = ToSet(o) \cup ToSet(new) /\ Distinct(r)
  <2>1. ToSet(Spliced(o, at, new)) = ToSet(o) \cup ToSet(new)
    BY SplicedProperties
  <2>2. Distinct(o) /\ Distinct(new) /\ ToSet(o) \cap ToSet(new) = {}
    OBVIOUS
  <2>3. Distinct(Spliced(o, at, new))
    BY <2>2, SplicedProperties
  <2> QED BY <2>1, <2>3
<1> HIDE DEF M, r
<1>4. CASE c \in ToSet(o)
  <2>1. p = PositionIn(o, c) /\ p \in 1..Len(o) /\ o[p] = c
    BY <1>1, <1>4, PositionInProperties DEF Cut
  <2> DEFINE i == IF at < p THEN p + M ELSE p
  <2>2. i \in 1..(Len(o) + M) /\ r[i] = c
    <3> HIDE DEF p
    <3>1. CASE at < p
      <4>1. p + M \in 1..(Len(o) + M) /\ ~(p + M <= at) /\ ~(p + M <= at + M) /\ (p + M) - M = p
        BY <1>1, <2>1, <3>1
      <4> QED BY <4>1, <3>1, <1>2, <2>1
    <3>2. CASE ~(at < p)
      <4>1. p \in 1..(Len(o) + M) /\ p <= at
        BY <1>1, <2>1, <3>2
      <4> QED BY <4>1, <3>2, <1>2, <2>1
    <3> QED BY <3>1, <3>2
  <2> HIDE DEF i
  <2>3. PositionIn(r, c) = i
    BY <1>2, <1>3, <2>2, PlaceOf
  <2>4. Cut(r, c, w) = i
    BY <1>3, <1>4, <2>3 DEF Cut
  <2> QED BY <2>4 DEF i, r, M
<1>5. CASE c \notin ToSet(o)
  <2>1. c \notin ToSet(r)
    BY <1>3, <1>5
  <2>2. Cut(r, c, w) = IF w # NoSlot THEN w ELSE 0
    BY <2>1 DEF Cut
  <2>3. p = IF v # NoSlot THEN v ELSE 0
    BY <1>5 DEF Cut
  <2>4. Cut(r, c, w) = IF at < p THEN p + M ELSE p
    BY <1>1, <2>2, <2>3 DEF NoSlot
  <2> QED BY <2>4 DEF r, M
<1> QED BY <1>4, <1>5

(* How many of the places up to p are kept does not change where one is    *)
(* not.                                                                    *)
LEMMA CutKept ==
  ASSUME NEW S, NEW o \in Seq(S), Distinct(o), NEW ids, NEW c,
         NEW v \in {NoSlot} \cup 0..Len(o), v # NoSlot => c \notin ToSet(o), None \notin S
  PROVE  LET left == IF c \in ids \cap ToSet(o) THEN PositionIn(o, c) - 1 ELSE v
             w == IF left = NoSlot THEN NoSlot ELSE KeptUpTo(o, ids, left)
             d == IF c \in ids THEN None ELSE c
         IN  Cut(Without(o, ids), d, w) = KeptUpTo(o, ids, Cut(o, c, v))
<1> DEFINE left == IF c \in ids \cap ToSet(o) THEN PositionIn(o, c) - 1 ELSE v
           w == IF left = NoSlot THEN NoSlot ELSE KeptUpTo(o, ids, left)
           d == IF c \in ids THEN None ELSE c
           r == Without(o, ids)
           K == KeptPlaces(o, ids)
           R(i) == RankIn(K, i)
<1>1. Len(o) \in Nat /\ DOMAIN o = 1..Len(o) /\ \A i \in DOMAIN o : o[i] \in S
  BY LenProperties, ElementOfSeq
<1>2. /\ r \in Seq(S) /\ ToSet(r) = ToSet(o) \ ids /\ Distinct(r)
      /\ Len(r) = Cardinality(K) /\ \A i : KeptUpTo(o, ids, i) = R(i)
  BY WithoutProperties DEF KeptUpTo
<1>3. K \subseteq 1..Len(o) /\ \A i \in 1..Len(o) : i \in K <=> o[i] \notin ids
  BY <1>1 DEF KeptPlaces
<1>4. ToSet(o) \subseteq S
  BY <1>1 DEF ToSet
<1>5. /\ \A i \in K : R(i) \in 1..Cardinality(K)
      /\ \A i \in 0..Len(o) : R(i) \in 0..Cardinality(K)
      /\ \A i, k \in K : R(i) = R(k) => i = k
  <2> HIDE DEF K
  <2> QED BY <1>1, <1>3, RankInProperties
<1>6. R(0) = 0
  <2>1. \A k \in K : ~(k <= 0)
    BY <1>1, <1>3
  <2>2. {k \in K : k <= 0} = {}
    BY <2>1, Zenon
  <2> QED BY <2>2, FS_EmptySet DEF RankIn
<1>7. CASE c \in ids /\ c \in ToSet(o)
  <2> DEFINE p == PositionIn(o, c)
  <2>1. p \in 1..Len(o) /\ o[p] = c /\ p \notin K
    BY <1>1, <1>3, <1>7, PositionInProperties
  <2>2. Cut(o, c, v) = p
    BY <1>7 DEF Cut
  <2> HIDE DEF p
  <2>3. \A k \in K : k <= p <=> k <= p - 1
    BY <1>1, <1>3, <2>1
  <2>4. {k \in K : k <= p} = {k \in K : k <= p - 1}
    BY <2>3, Zenon
  <2>5. R(p) = R(p - 1)
    BY <2>4 DEF RankIn
  <2>6. left = p - 1 /\ p - 1 \in 0..Len(o)
    BY <1>1, <1>7, <2>1 DEF p
  <2>7. w = R(p - 1) /\ R(p - 1) \in 0..Cardinality(K)
    BY <1>2, <1>5, <2>6 DEF NoSlot
  <2>8. d = None /\ None \notin ToSet(r)
    BY <1>2, <1>4, <1>7
  <2> HIDE DEF w, d, r, K
  <2>9. Cut(r, d, w) = R(p - 1)
    BY <2>7, <2>8 DEF Cut, NoSlot
  <2> QED BY <1>2, <2>2, <2>5, <2>9 DEF w, d, r
<1>8. CASE c \notin ids /\ c \in ToSet(o)
  <2> DEFINE p == PositionIn(o, c)
  <2>1. p \in 1..Len(o) /\ o[p] = c /\ p \in K
    BY <1>1, <1>3, <1>8, PositionInProperties
  <2>2. Cut(o, c, v) = p
    BY <1>8 DEF Cut
  <2> HIDE DEF p
  <2>3. d = c /\ c \in ToSet(r)
    BY <1>2, <1>8
  <2>4. R(p) \in 1..Cardinality(K) /\ r[R(p)] = c
    <3>1. R(p) \in 1..Cardinality(K)
      BY <1>5, <2>1
    <3>2. r[R(p)] = o[CHOOSE i \in K : KeptUpTo(o, ids, i) = R(p)]
      BY <3>1 DEF Without
    <3>3. (CHOOSE i \in K : KeptUpTo(o, ids, i) = R(p)) = p
      <4> HIDE DEF K
      <4> QED BY <1>2, <1>5, <2>1
    <3> QED BY <3>1, <3>2, <3>3, <2>1
  <2>5. DOMAIN r = 1..Cardinality(K)
    BY <1>2, LenProperties
  <2> HIDE DEF d, r, K, w, R
  <2>6. PositionIn(r, c) = R(p)
    BY <1>2, <2>4, <2>5, PlaceOf
  <2>7. Cut(r, d, w) = R(p)
    BY <2>3, <2>6 DEF Cut
  <2> QED BY <1>2, <2>2, <2>7 DEF w, d, r
<1>9. CASE c \notin ToSet(o)
  <2>1. left = v /\ Cut(o, c, v) = IF v # NoSlot THEN v ELSE 0
    BY <1>9 DEF Cut
  <2>2. d \notin ToSet(r)
    BY <1>2, <1>4, <1>9
  <2>3. w = IF v = NoSlot THEN NoSlot ELSE R(v)
    BY <1>2, <2>1
  <2>4. v # NoSlot => R(v) \in 0..Cardinality(K)
    BY <1>5
  <2> HIDE DEF d, r, K, w, R
  <2>5. v # NoSlot => w # NoSlot
    BY <2>3, <2>4 DEF NoSlot
  <2>6. Cut(r, d, w) = IF v # NoSlot THEN R(v) ELSE 0
    BY <2>2, <2>3, <2>5 DEF Cut
  <2>7. KeptUpTo(o, ids, Cut(o, c, v)) = IF v # NoSlot THEN R(v) ELSE 0
    BY <1>2, <1>6, <2>1
  <2> QED BY <2>6, <2>7 DEF w, d, r
<1> QED BY <1>7, <1>8, <1>9

(* Only which of the sequence's own identifiers go matters to what is left.*)
LEMMA WithoutTheSame ==
  ASSUME NEW s, NEW ids, NEW same, \A i \in DOMAIN s : s[i] \in ids <=> s[i] \in same
  PROVE  Without(s, ids) = Without(s, same)
<1>1. KeptPlaces(s, ids) = KeptPlaces(s, same)
  BY DEF KeptPlaces
<1> QED BY <1>1 DEF Without, KeptUpTo

(* What EditsKeepUpcoming says of one step.                                *)
KeepsUpcoming ==
  Without(Upcoming', Ids' \ Ids) = Without(Upcoming, Ids \ Ids')

(* The order holds what was issued and the cursor is a place of it.        *)
LEMMA UpcomingProperties ==
  ASSUME Inv
  PROVE  /\ order \in Seq(Issued) /\ vacated \in {NoSlot} \cup 0..Len(order)
         /\ Len(order) \in Nat
         /\ Cut(order, current, vacated) \in 0..Len(order)
         /\ Upcoming \in Seq(Issued) /\ ToSet(Upcoming) \subseteq Ids
         /\ vacated # NoSlot => current \notin ToSet(order)
<1>1. order \in Seq(Issued) /\ vacated \in {NoSlot} \cup 0..Len(order)
  BY DEF Inv, TypeOK
<1>2. ToSet(order) = Ids
  BY DEF Inv, OrderMatchesItems, Ids
<1>3. None \notin ToSet(order)
  BY IdsArePositive, EntriesAreIssued DEF Inv
<1>4. vacated # NoSlot => current \notin ToSet(order)
  BY <1>3 DEF Inv, CursorIsLive
<1>5. /\ Cut(order, current, vacated) \in 0..Len(order)
      /\ Rest(order, current, vacated) \in Seq(Issued)
      /\ ToSet(Rest(order, current, vacated)) \subseteq ToSet(order)
  BY <1>1, CutIsAPlace
<1>6. Upcoming = Rest(order, current, vacated)
  BY UpcomingIsRest
<1> QED BY <1>1, <1>2, <1>4, <1>5, <1>6, LenProperties

(* A batch: taking it out of what is to come gives back what was to come.  *)
LEMMA AddNewKeeps ==
  ASSUME Inv, NEW n \in 1..MaxBatch,
         NEW itemsAt \in 0..Len(items), NEW orderAt \in 0..Len(order),
         AddNew(n, itemsAt, orderAt)
  PROVE  KeepsUpcoming
<1> DEFINE new == NewIds(n)
<1>1. n \in Nat /\ nextId' = nextId + n
  BY QueueAssumption DEF AddNew
<1>2. /\ new \in Seq(Issued')
      /\ ToSet(new) \cap Issued = {} /\ Distinct(new) /\ Issued \subseteq Issued'
  BY <1>1, NewIdsProperties DEF Inv
<1>3. /\ items' = Spliced(items, itemsAt, new)
      /\ order' = Spliced(order, orderAt, new)
      /\ vacated' = IF vacated # NoSlot /\ orderAt < vacated
                      THEN vacated + Len(new) ELSE vacated
      /\ current' = current
  BY DEF AddNew, InsertInOrder
<1> HIDE DEF new
<1>4. items \in Seq(Issued') /\ order \in Seq(Issued')
  BY <1>2, SeqMonotonic DEF Inv, TypeOK
<1>5. ToSet(items) \cap ToSet(new) = {} /\ ToSet(order) \cap ToSet(new) = {}
  BY <1>2, EntriesAreIssued DEF Inv, Ids
<1>6. Ids' = Ids \cup ToSet(new) /\ Ids \cap ToSet(new) = {}
  <2>1. ToSet(Spliced(items, itemsAt, new)) = ToSet(items) \cup ToSet(new)
    BY <1>2, <1>4, SplicedProperties
  <2> QED BY <2>1, <1>3, <1>5 DEF Ids
<1>7. Ids' \ Ids = ToSet(new) /\ Ids \ Ids' = {}
  BY <1>6
<1>8. current \notin ToSet(new)
  <2>1. None \notin Issued'
    BY <1>1, IdsArePositive DEF Inv, Issued, None
  <2>2. ToSet(new) \subseteq Issued'
    BY <1>2, LenProperties, ElementOfSeq DEF ToSet
  <2> QED BY <2>1, <2>2, <1>6 DEF Inv, CursorIsLive
<1> DEFINE p == Cut(order, current, vacated)
           q == IF orderAt < p THEN p + Len(new) ELSE p
<1>9. p \in 0..Len(order)
  BY UpcomingProperties
<1>10. Cut(order', current', vacated') = q
  <2>1. vacated \in {NoSlot} \cup 0..Len(order) /\ (vacated # NoSlot => current \notin ToSet(order))
    BY UpcomingProperties
  <2>2. Distinct(order)
    BY DEF Inv, OrderMatchesItems
  <2> QED BY <2>1, <2>2, <1>2, <1>3, <1>4, <1>5, <1>8, CutSpliced
<1> HIDE DEF p
<1>11. Without(SubSeq(order', q + 1, Len(order')), ToSet(new)) = SubSeq(order, p + 1, Len(order))
  BY <1>2, <1>3, <1>4, <1>5, <1>9, RestSpliced
<1>12. Without(Upcoming', ToSet(new)) = Upcoming
  BY <1>10, <1>11, UpcomingIsRest DEF Rest, p
<1>13. Without(Upcoming, {}) = Upcoming
  <2>1. Upcoming \in Seq(Issued) /\ ToSet(Upcoming) \cap {} = {}
    BY UpcomingProperties
  <2> QED BY <2>1, WithoutNothing
<1> QED BY <1>7, <1>12, <1>13 DEF KeepsUpcoming

(* Removing: what is to come loses what is removed, and nothing else.      *)
LEMMA RemoveKeeps ==
  ASSUME Inv, NEW ids, ids \subseteq Issued, RemoveIds(ids)
  PROVE  KeepsUpcoming
<1> DEFINE left == IF current \in ids \cap ToSet(order) THEN PositionIn(order, current) - 1
                   ELSE vacated
           k == Cut(order, current, vacated)
<1>1. /\ order' = Without(order, ids)
      /\ vacated' = IF left = NoSlot THEN NoSlot ELSE KeptUpTo(order, ids, left)
      /\ current' = IF current \in ids THEN None ELSE current
      /\ items' = Without(items, ids)
  <2>1. ToSet(order) = Ids
    BY DEF Inv, OrderMatchesItems, Ids
  <2> QED BY <2>1 DEF RemoveIds
<1>2. /\ order \in Seq(Issued) /\ vacated \in {NoSlot} \cup 0..Len(order)
      /\ k \in 0..Len(order)
      /\ vacated # NoSlot => current \notin ToSet(order)
  BY UpcomingProperties
<1>3. Distinct(order) /\ None \notin Issued
  BY IdsArePositive DEF Inv, OrderMatchesItems
<1>4. Cut(order', current', vacated') = KeptUpTo(order, ids, k)
  BY <1>1, <1>2, <1>3, CutKept
<1> HIDE DEF left, k
<1>5. SubSeq(order', KeptUpTo(order, ids, k) + 1, Len(order'))
        = Without(SubSeq(order, k + 1, Len(order)), ids)
  BY <1>1, <1>2, WithoutAfter
<1>6. Upcoming' = Without(Upcoming, ids)
  BY <1>4, <1>5, UpcomingIsRest DEF Rest, k
<1>7. Ids' = Ids \ ids
  BY <1>1, WithoutProperties DEF Ids, Inv, TypeOK
<1>8. Without(Upcoming', {}) = Upcoming'
  <2>1. Upcoming' \in Seq(Issued)
    BY <1>6, UpcomingProperties, WithoutProperties
  <2>2. ToSet(Upcoming') \cap {} = {}
    OBVIOUS
  <2> QED BY <2>1, <2>2, WithoutNothing
<1>9. Without(Upcoming, Ids \ Ids') = Without(Upcoming, ids)
  <2>1. \A i \in DOMAIN Upcoming : Upcoming[i] \in Ids
    BY UpcomingProperties DEF ToSet
  <2>2. \A i \in DOMAIN Upcoming : Upcoming[i] \in Ids \ Ids' <=> Upcoming[i] \in ids
    BY <2>1, <1>7
  <2> QED BY <2>2, WithoutTheSame
<1>10. Ids' \ Ids = {}
  BY <1>7
<1> QED BY <1>6, <1>8, <1>9, <1>10 DEF KeepsUpcoming

(* Clearing leaves nothing to come.                                        *)
LEMMA ClearKeeps ==
  ASSUME Inv, Clear
  PROVE  KeepsUpcoming
<1>1. items' = <<>> /\ order' = <<>> /\ current' = None /\ vacated' = NoSlot
  BY DEF Clear
<1>2. Ids' = {} /\ ToSet(order') = {}
  BY <1>1, EmptySeq DEF Ids, ToSet
<1>3. Cut(order', current', vacated') = 0
  BY <1>1, <1>2 DEF Cut
<1>4. Upcoming' = <<>>
  BY <1>1, <1>3, UpcomingIsRest, EmptySeq DEF Rest
<1>5. Without(<<>>, Ids' \ Ids) = <<>>
  <2>1. <<>> \in Seq(Issued) /\ ToSet(<<>>) \cap (Ids' \ Ids) = {}
    BY EmptySeq DEF ToSet
  <2> QED BY <2>1, WithoutNothing
<1>6. Without(Upcoming, Ids \ Ids') = <<>>
  <2>1. \A i \in DOMAIN Upcoming : Upcoming[i] \in Ids
    BY UpcomingProperties DEF ToSet
  <2>2. KeptPlaces(Upcoming, Ids \ Ids') = {}
    BY <2>1, <1>2 DEF KeptPlaces
  <2>3. /\ Without(Upcoming, Ids \ Ids') \in Seq(Issued)
        /\ Len(Without(Upcoming, Ids \ Ids')) = Cardinality(KeptPlaces(Upcoming, Ids \ Ids'))
    BY UpcomingProperties, WithoutProperties
  <2>4. Cardinality({}) = 0
    BY FS_EmptySet
  <2> QED BY <2>2, <2>3, <2>4, EmptySeq
<1> QED BY <1>4, <1>5, <1>6 DEF KeepsUpcoming

LEMMA RecordMetaKeeps ==
  ASSUME Inv, NEW id, RecordMeta(id)
  PROVE  KeepsUpcoming
<1>1. UNCHANGED <<items, order, current, vacated>>
  BY DEF RecordMeta, cursor
<1>2. Upcoming' = Upcoming /\ Ids' = Ids
  BY <1>1, UpcomingIsRest DEF Ids
<1>3. Ids' \ Ids = Ids \ Ids'
  BY <1>2
<1> QED BY <1>2, <1>3 DEF KeepsUpcoming

LEMMA EditKeeps ==
  ASSUME Inv, Edit
  PROVE  KeepsUpcoming
<1>1. ASSUME NEW n \in 1..MaxBatch, Adds(n) PROVE KeepsUpcoming
  BY <1>1, AddNewKeeps DEF Adds
<1>2. ASSUME NEW n \in 1..MaxBatch, PlayNext(n) PROVE KeepsUpcoming
  BY <1>1, <1>2, PlayNextAdds
<1>3. ASSUME NEW n \in 1..MaxBatch, NEW at \in 0..Len(items), Insert(at, n)
      PROVE  KeepsUpcoming
  BY <1>1, <1>3, InsertAdds
<1>4. ASSUME NEW ids \in SUBSET Issued, RemoveIds(ids) PROVE KeepsUpcoming
  BY <1>4, RemoveKeeps
<1>5. ASSUME NEW id \in Issued, RecordMeta(id) PROVE KeepsUpcoming
  BY <1>5, RecordMetaKeeps
<1> QED BY <1>2, <1>3, <1>4, <1>5, ClearKeeps DEF Edit

(* Whatever is added, removed or titled, in any order and around any slot  *)
(* a removed entry left, each entry still to be played stays to be played, *)
(* once and in its turn.                                                   *)
THEOREM EditsLoseNothing == Spec => EditsKeepUpcoming
<1> DEFINE A == Edit => KeepsUpcoming
<1>1. Inv => A
  BY EditKeeps
<1>2. [][A]_vars => EditsKeepUpcoming
  BY DEF EditsKeepUpcoming, KeepsUpcoming
<1> HIDE DEF A
<1> QED BY <1>1, <1>2, Invariance, PTL
=============================================================================
