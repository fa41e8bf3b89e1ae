--------------------------- MODULE IdSequences ---------------------------
(***************************************************************************)
(* Sequences of distinct identifiers, as the queue keeps them: the entries *)
(* as a list shows them and the order they are played in.  The operators   *)
(* are those the queue's editing is made of (Vec::splice, Vec::remove,     *)
(* Vec::retain and Iterator::position in the source).                      *)
(***************************************************************************)
EXTENDS Integers, Sequences, FiniteSets, SequencesExt

(* No identifier appears twice.                                            *)
Distinct(s) == \A i, j \in DOMAIN s : s[i] = s[j] => i = j

(* Where an identifier of s is, counted from one.                          *)
PositionIn(s, id) == CHOOSE i \in DOMAIN s : s[i] = id

(* s with the identifiers of "new" put in after its first "at" elements.   *)
Spliced(s, at, new) ==
  SubSeq(s, 1, at) \o new \o SubSeq(s, at + 1, Len(s))

(* How many elements of K are at most i.                                   *)
RankIn(K, i) == Cardinality({k \in K : k <= i})

(* The places of s that hold none of "ids", and how many of them there are *)
(* up to place i.                                                          *)
KeptPlaces(s, ids) == {i \in DOMAIN s : s[i] \notin ids}
KeptUpTo(s, ids, i) == RankIn(KeptPlaces(s, ids), i)

(* s without the identifiers in "ids", in the order it had.  It is said    *)
(* through the rank of the places kept rather than with the recursive      *)
(* SelectSeq, which it equals (checked in MCQueue), so that it can be      *)
(* reasoned about.                                                         *)
Without(s, ids) ==
  [j \in 1..Cardinality(KeptPlaces(s, ids)) |->
     s[CHOOSE i \in KeptPlaces(s, ids) : KeptUpTo(s, ids, i) = j]]

(* Every way to arrange the elements of a finite set.                      *)
Arrangements(S) ==
  {p \in [1..Cardinality(S) -> S] : ToSet(p) = S}
=============================================================================
