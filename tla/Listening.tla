----------------------------- MODULE Listening -----------------------------
(***************************************************************************)
(* What playback promises a listener: every frame of every track, once and *)
(* in order, one track after another.  Only a seek the listener asked for, *)
(* or an output that failed, may move the position, and each is counted.   *)
(***************************************************************************)
EXTENDS Integers, Sequences

CONSTANT Length       \* how many frames each track of the list has

VARIABLES at, position, jumps
vars == <<at, position, jumps>>

Init == at = 1 /\ position = 0 /\ jumps = 0

Hear ==
  /\ position < Length[at]
  /\ position' = position + 1
  /\ UNCHANGED <<at, jumps>>

HearNext ==
  /\ position = Length[at]
  /\ at < Len(Length)
  /\ at' = at + 1
  /\ position' = 1
  /\ UNCHANGED jumps

Jump ==
  /\ jumps' = jumps + 1
  /\ at' \in (at - 1 .. at + 2) \cap DOMAIN Length
  /\ position' \in 0..Length[at']

Next == Hear \/ HearNext \/ Jump
Spec == Init /\ [][Next]_vars
=============================================================================
