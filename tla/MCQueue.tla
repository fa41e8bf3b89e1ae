------------------------------ MODULE MCQueue ------------------------------
(* Small instances of the queue.                                           *)
EXTENDS QueueProperties

(* The definition of Without against the standard library's SelectSeq.     *)
ASSUME WithoutIsSelectSeq ==
  \A s \in BoundedSeq(1..3, 4) : \A ids \in SUBSET (1..3) :
    Without(s, ids) = SelectSeq(s, LAMBDA id : id \notin ids)
=============================================================================
