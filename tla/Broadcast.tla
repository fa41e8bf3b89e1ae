----------------------------- MODULE Broadcast -----------------------------
(***************************************************************************)
(* One receiver of a bounded broadcast channel (tokio::sync::broadcast).   *)
(* A sender never waits: a receiver that has a full channel unread loses   *)
(* the oldest message, and is told so before it is given the next.         *)
(***************************************************************************)
EXTENDS Naturals, Sequences

Receiver(Messages) == [unread : Seq(Messages), missed : BOOLEAN]

Listening == [unread |-> <<>>, missed |-> FALSE]

\* Mutant: a slow receiver keeps everything.
OfferedUnbounded(receiver, message, capacity) ==
  [receiver EXCEPT !.unread = Append(@, message)]

Offered(receiver, message, capacity) ==
  IF Len(receiver.unread) < capacity
    THEN [receiver EXCEPT !.unread = Append(@, message)]
    ELSE [unread |-> Append(Tail(receiver.unread), message), missed |-> TRUE]

(* The receiver has been told of the loss, or has taken a message.         *)
Told(receiver) == [receiver EXCEPT !.missed = FALSE]
Taken(receiver) == [receiver EXCEPT !.unread = Tail(@)]
=============================================================================
