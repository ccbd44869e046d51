----------------------------- MODULE EventQueue -----------------------------
(***************************************************************************)
(* What the ring of input events promises its users: a first-in first-out  *)
(* queue of at most Capacity events that refuses an event when it is full. *)
(***************************************************************************)
EXTENDS Naturals, Sequences

CONSTANTS Events, Capacity

VARIABLE queue

Init == queue = <<>>

(* push_event of something that fits.  One that does not leaves the queue  *)
(* as it is.                                                               *)
Put(e) == Len(queue) < Capacity /\ queue' = Append(queue, e)

(* pop_event *)
Take == queue # <<>> /\ queue' = Tail(queue)

Next == Take \/ \E e \in Events : Put(e)

Spec == Init /\ [][Next]_queue
=============================================================================
