---------------------------- MODULE RequestQueue ----------------------------
(***************************************************************************)
(* RequestQueue (request_queue.h/.cc): the requests of one thread that     *)
(* wait for a connection, first come first served.                         *)
(***************************************************************************)
EXTENDS Naturals, Sequences

CONSTANT RequestQueueSize   \* max_queue_size, from request_queue_size

ASSUME QueueAssumption == RequestQueueSize \in Nat

isQueueFull(h) == Len(h.pending) >= RequestQueueSize

\* A request that finds the queue full is dropped without an answer.
addToQueue(h, i) ==
  IF isQueueFull(h) THEN h ELSE [h EXCEPT !.pending = Append(@, i)]

\* popFromQueue on a queue that is not empty; the element is Head(h.pending).
popFromQueue(h) == [h EXCEPT !.pending = Tail(@)]

=============================================================================
