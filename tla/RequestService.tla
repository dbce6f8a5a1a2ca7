--------------------------- MODULE RequestService ---------------------------
(***************************************************************************)
(* What the server promises to requests, without connections, ids and      *)
(* events: a number of slots, and a queue of bounded length for the        *)
(* requests that find none free. A request that ends hands its slot to the *)
(* head of the queue. The one weak spot is a connection that fails: its    *)
(* slot becomes free and nobody in the queue is told.                      *)
(***************************************************************************)
EXTENDS Integers, Sequences, FiniteSets

CONSTANTS Requests,
          Slots,      \* requests served at a time
          Places,     \* places in the queue
          Failures    \* whether connections fail

VARIABLES arrived,    \* the requests that came
          serving,    \* the requests in service
          waiting     \* the queue

vars == <<arrived, serving, waiting>>

Init == arrived = {} /\ serving = {} /\ waiting = <<>>

\* A request that finds the queue full is turned away.
Enqueued(i) == IF Len(waiting) < Places THEN Append(waiting, i) ELSE waiting

Arrive(i) ==
  /\ i \notin arrived
  /\ arrived' = arrived \cup {i}
  /\ IF Cardinality(serving) < Slots
     THEN serving' = serving \cup {i} /\ UNCHANGED waiting
     ELSE waiting' = Enqueued(i) /\ UNCHANGED serving

Finish(i) ==
  /\ i \in serving
  /\ IF waiting = <<>>
     THEN serving' = serving \ {i} /\ UNCHANGED waiting
     ELSE /\ serving' = (serving \ {i}) \cup {Head(waiting)}
          /\ waiting' = Tail(waiting)
  /\ UNCHANGED arrived

\* The connection fails and the request is lost.
Fail(i) ==
  /\ i \in serving
  /\ serving' = serving \ {i}
  /\ UNCHANGED <<arrived, waiting>>

\* The connection fails before the request was sent. The slot is still taken by
\* the failed connection, so with no other one free the request goes to the end
\* of the queue.
Retry(i) ==
  /\ i \in serving
  /\ Cardinality(serving) = Slots
  /\ serving' = serving \ {i}
  /\ waiting' = Enqueued(i)
  /\ UNCHANGED arrived

Next ==
  \E i \in Requests :
    \/ Arrive(i)
    \/ Finish(i)
    \/ Failures /\ (Fail(i) \/ Retry(i))

Spec == Init /\ [][Next]_vars

\* A request in service comes to its end.
FairSpec == Spec /\ \A i \in Requests : WF_vars(Finish(i))

=============================================================================
