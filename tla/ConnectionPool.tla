--------------------------- MODULE ConnectionPool ---------------------------
(***************************************************************************)
(* ConnectionPool (connection_pool.h/.cc): the connections of one thread.  *)
(* h.connections is _connections, of which only the size and membership    *)
(* are ever used; h.available is _available_connections in list order.     *)
(***************************************************************************)
EXTENDS ServerConnection, Lists, FiniteSets

CONSTANTS MaxConnections,   \* max_connections of the configuration
          MaxRequests       \* max_requests of the configuration

ASSUME PoolAssumption ==
  /\ MaxConnections \in Nat
  /\ MaxRequests \in Nat
  /\ IsFiniteSet(Conns)
  /\ Cardinality(Conns) >= MaxConnections \div 6

\* _maxConn: the share of one thread.
maxConn == MaxConnections \div 6

-----------------------------------------------------------------------------

addConnection(h, c) == [h EXCEPT !.connections = @ \cup {c}]

\* New connections up to the limit, then the one idle for the longest time.
\* Returns the connection, or NULL, and the heap.
getAvailableConnection(h) ==
  IF Cardinality(h.connections) < maxConn
  THEN LET c == CHOOSE c \in Conns : c \notin h.connections
       IN  [conn |-> c,
            heap |-> addConnection([h EXCEPT !.conn[c] = NewConnection], c)]
  ELSE IF h.available # <<>>
  THEN LET c == Head(h.available)
       IN  [conn |-> c,
            heap |-> [h EXCEPT !.available = Tail(@),
                               !.conn[c]   = setState(@, "READY")]]
  ELSE [conn |-> NULL, heap |-> h]

\* Mutant: the next request finds the reading side enabled already.
ReusableReading(k) == [k EXCEPT !.state = "READY"]

Reusable(k) == [k EXCEPT !.readEnable = FALSE, !.state = "READY"]

\* Back to the idle list, whatever the far end is still doing.
reuseConnection(h, c) ==
  [h EXCEPT !.conn[c] = Reusable(@), !.available = Append(@, c)]

\* Mutants: the object is closed and not deleted; the idle list keeps it.
poolConnectionClosedLeaks(h, c) ==
  [h EXCEPT !.available   = ListRemove(@, c),
            !.connections = @ \ {c},
            !.conn[c]     = setState(@, "CLOSED"),
            !.crashed     = @ \/ h.conn[c].dialing]

poolConnectionClosedDangles(h, c) ==
  [h EXCEPT !.connections = @ \ {c},
            !.conn[c]     = NoConnection,
            !.crashed     = @ \/ h.conn[c].dialing]

\* Takes the connection off both lists and deletes it. The destructor destroys
\* the continuation, which TSNetConnect must not have to call any more.
poolConnectionClosed(h, c) ==
  [h EXCEPT !.available   = ListRemove(@, c),
            !.connections = @ \ {c},
            !.conn[c]     = NoConnection,
            !.crashed     = @ \/ h.conn[c].dialing]

=============================================================================
