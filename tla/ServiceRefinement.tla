------------------------- MODULE ServiceRefinement -------------------------
(***************************************************************************)
(* FcgiSystem implements RequestService: the requests in service are those *)
(* of _intercept_list, the queue is pending_list.                          *)
(***************************************************************************)
EXTENDS FcgiSystem

Arrived == {i \in Intercepts : input[i] # "new"}

Service == INSTANCE RequestService WITH
  Requests <- Intercepts, Slots <- maxConn, Places <- RequestQueueSize,
  Failures <- TRUE,
  arrived <- Arrived, serving <- MappedIntercepts(server), waiting <- server.pending

Ideal == INSTANCE RequestService WITH
  Requests <- Intercepts, Slots <- maxConn, Places <- RequestQueueSize,
  Failures <- FALSE,
  arrived <- Arrived, serving <- MappedIntercepts(server), waiting <- server.pending

\* connect, reConnect, removeIntercept, connectionClosed: with every kind of
\* failure, up to the step that crashes, each handler does to the requests what
\* one step of RequestService does, or nothing.
ImplementsService ==
  Service!Init /\ [][Service!Next \/ server.crashed']_(Service!vars)

\* With connections that do not fail while they serve a request the plugin is
\* the service without failures: slots are handed on in the order of arrival
\* and every request in service comes to its end.
ImplementsIdeal == Ideal!FairSpec

=============================================================================
