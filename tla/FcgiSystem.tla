----------------------------- MODULE FcgiSystem -----------------------------
(***************************************************************************)
(* The plugin on one Traffic Server thread: handlePHPConnectionEvents      *)
(* (server.cc), the cache lookup hook (ats_fastcgi.cc) and the callbacks   *)
(* of the intercepts (server_intercept.cc), with the client transactions   *)
(* and the FastCGI application around them.                                *)
(*                                                                         *)
(* An event handler runs to completion before the next event of its        *)
(* thread, so each handler is one action; which event comes next is open.  *)
(***************************************************************************)
EXTENDS Server

CONSTANTS Posts,    \* the requests with a body
          Faults,   \* the kinds of failure that may happen
          MaxId,    \* bound on request ids, so that retries are finite
          MaxOut    \* bound on output records of one response

FaultKinds == {"connect_failed", "eos_idle", "eos_request", "eos_response",
               "error", "abort", "stderr"}

ASSUME SystemAssumption ==
  /\ Posts \subseteq Intercepts
  /\ Faults \subseteq FaultKinds
  /\ MaxId \in Nat
  /\ MaxOut \in Nat

VARIABLES server,   \* the plugin's objects, see Heap
          input     \* what the client of each request has sent

vars == <<server, input>>

\* A transaction is "new" until the cache lookup, then its request streams in:
\* nothing yet, the header, everything.
Input == {"new", "none", "header", "done"}

Init ==
  /\ server = EmptyHeap
  /\ input = [i \in Intercepts |-> "new"]

\* The intercept that serves connection c, or NULL.
InterceptOf(c) == getIntercept(server, server.conn[c].requestId)

\* Atomic handlers may only run while the process is there.
Running == ~server.crashed

-----------------------------------------------------------------------------
(***************************************************************************)
(* Transactions.                                                           *)
(***************************************************************************)

Constructed(p) == [p EXCEPT !.alive = TRUE]

\* handleReadCacheLookupComplete for a request that is not a fresh cache hit.
CacheLookupComplete(i) ==
  /\ Running
  /\ input[i] = "new"
  /\ server' = connect([server EXCEPT !.icept[i] = Constructed(@)], i)
  /\ input' = [input EXCEPT ![i] = "none"]

\* The host streams a request only to an intercept that was added to the
\* transaction and still exists.
Streaming(i) == server.icept[i].alive /\ server.icept[i].plugins > 0

\* consume(REQUEST_HEADER) and handleInputComplete for a request without body.
StreamRequest(i) ==
  /\ Running
  /\ Streaming(i)
  /\ i \notin Posts
  /\ input[i] = "none"
  /\ LET r  == server.icept[i].requestId
         h1 == writeRequestHeader(server, r)
     IN  server' = IF h1.crashed THEN h1
                   ELSE writeRequestBodyComplete(h1, r, FALSE)
  /\ input' = [input EXCEPT ![i] = "done"]

\* consume(REQUEST_HEADER) for a request with a body.
StreamHeader(i) ==
  /\ Running
  /\ Streaming(i)
  /\ i \in Posts
  /\ input[i] = "none"
  /\ server' = writeRequestHeader(server, server.icept[i].requestId)
  /\ input' = [input EXCEPT ![i] = "header"]

\* consume(REQUEST_BODY) and handleInputComplete: the body is one chunk here,
\* and its end comes in the same event. FcgiEncoder has bodies in more chunks.
StreamBody(i) ==
  /\ Running
  /\ Streaming(i)
  /\ input[i] = "header"
  /\ LET r  == server.icept[i].requestId
         h1 == writeRequestBody(server, r)
     IN  server' = IF h1.crashed THEN h1
                   ELSE writeRequestBodyComplete(h1, r, TRUE)
  /\ input' = [input EXCEPT ![i] = "done"]

\* The transaction ends and deletes its plugins: after the response, after an
\* error page, or because the client went away. An intercept that was added
\* twice is deleted twice.
TxnClose(i) ==
  /\ Running
  /\ Streaming(i)
  /\ \/ server.icept[i].outputComplete
     \/ server.icept[i].failed
     \/ "abort" \in Faults
  /\ LET h1 == destroyIntercept(server, i)
     IN  server' = [h1 EXCEPT !.crashed = @ \/ server.icept[i].plugins > 1]
  /\ UNCHANGED input

-----------------------------------------------------------------------------
(***************************************************************************)
(* handlePHPConnectionEvents, by event. TS_EVENT_VCONN_READ_COMPLETE does  *)
(* not occur: the read asks for INT64_MAX bytes.                           *)
(***************************************************************************)

\* Mutant: the handle of the connection is not kept.
EstablishedWithoutHandle(k) == [k EXCEPT !.dialing = FALSE, !.state = "READY"]

\* What TSNetConnect came to.
Established(k) == [k EXCEPT !.dialing = FALSE, !.vc = TRUE, !.state = "READY"]

Refused(k) == [k EXCEPT !.dialing = FALSE]

\* TS_EVENT_NET_CONNECT
NetConnect(c) ==
  /\ Running
  /\ server.conn[c].dialing
  /\ LET h1 == [server EXCEPT !.phpConnCount = @ + 1,
                              !.conn[c]      = Established(@)]
     IN  server' = IF InterceptOf(c) = NULL THEN h1
                   ELSE createFCGIClient(h1, c, InterceptOf(c))
  /\ UNCHANGED input

\* TS_EVENT_NET_CONNECT_FAILED. The request is connected anew before the
\* failed connection gives up its place in the pool.
NetConnectFailed(c) ==
  /\ Running
  /\ "connect_failed" \in Faults
  /\ server.nextId <= MaxId
  /\ server.conn[c].dialing
  /\ LET h1 == [server EXCEPT !.phpConnCount = @ + 1, !.conn[c] = Refused(@)]
     IN  server' = connectionClosed(reConnect(h1, server.conn[c].requestId), c)
  /\ UNCHANGED input

Drained(k) == [k EXCEPT !.readable = FALSE]

\* TS_EVENT_VCONN_READ_READY. What arrives for no intercept stays in the
\* buffer.
ReadReady(c) ==
  /\ Running
  /\ server.conn[c].readOpen
  /\ server.conn[c].readable
  /\ LET i  == InterceptOf(c)
         h1 == [server EXCEPT !.conn[c] = Drained(@)]
     IN  IF i = NULL
         THEN server' = h1
         ELSE \E cut \in 1 .. Len(server.conn[c].readBuf) :
                LET t == interceptTransferData(h1, c, i, cut)
                IN  server' =
                      IF t.responseStatus
                      THEN setResponseOutputComplete(
                             [t.heap EXCEPT !.conn[c] = setState(@, "COMPLETE")],
                             i)
                      ELSE t.heap
  /\ UNCHANGED input

\* The far end takes in what was written: FCGI_BEGIN_REQUEST starts a job, the
\* end of the input completes it. A job does not wait for the one before it: an
\* application that a request without an end keeps busy is not modelled.
AppReceive(jobs, records) ==
  LET Has(type, i) == \E k \in DOMAIN records :
                         records[k] = [type |-> type, req |-> i]
      started == {i \in Intercepts : Has("BEGIN", i)}
  IN  {[j EXCEPT !.eof = @ \/ Has("EOF", j.req)] :
         j \in jobs \cup [req: started, eof: {FALSE}, sent: {0}]}

Flushed(k) == [k EXCEPT !.armed = FALSE, !.writeBuf = <<>>,
                        !.jobs = AppReceive(@, k.writeBuf)]

\* Mutant: the request is written but its response is not read.
WriteReadyOnly(c) ==
  /\ Running
  /\ server.conn[c].armed
  /\ server' = [server EXCEPT !.conn[c] = Flushed(@)]
  /\ UNCHANGED input

\* TS_EVENT_VCONN_WRITE_READY, when the host has written the buffer out. With
\* readEnable the handler goes on as for TS_EVENT_VCONN_WRITE_COMPLETE.
WriteReady(c) ==
  /\ Running
  /\ server.conn[c].armed
  /\ LET h1 == [server EXCEPT !.conn[c] = Flushed(@)]
     IN  server' = IF server.conn[c].readEnable THEN read(h1, c) ELSE h1
  /\ UNCHANGED input

\* When the application closes a connection.
EosKind(c) ==
  IF InterceptOf(c) = NULL THEN "eos_idle"
  ELSE IF server.conn[c].readEnable THEN "eos_response" ELSE "eos_request"

\* Mutant: a request is sent again although it was sent completely.
EosReconnects(c) ==
  /\ Running
  /\ EosKind(c) \in Faults
  /\ EosKind(c) # "eos_idle" => server.nextId <= MaxId
  /\ server.conn[c].writeOpen
  /\ server' = connectionClosed(
                 reConnect(server, server.conn[c].requestId), c)
  /\ UNCHANGED input

\* TS_EVENT_VCONN_EOS
Eos(c) ==
  /\ Running
  /\ EosKind(c) \in Faults
  /\ EosKind(c) = "eos_request" => server.nextId <= MaxId
  /\ server.conn[c].writeOpen
  /\ LET i == InterceptOf(c)
     IN  IF ~server.conn[c].readEnable
         THEN server' = connectionClosed(
                          reConnect(server, server.conn[c].requestId), c)
         ELSE server' = connectionClosed(
                IF /\ server.conn[c].state # "COMPLETE"
                   /\ i # NULL
                   /\ ~server.icept[i].outputComplete
                THEN transactionError(server, i) ELSE server, c)
  /\ UNCHANGED input

\* Mutant: as after EOS, the request is also sent again.
ErrorRetries(c) ==
  /\ Running
  /\ "error" \in Faults
  /\ server.nextId <= MaxId
  /\ server.conn[c].writeOpen
  /\ LET i  == InterceptOf(c)
         h1 == IF i # NULL THEN transactionError(server, i) ELSE server
     IN  server' = connectionClosed(
                     reConnect(h1, server.conn[c].requestId), c)
  /\ UNCHANGED input

\* TS_EVENT_ERROR. The handler aborts the host's connection and keeps vc_, which
\* the destructor then closes as well; the host's side of that is left out.
Error(c) ==
  /\ Running
  /\ "error" \in Faults
  /\ server.conn[c].writeOpen
  /\ LET i == InterceptOf(c)
     IN  server' = connectionClosed(
                     IF i # NULL THEN transactionError(server, i) ELSE server, c)
  /\ UNCHANGED input

-----------------------------------------------------------------------------
(***************************************************************************)
(* The FastCGI application. It may answer the requests of a connection in  *)
(* any order, and end one before it has read all of its input.             *)
(***************************************************************************)

\* Job j of connection k sends a record and becomes the jobs in left, of which
\* there is at most one.
Answered(k, j, record, left) ==
  [k EXCEPT !.readBuf = Append(@, record), !.readable = TRUE,
            !.jobs = (@ \ {j}) \cup left]

Answer(c, j, type, n, left) ==
  /\ Running
  /\ LET record == [type |-> type, req |-> j.req, n |-> n]
     IN  server' = [server EXCEPT !.conn[c] = Answered(@, j, record, left)]
  /\ UNCHANGED input

AppOutput(c, j, type) ==
  /\ j.sent < MaxOut
  /\ Answer(c, j, type, j.sent + 1, {[j EXCEPT !.sent = @ + 1]})

AppStdout(c, j) == AppOutput(c, j, "STDOUT")

AppStderr(c, j) == "stderr" \in Faults /\ AppOutput(c, j, "STDERR")

AppEnd(c, j) == Answer(c, j, "END", j.sent, {})

-----------------------------------------------------------------------------

Next ==
  \/ \E i \in Intercepts :
       \/ CacheLookupComplete(i)
       \/ StreamRequest(i)
       \/ StreamHeader(i)
       \/ StreamBody(i)
       \/ TxnClose(i)
  \/ \E c \in Conns :
       \/ NetConnect(c)
       \/ NetConnectFailed(c)
       \/ ReadReady(c)
       \/ WriteReady(c)
       \/ Eos(c)
       \/ Error(c)
       \/ \E j \in server.conn[c].jobs :
            AppStdout(c, j) \/ AppStderr(c, j) \/ AppEnd(c, j)

Spec == Init /\ [][Next]_vars

TxnDone(i) ==
  /\ server.icept[i].outputComplete \/ server.icept[i].failed
  /\ TxnClose(i)

AppDone(c) == \E j \in server.conn[c].jobs : j.eof /\ AppEnd(c, j)

\* What is due: input the client sends, the end of a transaction that has its
\* response, events of connections, the end of a request whose input the
\* application has. Each occurrence uses up what made it due, so it is enough
\* that the event loop does not stop while something is due.
Due ==
  \/ \E i \in Intercepts :
       StreamRequest(i) \/ StreamHeader(i) \/ StreamBody(i) \/ TxnDone(i)
  \/ \E c \in Conns :
       NetConnect(c) \/ WriteReady(c) \/ ReadReady(c) \/ AppDone(c)

FairSpec == Spec /\ WF_vars(Due)

-----------------------------------------------------------------------------
(***************************************************************************)
(* Safety.                                                                 *)
(***************************************************************************)

\* The requests and the connections in service, the connections in the pool
\* that serve no request, and the requests in the queue.
MappedIntercepts(h) == {e.intercept : e \in h.intercept_list}

MappedConns(h) == {e.conn : e \in h.intercept_list}

Idle(h) == Elements(h.available)

Queued(h) == Elements(h.pending)

\* Both lists of the pool and its limit, when the connections in D have been
\* taken from one request and not yet been closed or given to another.
PoolInv(h, D) ==
  /\ Injective(h.available)
  /\ h.connections = Idle(h) \cup MappedConns(h) \cup D
  /\ Idle(h) \cap MappedConns(h) = {}
  /\ D \cap (Idle(h) \cup MappedConns(h)) = {}
  /\ Cardinality(h.connections) <= maxConn

MapInv(h) ==
  /\ \A e \in h.intercept_list :
       /\ e.id \in 1 .. h.nextId - 1
       /\ \A c \in Conns : h.conn[c].requestId = e.id <=> c = e.conn
       /\ \A i \in Intercepts : h.icept[i].requestId = e.id <=> i = e.intercept
       /\ h.icept[e.intercept].alive
  /\ \A c \in Conns : h.conn[c].requestId < h.nextId
  /\ \A i \in Intercepts : h.icept[i].requestId < h.nextId

QueueInv(h) ==
  /\ Injective(h.pending)
  /\ Queued(h) \cap MappedIntercepts(h) = {}

\* The shapes of the objects and of the lists.
TypeOK ==
  /\ server \in Heap
  /\ input \in [Intercepts -> Input]

\* ConnectionPool: after every handler each connection of the pool is either
\* idle, once, or serves exactly one request, and there are no more than
\* _maxConn of them, whatever was closed, retried or aborted in between.
PoolConsistent == PoolInv(server, {})

\* Server::_intercept_list: every entry leads to a living intercept and to a
\* connection that both know its id, and no other connection or intercept does.
\* So an event of a connection reaches the request it serves, and no event
\* reaches a request that is gone.
MapConsistent == MapInv(server)

\* RequestQueue: a request waits once, does not wait while it is served, and
\* neither waits nor is served once its response is complete.
QueueConsistent ==
  /\ QueueInv(server)
  /\ \A i \in Queued(server) \cup MappedIntercepts(server) :
       ~server.icept[i].outputComplete /\ input[i] # "new"
  /\ \A i \in Intercepts : input[i] = "new" => ~server.icept[i].outputComplete

\* reuseConnection: an idle connection carries nothing over from the request
\* it served: it is READY, has no request id and will not read too early.
IdleReset ==
  \A c \in Idle(server) :
    /\ server.conn[c].state = "READY"
    /\ server.conn[c].requestId = 0
    /\ ~server.conn[c].readEnable

\* getAvailableConnection: an idle connection is connected, so that the next
\* request may be written to it at once. A connection that is given back while
\* it is still being dialled breaks this: see "eos_request" with "abort".
IdleUp == \A c \in Idle(server) : server.conn[c].vc

\* removeIntercept: no connection carries more than max_requests requests (if
\* max_requests is not 0, which means 1: the limit is looked at after a request).
RequestLimit == \A c \in Conns : server.conn[c].req_count <= MaxRequests

\* phpConnCount, over all paths on which connections come and go, counts the
\* connections that are up.
StatExact ==
  Running => server.phpConnCount = Cardinality({c \in Conns : server.conn[c].vc})

\* No handler follows a null pointer (_fcgiRequest, vc_), uses a ServerIntercept
\* that was deleted, or deletes one twice.
NoCrash == ~server.crashed

\* createFCGIClient: however often its connection is refused, and whatever
\* becomes of it later, a request is added to its transaction once.
AddedOnce == \A i \in Intercepts : server.icept[i].plugins <= 1

\* What no longer happens to a request that was failed, and that it was failed
\* once: one call of error on top of one resume for each time it was added.
NoMore(h, i) ==
  /\ i \notin Queued(h) \cup MappedIntercepts(h)
  /\ ~h.icept[i].outputComplete
  /\ h.icept[i].reenabled = h.icept[i].plugins + 1

\* Transaction::error, on EOS and ERROR: a transaction that was resumed may be
\* failed later, but that is the last of it. Whatever its client and other
\* connections do then, its request is not connected, queued or retried again,
\* nor resumed, completed or failed a second time.
FailedLast ==
  \A i \in Intercepts : server.icept[i].failed => NoMore(server, i)

\* The queue is only served when a request in service ends (removeIntercept).
\* A request that waits while none is in service waits for ever.
NoStranded == server.pending # <<>> => server.intercept_list # {}

\* removeIntercept: when a connection becomes idle, the application is done
\* with its request and all it sent has been read. What is left would be taken
\* for the response of the next request.
IdleQuiet ==
  \A c \in Idle(server) : server.conn[c].jobs = {} /\ server.conn[c].readBuf = <<>>

\* The first output records of request i, then possibly its end.
Faithful(i, response) ==
  \A k \in DOMAIN response :
    \/ response[k] = [type |-> "STDOUT", req |-> i, n |-> k]
    \/ /\ response[k] = [type |-> "END", req |-> i, n |-> k - 1]
       /\ k = Len(response)

\* interceptTransferData: a client gets the output of its own request, all of
\* it and in order, and its response is complete exactly when the application
\* ended it, on whichever connections and in whatever buffer blocks it came.
ResponseIntegrity ==
  \A i \in Intercepts :
    LET response == server.icept[i].response
    IN  /\ Faithful(i, response)
        /\ server.icept[i].outputComplete
             <=> response # <<>> /\ response[Len(response)].type = "END"

\* connect and removeIntercept: a request that comes while others wait does not
\* get a connection before them.
NoOvertaking ==
  [][\A i \in MappedIntercepts(server)' \ MappedIntercepts(server) :
       server.pending # <<>> => i = Head(server.pending)]_vars

\* connect, removeIntercept and the write events: every request that got a
\* connection or a place in the queue is answered, unless its client goes away.
AllAnswered ==
  \A i \in Intercepts :
    i \in Queued(server) \cup MappedIntercepts(server) ~>
      \/ server.icept[i].outputComplete \/ server.icept[i].failed
      \/ ~server.icept[i].alive

=============================================================================
