------------------------------- MODULE Server -------------------------------
(***************************************************************************)
(* Server (server.h/.cc) and ServerIntercept (server_intercept.h/.cc): the *)
(* map from request ids to the intercept and the connection that serve     *)
(* them, and the functions that tie requests to connections.               *)
(*                                                                         *)
(* h.intercept_list is _intercept_list, a set of entries with distinct     *)
(* ids; h.nextId is UniqueRequesID::_id; h.phpConnCount is the statistic   *)
(* of that name; h.crashed records that a null or dangling pointer was     *)
(* used.                                                                   *)
(***************************************************************************)
EXTENDS ConnectionPool, RequestQueue, Integers

Entry == [id: Nat, intercept: Intercepts, conn: Conns]

\* A ServerIntercept, with what it did to its transaction.
Intercept ==
  [alive     : BOOLEAN,     \* constructed and not yet destroyed
   requestId : Nat,         \* _request_id
   plugins   : Nat,         \* calls of Transaction::addPlugin
   reenabled : Nat,         \* calls of Transaction::resume and error
   failed    : BOOLEAN,     \* Transaction::error was called
   outputComplete : BOOLEAN,         \* outputCompleteState
   response  : Seq(ResponseRecord)]  \* decoded on behalf of this request

NoIntercept ==
  [alive |-> FALSE, requestId |-> 0, plugins |-> 0, reenabled |-> 0,
   failed |-> FALSE, outputComplete |-> FALSE, response |-> <<>>]

Heap ==
  [conn           : [Conns -> Connection],
   icept          : [Intercepts -> Intercept],
   connections    : SUBSET Conns,
   available      : Seq(Conns),
   pending        : Seq(Intercepts),
   intercept_list : SUBSET Entry,
   nextId         : Nat,
   phpConnCount   : Int,
   crashed        : BOOLEAN]

EmptyHeap ==
  [conn           |-> [c \in Conns |-> NoConnection],
   icept          |-> [i \in Intercepts |-> NoIntercept],
   connections    |-> {},
   available      |-> <<>>,
   pending        |-> <<>>,
   intercept_list |-> {},
   nextId         |-> 1,
   phpConnCount   |-> 0,
   crashed        |-> FALSE]

-----------------------------------------------------------------------------
(***************************************************************************)
(* The map of requests in service.                                         *)
(***************************************************************************)

Mapped(h, r) == \E e \in h.intercept_list : e.id = r

EntryOf(h, r) == CHOOSE e \in h.intercept_list : e.id = r

getIntercept(h, r) == IF Mapped(h, r) THEN EntryOf(h, r).intercept ELSE NULL

getServerConnection(h, r) == IF Mapped(h, r) THEN EntryOf(h, r).conn ELSE NULL

erase(h, r) == [h EXCEPT !.intercept_list = {e \in @ : e.id # r}]

-----------------------------------------------------------------------------
(***************************************************************************)
(* Assigning connections to requests.                                      *)
(***************************************************************************)

\* Binds request i to connection c under a fresh id; a connection that is
\* already up starts serving at once.
initiateBackendConnection(h, i, c) ==
  LET r  == h.nextId
      h1 == [h EXCEPT !.nextId         = @ + 1,
                      !.icept[i]       = setRequestId(@, r),
                      !.conn[c]        = setRequestId(@, r),
                      !.intercept_list = {e \in @ : e.id # r} \cup
                           {[id |-> r, intercept |-> i, conn |-> c]}]
  IN  IF h1.conn[c].state # "READY"
      THEN createConnection(h1, c)
      ELSE createFCGIClient(h1, c, i)

\* A connection for request i, or a place in the queue.
connect(h, i) ==
  LET g == getAvailableConnection(h)
  IN  IF g.conn # NULL
      THEN initiateBackendConnection(g.heap, i, g.conn)
      ELSE addToQueue(g.heap, i)

reConnect(h, r) ==
  LET i == getIntercept(h, r)
  IN  IF i # NULL THEN connect(erase(h, r), i) ELSE h

\* Mutants: the request of a closed connection stays in the map; the statistic
\* counts connections that were ever made.
connectionClosedKeepsEntry(h, c) ==
  LET h1 == poolConnectionClosed(h, c)
  IN  [h1 EXCEPT !.phpConnCount = @ - 1]

connectionClosedUncounted(h, c) ==
  poolConnectionClosed(erase(h, h.conn[c].requestId), c)

connectionClosed(h, c) ==
  LET h1 == poolConnectionClosed(erase(h, h.conn[c].requestId), c)
  IN  [h1 EXCEPT !.phpConnCount = @ - 1]

\* Mutants: the request stays at the head of the queue; a request that finds no
\* idle connection is lost.
serveNextPeeks(h) ==
  IF h.pending = <<>> THEN h
  ELSE IF h.icept[Head(h.pending)].alive THEN connect(h, Head(h.pending))
  ELSE [popFromQueue(h) EXCEPT !.crashed = TRUE]

serveNextIdleOnly(h) ==
  IF h.pending = <<>> THEN h
  ELSE IF h.available = <<>> THEN popFromQueue(h)
  ELSE connect(popFromQueue(h), Head(h.pending))

\* Serves the request at the head of the queue, if there is one.
serveNext(h) ==
  IF h.pending = <<>>
  THEN h
  ELSE LET i  == Head(h.pending)
           h1 == popFromQueue(h)
       IN  IF h.icept[i].alive THEN connect(h1, i)
           ELSE [h1 EXCEPT !.crashed = TRUE]

\* Mutants: a connection carries one request too many; a connection that goes
\* back to the pool does not let the next request in.
removeInterceptLate(h, r) ==
  IF ~Mapped(h, r)
  THEN h
  ELSE LET c  == getServerConnection(h, r)
           h1 == releaseFCGIClient(erase(h, r), c)
           h2 == [h1 EXCEPT !.conn[c] = setRequestId(@, 0)]
           h3 == IF MaxRequests >= h2.conn[c].req_count
                 THEN reuseConnection(h2, c)
                 ELSE connectionClosed(h2, c)
       IN  serveNext(h3)

removeInterceptNoNext(h, r) ==
  IF ~Mapped(h, r)
  THEN h
  ELSE LET c  == getServerConnection(h, r)
           h1 == releaseFCGIClient(erase(h, r), c)
           h2 == [h1 EXCEPT !.conn[c] = setRequestId(@, 0)]
       IN  IF MaxRequests > h2.conn[c].req_count
           THEN reuseConnection(h2, c)
           ELSE serveNext(connectionClosed(h2, c))

\* Ends the service of request r: its connection goes back to the pool, or is
\* closed when it has carried max_requests requests.
removeIntercept(h, r) ==
  IF ~Mapped(h, r)
  THEN h
  ELSE LET c  == getServerConnection(h, r)
           h1 == releaseFCGIClient(erase(h, r), c)
           h2 == [h1 EXCEPT !.conn[c] = setRequestId(@, 0)]
           h3 == IF MaxRequests > h2.conn[c].req_count
                 THEN reuseConnection(h2, c)
                 ELSE connectionClosed(h2, c)
       IN  serveNext(h3)

-----------------------------------------------------------------------------
(***************************************************************************)
(* Streaming a request out. Each function reports whether the request is   *)
(* mapped; when it is not, the caller keeps the data and nobody reads it.  *)
(***************************************************************************)

\* What the three write functions share: without a FastCGI request on the
\* connection they follow a null pointer.
writeRecords(h, r, types, endflag) ==
  LET c == getServerConnection(h, r)
  IN  IF c = NULL THEN h
      ELSE IF h.conn[c].fcgi = NULL THEN [h EXCEPT !.crashed = TRUE]
      ELSE phpWrite(h, c,
             [k \in DOMAIN types |-> [type |-> types[k], req |-> h.conn[c].fcgi]],
             endflag)

writeRequestHeader(h, r) == writeRecords(h, r, <<"BEGIN">>, FALSE)

\* postBodyChunk ends every chunk of the body with an empty FCGI_STDIN.
writeRequestBody(h, r) == writeRecords(h, r, <<"STDIN", "EOF">>, FALSE)

\* emptyParam sends the end of the input, except for POST.
writeRequestBodyComplete(h, r, post) ==
  writeRecords(h, r, IF post THEN <<>> ELSE <<"EOF">>, TRUE)

-----------------------------------------------------------------------------
(***************************************************************************)
(* Taking a response in.                                                   *)
(***************************************************************************)

\* Mutant: any record ends the response.
StopsAtAny(block) == DOMAIN block

\* Where fcgiDecodeRecordChunk stops in one buffer block: at the first
\* FCGI_STDERR or FCGI_END_REQUEST, dropping what follows in the block.
StopsAt(block) == {k \in DOMAIN block : block[k].type \in {"STDERR", "END"}}

Decoded(block) ==
  IF StopsAt(block) = {} THEN block
  ELSE SubSeq(block, 1, CHOOSE k \in StopsAt(block) :
                          \A m \in StopsAt(block) : k <= m)

\* writeResponseChunkToATS
Produced(p, records) == [p EXCEPT !.response = @ \o records]

\* Mutant: what was decoded is not consumed.
interceptTransferDataPeeks(h, c, i, cut) ==
  LET buf    == h.conn[c].readBuf
      first  == SubSeq(buf, 1, cut)
      second == SubSeq(buf, cut + 1, Len(buf))
  IN  [heap |-> [h EXCEPT
                   !.icept[i] = Produced(@, Decoded(first) \o Decoded(second)),
                   !.crashed  = @ \/ h.conn[c].fcgi = NULL],
       responseStatus |->
         StopsAt(IF second = <<>> THEN first ELSE second) # {}]

\* interceptTransferData on a read buffer of two blocks, the second of which
\* may be empty: the status of the last block that has data wins.
interceptTransferData(h, c, i, cut) ==
  LET buf    == h.conn[c].readBuf
      first  == SubSeq(buf, 1, cut)
      second == SubSeq(buf, cut + 1, Len(buf))
  IN  [heap |-> [h EXCEPT
                   !.conn[c]  = [h.conn[c] EXCEPT !.readBuf = <<>>],
                   !.icept[i] = Produced(@, Decoded(first) \o Decoded(second)),
                   !.crashed  = @ \/ h.conn[c].fcgi = NULL],
       responseStatus |->
         StopsAt(IF second = <<>> THEN first ELSE second) # {}]

Complete(p) == [p EXCEPT !.outputComplete = TRUE]

setResponseOutputComplete(h, i) ==
  removeIntercept([h EXCEPT !.icept[i] = Complete(@)], h.icept[i].requestId)

Failed(p) == [p EXCEPT !.failed = TRUE, !.reenabled = @ + 1]

\* Transaction::error: the client gets an error page.
transactionError(h, i) == [h EXCEPT !.icept[i] = Failed(@)]

Destroyed(p) == [p EXCEPT !.alive = FALSE]

\* ~ServerIntercept.
destroyIntercept(h, i) ==
  LET h1 == IF h.icept[i].outputComplete THEN h
            ELSE removeIntercept(h, h.icept[i].requestId)
  IN  [h1 EXCEPT !.icept[i] = Destroyed(@)]

=============================================================================
