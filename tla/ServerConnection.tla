-------------------------- MODULE ServerConnection --------------------------
(***************************************************************************)
(* ServerConnection and InterceptIOChannel (server_connection.h/.cc): one  *)
(* TCP connection to the FastCGI application, the request it carries and   *)
(* its two buffered channels.                                              *)
(*                                                                         *)
(* The plugin's objects form one record h, the heap: h.conn[c] is the      *)
(* connection object c and h.icept[i] the ServerIntercept of request i.    *)
(* Every C++ function that changes them is an operator from heaps to       *)
(* heaps, so a handler that calls several functions is their composition.  *)
(* A record on a channel stands for one FastCGI record.                    *)
(***************************************************************************)
EXTENDS Naturals, Sequences

CONSTANTS Intercepts,   \* the client requests (ServerIntercept objects)
          Conns,        \* the addresses of ServerConnection objects
          NULL          \* the null pointer

ASSUME NullAssumption == NULL \notin Intercepts \cup Conns

\* What phpWrite puts on the write channel. BEGIN is FCGI_BEGIN_REQUEST with
\* its FCGI_PARAMS, EOF is the empty FCGI_STDIN record that ends the input.
RequestRecord == [type: {"BEGIN", "STDIN", "EOF"}, req: Intercepts]

\* What the application answers: the n-th output record of request req, an
\* FCGI_STDOUT or FCGI_STDERR, or FCGI_END_REQUEST after n output records.
ResponseRecord == [type: {"STDOUT", "STDERR", "END"}, req: Intercepts, n: Nat]

\* One request in service at the far end of a connection.
Job == [req: Intercepts, eof: BOOLEAN, sent: Nat]

\* CLOSED is never seen between two handlers: every path that sets it deletes
\* the object before it returns. NONE marks memory that holds no object.
State == {"NONE", "INITIATED", "READY", "INUSE", "COMPLETE"}

Connection ==
  [state      : State,
   vc         : BOOLEAN,          \* vc_ # nullptr
   dialing    : BOOLEAN,          \* TSNetConnect has not answered yet
   requestId  : Nat,              \* _requestId, 0 when there is none
   req_count  : Nat,              \* _req_count
   fcgi       : Intercepts \cup {NULL},  \* _fcgiRequest, by its transaction
   writeOpen  : BOOLEAN,          \* writeio.iobuf # nullptr
   readEnable : BOOLEAN,          \* writeio.readEnable
   armed      : BOOLEAN,          \* the write VIO was reenabled
   writeBuf   : Seq(RequestRecord),   \* writeio.iobuf
   readOpen   : BOOLEAN,          \* readio.iobuf # nullptr
   readable   : BOOLEAN,          \* bytes came in since the last READ_READY
   readBuf    : Seq(ResponseRecord),  \* readio.iobuf and the socket
   jobs       : SUBSET Job]       \* the far end of vc_

\* Memory without an object.
NoConnection ==
  [state |-> "NONE", vc |-> FALSE, dialing |-> FALSE, requestId |-> 0,
   req_count |-> 0, fcgi |-> NULL, writeOpen |-> FALSE, readEnable |-> FALSE,
   armed |-> FALSE, writeBuf |-> <<>>, readOpen |-> FALSE, readable |-> FALSE,
   readBuf |-> <<>>, jobs |-> {}]

\* The object the constructor makes.
NewConnection == [NoConnection EXCEPT !.state = "INITIATED"]

-----------------------------------------------------------------------------

\* The setters of a connection k or an intercept.
setState(k, state) == [k EXCEPT !.state = state]

setRequestId(k, r) == [k EXCEPT !.requestId = r]

\* Mutant: the connection starts to serve without a FastCGI request.
InUseWithoutClient(k, i) == [k EXCEPT !.state = "INUSE", !.req_count = @ + 1]

\* What the connection keeps of a request it starts to serve.
InUse(k, i) == [k EXCEPT !.fcgi = i, !.state = "INUSE", !.req_count = @ + 1]

\* Transaction::addPlugin and Transaction::resume.
Attached(p) == [p EXCEPT !.plugins = @ + 1, !.reenabled = @ + 1]

\* Attaches the intercept to its transaction, lets the transaction go on and
\* starts a FastCGI request for it.
createFCGIClient(h, c, i) ==
  IF h.conn[c].state \in {"READY", "COMPLETE"}
  THEN [h EXCEPT !.icept[i] = Attached(@), !.conn[c] = InUse(@, i)]
  ELSE h

Released(k) == [k EXCEPT !.fcgi = NULL, !.state = "READY"]

\* Frees the FastCGI request of a connection whose response is complete, and
\* only then.
releaseFCGIClient(h, c) ==
  IF h.conn[c].state = "COMPLETE" THEN [h EXCEPT !.conn[c] = Released(@)] ELSE h

\* Dials the application; the answer comes back as an event.
createConnection(h, c) == [h EXCEPT !.conn[c].dialing = TRUE]

\* InterceptIOChannel::read: starts reading, once per connection.
read(h, c) == [h EXCEPT !.conn[c].readOpen = TRUE]

\* A final write enables the reading side but does not reenable the VIO;
\* opening the channel does.
Written(k, records, endflag) ==
  [k EXCEPT !.writeBuf   = @ \o records,
            !.armed      = @ \/ ~k.writeOpen \/ ~endflag,
            !.writeOpen  = TRUE,
            !.readEnable = @ \/ endflag]

\* InterceptIOChannel::phpWrite: queues records. TSVConnClosedGet does not
\* survive a null vc_.
phpWrite(h, c, records, endflag) ==
  IF h.conn[c].vc
  THEN [h EXCEPT !.conn[c] = Written(@, records, endflag)]
  ELSE [h EXCEPT !.crashed = TRUE]

=============================================================================
