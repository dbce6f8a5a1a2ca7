---------------------------- MODULE ServerProofs ----------------------------
(***************************************************************************)
(* Proofs about FcgiSystem. First, for all values of the constants, the    *)
(* types and the consistency of the pool, the map of requests and the      *)
(* queue: the functions that leave alone what the invariants look at (the  *)
(* core), then those that do not, one lemma each, then one lemma for each  *)
(* event, and the theorems.                                                *)
(*                                                                         *)
(* Then the life of a connection, from TSNetConnect to its deletion, with  *)
(* everything that may fail (IdleReset, StatExact), and what holds as long *)
(* as the application closes no connection in the middle of a request      *)
(* (NoCrash, IdleUp, AddedOnce, RequestLimit). Last, again with everything *)
(* that may fail: a failed transaction is done with (FailedLast).          *)
(***************************************************************************)
EXTENDS FcgiSystem, ListProofs, FiniteSetTheorems, WellFoundedInduction

-----------------------------------------------------------------------------
(***************************************************************************)
(* The setters of connections and intercepts keep the types.               *)
(***************************************************************************)

\* setState, setRequestId and the other assignments to a ServerConnection.
LEMMA ConnectionSetters ==
  ASSUME NEW k \in Connection
  PROVE  /\ \A state \in State : setState(k, state) \in Connection
         /\ \A r \in Nat : setRequestId(k, r) \in Connection
         /\ \A i \in Intercepts : InUse(k, i) \in Connection
         /\ Released(k) \in Connection
         /\ Reusable(k) \in Connection
         /\ Established(k) \in Connection
         /\ Refused(k) \in Connection
         /\ Drained(k) \in Connection
<1>1. \A state \in State : setState(k, state) \in Connection
  BY DEF setState, Connection
<1>2. \A r \in Nat : setRequestId(k, r) \in Connection
  BY DEF setRequestId, Connection
<1>3. \A i \in Intercepts : InUse(k, i) \in Connection
  <2>1. k.req_count + 1 \in Nat
    BY DEF Connection
  <2> QED BY <2>1 DEF InUse, Connection, State
<1>4. Released(k) \in Connection
  BY DEF Released, Connection, State
<1>5. Reusable(k) \in Connection
  BY DEF Reusable, Connection, State
<1>6. Established(k) \in Connection
  BY DEF Established, Connection, State
<1>7. Refused(k) \in Connection /\ Drained(k) \in Connection
  BY DEF Refused, Drained, Connection
<1> QED BY <1>1, <1>2, <1>3, <1>4, <1>5, <1>6, <1>7

\* ~ServerConnection leaves no object, the constructor a fresh one; neither
\* has a request id.
LEMMA EmptyConnections ==
  /\ NoConnection \in Connection /\ NoConnection.requestId = 0
  /\ NewConnection \in Connection /\ NewConnection.requestId = 0
<1>1. /\ 0 \in Nat /\ <<>> \in Seq(RequestRecord) /\ <<>> \in Seq(ResponseRecord)
      /\ {} \in SUBSET Job
  OBVIOUS
<1>2. NoConnection \in Connection /\ NoConnection.requestId = 0
  BY <1>1 DEF NoConnection, Connection, State
<1>3. NewConnection \in Connection /\ NewConnection.requestId = 0
  BY <1>2 DEF NewConnection, Connection, State
<1> QED BY <1>2, <1>3

\* The assignments to a ServerIntercept and what its transaction records.
LEMMA InterceptSetters ==
  ASSUME NEW p \in Intercept
  PROVE  /\ \A r \in Nat : setRequestId(p, r) \in Intercept
         /\ Attached(p) \in Intercept
         /\ Complete(p) \in Intercept
         /\ Failed(p) \in Intercept
         /\ Destroyed(p) \in Intercept
         /\ Constructed(p) \in Intercept
         /\ \A records \in Seq(ResponseRecord) : Produced(p, records) \in Intercept
<1>0. p.plugins + 1 \in Nat /\ p.reenabled + 1 \in Nat
  BY DEF Intercept
<1>1. \A r \in Nat : setRequestId(p, r) \in Intercept
  BY DEF setRequestId, Intercept
<1>2. Attached(p) \in Intercept
  BY <1>0 DEF Attached, Intercept
<1>3. Failed(p) \in Intercept
  BY <1>0 DEF Failed, Intercept
<1>4. Complete(p) \in Intercept /\ Destroyed(p) \in Intercept /\ Constructed(p) \in Intercept
  BY DEF Complete, Destroyed, Constructed, Intercept
<1>5. \A records \in Seq(ResponseRecord) : Produced(p, records) \in Intercept
  <2> TAKE records \in Seq(ResponseRecord)
  <2>1. p.response \o records \in Seq(ResponseRecord)
    BY DEF Intercept
  <2> QED BY <2>1 DEF Produced, Intercept
<1> QED BY <1>1, <1>2, <1>3, <1>4, <1>5

\* phpWrite adds records to the buffer and may start the write VIO.
LEMMA WrittenType ==
  ASSUME NEW k \in Connection, NEW records \in Seq(RequestRecord),
         NEW endflag \in BOOLEAN
  PROVE  Written(k, records, endflag) \in Connection
<1>1. ASSUME NEW w \in Seq(RequestRecord), NEW a \in BOOLEAN, NEW r \in BOOLEAN
      PROVE  [k EXCEPT !.writeBuf = w, !.armed = a, !.writeOpen = TRUE,
                       !.readEnable = r] \in Connection
  BY DEF Connection
<1>2. k.writeBuf \o records \in Seq(RequestRecord)
  BY DEF Connection
<1>3. (k.armed \/ ~k.writeOpen \/ ~endflag) \in BOOLEAN
  OBVIOUS
<1>4. (k.readEnable \/ endflag) \in BOOLEAN
  OBVIOUS
<1> QED BY <1>1, <1>2, <1>3, <1>4, Zenon DEF Written

\* The application's jobs stay jobs when it reads requests.
LEMMA AppReceiveType ==
  ASSUME NEW jobs \in SUBSET Job, NEW records
  PROVE  AppReceive(jobs, records) \in SUBSET Job
<1> DEFINE Has(type, i) == \E k \in DOMAIN records :
                              records[k] = [type |-> type, req |-> i]
           started == {i \in Intercepts : Has("BEGIN", i)}
<1>1. [req: started, eof: {FALSE}, sent: {0}] \subseteq Job
  <2>1. started \subseteq Intercepts /\ 0 \in Nat
    OBVIOUS
  <2> HIDE DEF started
  <2> QED BY <2>1 DEF Job
<1>2. ASSUME NEW j \in Job, NEW b \in BOOLEAN
      PROVE  [j EXCEPT !.eof = b] \in Job
  BY DEF Job
<1>3. ASSUME NEW j \in Job
      PROVE  [j EXCEPT !.eof = @ \/ Has("EOF", j.req)] \in Job
  <2>1. (j.eof \/ Has("EOF", j.req)) \in BOOLEAN
    OBVIOUS
  <2> HIDE DEF Has
  <2> QED BY <1>2, <2>1, Zenon
<1> HIDE DEF Has
<1> QED BY <1>1, <1>3 DEF AppReceive, Has

\* A write buffer goes out to the application.
LEMMA FlushedType ==
  ASSUME NEW k \in Connection
  PROVE  Flushed(k) \in Connection
<1>1. AppReceive(k.jobs, k.writeBuf) \in SUBSET Job
  BY AppReceiveType DEF Connection
<1>2. <<>> \in Seq(RequestRecord)
  OBVIOUS
<1> QED BY <1>1, <1>2 DEF Flushed, Connection

\* The application sends a record.
LEMMA AnsweredType ==
  ASSUME NEW k \in Connection, NEW j, NEW record \in ResponseRecord,
         NEW left \in SUBSET Job
  PROVE  Answered(k, j, record, left) \in Connection
<1>1. Append(k.readBuf, record) \in Seq(ResponseRecord)
  BY DEF Connection
<1>2. (k.jobs \ {j}) \cup left \in SUBSET Job
  BY DEF Connection
<1> QED BY <1>1, <1>2 DEF Answered, Connection
-----------------------------------------------------------------------------
(***************************************************************************)
(* Steps that leave alone what ties requests to connections.               *)
(***************************************************************************)

\* g has the lists, the map and the request ids of h.
SameCore(h, g) ==
  /\ g.connections = h.connections
  /\ g.available = h.available
  /\ g.pending = h.pending
  /\ g.intercept_list = h.intercept_list
  /\ g.nextId = h.nextId
  /\ \A c \in Conns : g.conn[c].requestId = h.conn[c].requestId
  /\ \A i \in Intercepts :
       /\ g.icept[i].requestId = h.icept[i].requestId
       /\ g.icept[i].alive = h.icept[i].alive
       /\ g.icept[i].outputComplete = h.icept[i].outputComplete

\* Two functions that leave the core alone, one after the other.
LEMMA SameCoreTransitive ==
  ASSUME NEW f, NEW g, NEW h, SameCore(f, g), SameCore(g, h)
  PROVE  SameCore(f, h)
BY DEF SameCore

\* Of the assignments to a connection only setRequestId changes its id.
LEMMA ConnectionFrame ==
  ASSUME NEW k \in Connection
  PROVE  /\ \A state : setState(k, state).requestId = k.requestId
         /\ \A i : InUse(k, i).requestId = k.requestId
         /\ Released(k).requestId = k.requestId
         /\ Reusable(k).requestId = k.requestId
         /\ Established(k).requestId = k.requestId
         /\ Refused(k).requestId = k.requestId
         /\ Drained(k).requestId = k.requestId
         /\ Flushed(k).requestId = k.requestId
         /\ \A records, endflag : Written(k, records, endflag).requestId = k.requestId
         /\ \A j, record, left : Answered(k, j, record, left).requestId = k.requestId
         /\ \A r : setRequestId(k, r).requestId = r
BY DEF setState, InUse, Released, Reusable, Established, Refused, Drained,
       Flushed, Written, Answered, setRequestId, Connection

\* What the invariants look at in an intercept.
SameIntercept(p, q) ==
  /\ q.requestId = p.requestId
  /\ q.alive = p.alive
  /\ q.outputComplete = p.outputComplete

\* addPlugin, error and the output of a response leave an intercept's id, life
\* and completion alone.
LEMMA InterceptFrame ==
  ASSUME NEW p \in Intercept
  PROVE  /\ SameIntercept(p, Attached(p))
         /\ SameIntercept(p, Failed(p))
         /\ \A records : SameIntercept(p, Produced(p, records))
         /\ \A r : /\ setRequestId(p, r).requestId = r
                   /\ setRequestId(p, r).alive = p.alive
                   /\ setRequestId(p, r).outputComplete = p.outputComplete
         /\ Complete(p).requestId = p.requestId /\ Complete(p).alive = p.alive
         /\ Destroyed(p).requestId = p.requestId
         /\ Destroyed(p).outputComplete = p.outputComplete
         /\ Constructed(p).requestId = p.requestId
         /\ Constructed(p).outputComplete = p.outputComplete
         /\ Constructed(p).alive
BY DEF SameIntercept, Attached, Failed, Produced, setRequestId, Complete,
       Destroyed, Constructed, Intercept

\* Assigning to a connection keeps the heap's type, and its core if the id stays.
LEMMA SetConn ==
  ASSUME NEW h \in Heap, NEW c \in Conns, NEW k \in Connection
  PROVE  LET g == [h EXCEPT !.conn[c] = k]
         IN  /\ g \in Heap
             /\ g.conn = [h.conn EXCEPT ![c] = k]
             /\ k.requestId = h.conn[c].requestId => SameCore(h, g)
BY DEF Heap, SameCore

\* The same for an intercept.
LEMMA SetIcept ==
  ASSUME NEW h \in Heap, NEW i \in Intercepts, NEW p \in Intercept
  PROVE  LET g == [h EXCEPT !.icept[i] = p]
         IN  /\ g \in Heap
             /\ g.icept = [h.icept EXCEPT ![i] = p]
             /\ SameIntercept(h.icept[i], p) => SameCore(h, g)
BY DEF Heap, SameCore, SameIntercept

\* The same for the crash flag.
LEMMA SetCrashed ==
  ASSUME NEW h \in Heap, NEW b \in BOOLEAN
  PROVE  /\ [h EXCEPT !.crashed = b] \in Heap
         /\ SameCore(h, [h EXCEPT !.crashed = b])
BY DEF Heap, SameCore

\* The functions that only do I/O or move a connection from one state to
\* another.
LEMMA CreateFCGIClient ==
  ASSUME NEW h \in Heap, NEW c \in Conns, NEW i \in Intercepts
  PROVE  /\ createFCGIClient(h, c, i) \in Heap
         /\ SameCore(h, createFCGIClient(h, c, i))
<1>1. h.conn[c] \in Connection /\ h.icept[i] \in Intercept
  BY DEF Heap
<1>2. /\ InUse(h.conn[c], i) \in Connection
      /\ InUse(h.conn[c], i).requestId = h.conn[c].requestId
  BY <1>1, ConnectionSetters, ConnectionFrame
<1>3. /\ Attached(h.icept[i]) \in Intercept
      /\ SameIntercept(h.icept[i], Attached(h.icept[i]))
  BY <1>1, InterceptSetters, InterceptFrame
<1> QED BY <1>2, <1>3 DEF createFCGIClient, Heap, SameCore, SameIntercept

\* releaseFCGIClient.
LEMMA ReleaseFCGIClient ==
  ASSUME NEW h \in Heap, NEW c \in Conns
  PROVE  /\ releaseFCGIClient(h, c) \in Heap
         /\ SameCore(h, releaseFCGIClient(h, c))
<1>1. h.conn[c] \in Connection
  BY DEF Heap
<1>2. /\ Released(h.conn[c]) \in Connection
      /\ Released(h.conn[c]).requestId = h.conn[c].requestId
  BY <1>1, ConnectionSetters, ConnectionFrame
<1> QED BY <1>2 DEF releaseFCGIClient, Heap, SameCore

\* createConnection and InterceptIOChannel::read start an operation of the host.
LEMMA CreateConnection ==
  ASSUME NEW h \in Heap, NEW c \in Conns
  PROVE  /\ createConnection(h, c) \in Heap
         /\ SameCore(h, createConnection(h, c))
         /\ read(h, c) \in Heap
         /\ SameCore(h, read(h, c))
<1>1. h.conn[c] \in Connection
  BY DEF Heap
<1>2. /\ [h.conn[c] EXCEPT !.dialing = TRUE] \in Connection
      /\ [h.conn[c] EXCEPT !.dialing = TRUE].requestId = h.conn[c].requestId
      /\ [h.conn[c] EXCEPT !.readOpen = TRUE] \in Connection
      /\ [h.conn[c] EXCEPT !.readOpen = TRUE].requestId = h.conn[c].requestId
  BY <1>1 DEF Connection
<1>3. createConnection(h, c) \in Heap /\ SameCore(h, createConnection(h, c))
  BY <1>2 DEF createConnection, Heap, SameCore
<1>4. read(h, c) \in Heap /\ SameCore(h, read(h, c))
  BY <1>2 DEF read, Heap, SameCore
<1> QED BY <1>3, <1>4

\* InterceptIOChannel::phpWrite.
LEMMA PhpWrite ==
  ASSUME NEW h \in Heap, NEW c \in Conns, NEW records \in Seq(RequestRecord),
         NEW endflag \in BOOLEAN
  PROVE  /\ phpWrite(h, c, records, endflag) \in Heap
         /\ SameCore(h, phpWrite(h, c, records, endflag))
<1>1. h.conn[c] \in Connection
  BY DEF Heap
<1>2. /\ Written(h.conn[c], records, endflag) \in Connection
      /\ Written(h.conn[c], records, endflag).requestId = h.conn[c].requestId
  BY <1>1, WrittenType, ConnectionFrame
<1> QED BY <1>2 DEF phpWrite, Heap, SameCore

\* Transaction::error.
LEMMA TransactionError ==
  ASSUME NEW h \in Heap, NEW i \in Intercepts
  PROVE  /\ transactionError(h, i) \in Heap
         /\ SameCore(h, transactionError(h, i))
<1>1. h.icept[i] \in Intercept
  BY DEF Heap
<1>2. /\ Failed(h.icept[i]) \in Intercept
      /\ SameIntercept(h.icept[i], Failed(h.icept[i]))
  BY <1>1, InterceptSetters, InterceptFrame
<1> QED BY <1>2 DEF transactionError, Heap, SameCore, SameIntercept

\* The map's lookups return NULL or the part of an entry.
LEMMA Lookup ==
  ASSUME NEW h \in Heap, NEW r
  PROVE  /\ getIntercept(h, r) \in Intercepts \cup {NULL}
         /\ getServerConnection(h, r) \in Conns \cup {NULL}
         /\ Mapped(h, r) => /\ EntryOf(h, r) \in h.intercept_list
                            /\ EntryOf(h, r).id = r
                            /\ getIntercept(h, r) = EntryOf(h, r).intercept
                            /\ getServerConnection(h, r) = EntryOf(h, r).conn
                            /\ getIntercept(h, r) # NULL
                            /\ getServerConnection(h, r) # NULL
         /\ ~Mapped(h, r) => /\ getIntercept(h, r) = NULL
                             /\ getServerConnection(h, r) = NULL
<1>1. Mapped(h, r) => EntryOf(h, r) \in h.intercept_list /\ EntryOf(h, r).id = r
  BY DEF Mapped, EntryOf
<1>2. \A e \in h.intercept_list : e.intercept \in Intercepts /\ e.conn \in Conns
  BY DEF Heap, Entry
<1> QED BY <1>1, <1>2, NullAssumption DEF getIntercept, getServerConnection

\* What the three write functions of Server share.
LEMMA WriteRecords ==
  ASSUME NEW h \in Heap, NEW r, NEW types \in Seq({"BEGIN", "STDIN", "EOF"}),
         NEW endflag \in BOOLEAN
  PROVE  /\ writeRecords(h, r, types, endflag) \in Heap
         /\ SameCore(h, writeRecords(h, r, types, endflag))
<1> DEFINE c == getServerConnection(h, r)
           records == [k \in DOMAIN types |->
                         [type |-> types[k], req |-> h.conn[c].fcgi]]
<1>1. SameCore(h, h)
  BY DEF SameCore
<1>2. CASE c = NULL
  BY <1>1, <1>2 DEF writeRecords
<1>3. CASE c # NULL /\ h.conn[c].fcgi = NULL
  BY <1>3, SetCrashed DEF writeRecords
<1>4. CASE c # NULL /\ h.conn[c].fcgi # NULL
  <2>1. c \in Conns
    BY <1>4, Lookup
  <2>2. h.conn[c].fcgi \in Intercepts
    BY <1>4, <2>1 DEF Heap, Connection
  <2>3. records \in Seq(RequestRecord)
    <3>1. Len(types) \in Nat /\ DOMAIN types = 1 .. Len(types)
      OBVIOUS
    <3>2. \A k \in DOMAIN types : types[k] \in {"BEGIN", "STDIN", "EOF"}
      BY <3>1
    <3>3. \A k \in DOMAIN types :
            [type |-> types[k], req |-> h.conn[c].fcgi] \in RequestRecord
      BY <2>2, <3>2 DEF RequestRecord
    <3> QED BY <3>1, <3>3
  <2>4. writeRecords(h, r, types, endflag) = phpWrite(h, c, records, endflag)
    BY <1>4 DEF writeRecords
  <2> HIDE DEF c, records
  <2> QED BY <2>1, <2>3, <2>4, PhpWrite
<1> QED BY <1>2, <1>3, <1>4

\* Intercepts p and q have the same account: what happened in between was
\* resumed as often as added, and not failed.
SameAccount(p, q) ==
  /\ q.failed = p.failed
  /\ q.reenabled - q.plugins = p.reenabled - p.plugins

\* All transactions have in h and g the same account.
SameAccounts(h, g) ==
  \A i \in Intercepts : SameAccount(h.icept[i], g.icept[i])

\* Only Failed changes the account of a transaction.
LEMMA AccountSetters ==
  ASSUME NEW p \in Intercept
  PROVE  /\ \A r : SameAccount(p, setRequestId(p, r))
         /\ SameAccount(p, Attached(p))
         /\ \A r : SameAccount(p, Attached(setRequestId(p, r)))
         /\ SameAccount(p, Complete(p))
         /\ SameAccount(p, Destroyed(p))
         /\ SameAccount(p, Constructed(p))
         /\ \A records : SameAccount(p, Produced(p, records))
<1>1. p.reenabled \in Nat /\ p.plugins \in Nat
  BY DEF Intercept
<1>2. SameAccount(p, Attached(p))
  BY <1>1 DEF SameAccount, Attached, Intercept
<1>3. \A r : SameAccount(p, Attached(setRequestId(p, r)))
  BY <1>1 DEF SameAccount, Attached, setRequestId, Intercept
<1>4. /\ \A r : SameAccount(p, setRequestId(p, r))
      /\ SameAccount(p, Complete(p))
      /\ SameAccount(p, Destroyed(p))
      /\ SameAccount(p, Constructed(p))
      /\ \A records : SameAccount(p, Produced(p, records))
  BY DEF SameAccount, setRequestId, Complete, Destroyed, Constructed, Produced,
         Intercept
<1> QED BY <1>2, <1>3, <1>4

\* Two steps after one another.
LEMMA AccountsTransitive ==
  ASSUME NEW f, NEW g, NEW h, SameAccounts(f, g), SameAccounts(g, h)
  PROVE  SameAccounts(f, h)
BY DEF SameAccounts, SameAccount

\* The intercepts are left alone.
LEMMA AccountsFrame ==
  ASSUME NEW h, NEW g, g.icept = h.icept
  PROVE  SameAccounts(h, g)
BY DEF SameAccounts, SameAccount

\* One intercept is assigned to.
LEMMA AccountsSet ==
  ASSUME NEW h \in Heap, NEW g, NEW i \in Intercepts, NEW p,
         g.icept = [h.icept EXCEPT ![i] = p], SameAccount(h.icept[i], p)
  PROVE  SameAccounts(h, g)
BY DEF SameAccounts, SameAccount, Heap

-----------------------------------------------------------------------------
(***************************************************************************)
(* The consistency of the pool, the map and the queue, function by         *)
(* function.                                                               *)
(***************************************************************************)

Core(h, D) == h \in Heap /\ PoolInv(h, D) /\ MapInv(h) /\ QueueInv(h)

\* What leaves the core alone keeps its consistency.
LEMMA CoreFrame ==
  ASSUME NEW h, NEW D, Core(h, D), NEW g \in Heap, SameCore(h, g)
  PROVE  Core(g, D)
<1>1. \A e \in h.intercept_list : e.conn \in Conns /\ e.intercept \in Intercepts
  BY DEF Core, Heap, Entry
<1>2. PoolInv(g, D) /\ QueueInv(g)
  BY DEF Core, SameCore, PoolInv, QueueInv, Idle, MappedConns, Queued, MappedIntercepts
<1>3. MapInv(g)
  BY <1>1 DEF Core, SameCore, MapInv
<1> QED BY <1>2, <1>3 DEF Core

\* The pool's limit is a number of connections that exist.
LEMMA MaxConnType == maxConn \in Nat /\ maxConn <= Cardinality(Conns)
BY PoolAssumption DEF maxConn

\* h and g have the same requests, complete and alive alike.
SameRequests(h, g) ==
  \A i \in Intercepts : /\ g.icept[i].alive = h.icept[i].alive
                        /\ g.icept[i].outputComplete = h.icept[i].outputComplete

\* Two functions that complete and delete no request, one after the other.
LEMMA SameRequestsTransitive ==
  ASSUME NEW f, NEW g, NEW h, SameRequests(f, g), SameRequests(g, h)
  PROVE  SameRequests(f, h)
BY DEF SameRequests

\* Taking an entry off the map detaches its connection.
LEMMA CoreErase ==
  ASSUME NEW h, NEW D, Core(h, D), NEW e \in h.intercept_list
  PROVE  /\ Core(erase(h, e.id), D \cup {e.conn})
         /\ e.conn \in Conns /\ e.conn \notin D
         /\ e.intercept \in Intercepts
         /\ MappedIntercepts(erase(h, e.id)) = MappedIntercepts(h) \ {e.intercept}
         /\ Queued(erase(h, e.id)) = Queued(h)
         /\ SameRequests(h, erase(h, e.id))
         /\ erase(h, e.id).conn = h.conn
<1> DEFINE g == erase(h, e.id)
<1>1. /\ g \in Heap
      /\ g.intercept_list = {f \in h.intercept_list : f.id # e.id}
      /\ g.connections = h.connections /\ g.available = h.available
      /\ g.pending = h.pending /\ g.nextId = h.nextId
      /\ g.conn = h.conn /\ g.icept = h.icept
  BY DEF erase, Core, Heap
<1>2. \A f \in h.intercept_list : /\ f \in Entry /\ f.conn \in Conns
                                  /\ f.intercept \in Intercepts /\ f.id \in Nat
  BY DEF Core, Heap, Entry
<1>3. \A f \in h.intercept_list :
        /\ f.id = e.id <=> f.conn = e.conn
        /\ f.id = e.id <=> f.intercept = e.intercept
  BY <1>2 DEF Core, MapInv
<1> HIDE DEF g
<1>4. MappedConns(g) = MappedConns(h) \ {e.conn}
  BY <1>1, <1>3 DEF MappedConns
<1>5. MappedIntercepts(g) = MappedIntercepts(h) \ {e.intercept}
  BY <1>1, <1>3 DEF MappedIntercepts
<1>6. Queued(g) = Queued(h) /\ Idle(g) = Idle(h)
  BY <1>1 DEF Queued, Idle
<1>7. e.conn \in MappedConns(h)
  BY DEF MappedConns
<1>8. PoolInv(g, D \cup {e.conn})
  BY <1>1, <1>4, <1>6, <1>7 DEF Core, PoolInv
<1>9. MapInv(g)
  BY <1>1 DEF Core, MapInv
<1>10. QueueInv(g)
  BY <1>1, <1>5, <1>6 DEF Core, QueueInv
<1>11. e.conn \notin D
  BY <1>7 DEF Core, PoolInv
<1> QED BY <1>1, <1>2, <1>5, <1>6, <1>8, <1>9, <1>10, <1>11
        DEF Core, SameRequests, g

\* Erasing an id that is not in the map.
LEMMA NoEntry ==
  ASSUME NEW h \in Heap, NEW r, ~Mapped(h, r)
  PROVE  erase(h, r) = h
<1>1. {e \in h.intercept_list : e.id # r} = h.intercept_list
  BY DEF Mapped
<1> QED BY <1>1 DEF erase, Heap

\* The pool hands out a connection that serves nobody and stays within its
\* limit.
LEMMA CoreGetAvailable ==
  ASSUME NEW h, NEW D, Core(h, D), getAvailableConnection(h).conn # NULL
  PROVE  LET c == getAvailableConnection(h).conn
             g == getAvailableConnection(h).heap
         IN  /\ c \in Conns /\ c \notin D
             /\ Core(g, D \cup {c})
             /\ g.intercept_list = h.intercept_list
             /\ g.pending = h.pending
             /\ g.icept = h.icept
<1> DEFINE c == getAvailableConnection(h).conn
           g == getAvailableConnection(h).heap
<1>0. /\ h \in Heap /\ h.connections \subseteq Conns /\ h.available \in Seq(Conns)
      /\ MappedConns(h) \subseteq h.connections /\ D \subseteq h.connections
      /\ Idle(h) \subseteq h.connections
      /\ IsFiniteSet(h.connections) /\ Cardinality(h.connections) \in Nat
      /\ \A e \in h.intercept_list : e.conn \in MappedConns(h) /\ e.id \in Nat \ {0}
  <2>1. h \in Heap /\ h.connections \subseteq Conns /\ h.available \in Seq(Conns)
    BY DEF Core, Heap
  <2>2. IsFiniteSet(h.connections) /\ Cardinality(h.connections) \in Nat
    BY <2>1, PoolAssumption, FS_Subset, FS_CardinalityType
  <2>3. \A e \in h.intercept_list : e.conn \in MappedConns(h) /\ e.id \in Nat \ {0}
    BY DEF Core, MapInv, MappedConns, Heap
  <2> QED BY <2>1, <2>2, <2>3 DEF Core, PoolInv
<1>1. CASE Cardinality(h.connections) < maxConn
  <2> DEFINE d == CHOOSE x \in Conns : x \notin h.connections
  <2>1. d \in Conns /\ d \notin h.connections
    <3>1. h.connections # Conns
      BY <1>0, <1>1, MaxConnType
    <3> QED BY <1>0, <3>1
  <2>2. c = d /\ g = addConnection([h EXCEPT !.conn[d] = NewConnection], d)
    BY <1>1 DEF getAvailableConnection
  <2> HIDE DEF c, d, g
  <2>3. NewConnection \in Connection /\ NewConnection.requestId = 0
    BY EmptyConnections
  <2>4. /\ g \in Heap
        /\ g.connections = h.connections \cup {c} /\ g.available = h.available
        /\ g.pending = h.pending /\ g.intercept_list = h.intercept_list
        /\ g.nextId = h.nextId /\ g.icept = h.icept
        /\ g.conn = [h.conn EXCEPT ![c] = NewConnection]
    BY <1>0, <2>1, <2>2, <2>3 DEF addConnection, Heap
  <2>5. Cardinality(g.connections) <= maxConn
    <3>1. Cardinality(h.connections \cup {c}) = Cardinality(h.connections) + 1
      BY <1>0, <2>1, <2>2, FS_AddElement
    <3> QED BY <1>0, <1>1, <2>4, <3>1, MaxConnType
  <2>6. PoolInv(g, D \cup {c})
    BY <1>0, <2>1, <2>2, <2>4, <2>5 DEF Core, PoolInv, Idle, MappedConns
  <2>7. MapInv(g)
    <3>1. \A x \in Conns : g.conn[x].requestId
                             = IF x = c THEN 0 ELSE h.conn[x].requestId
      BY <1>0, <2>1, <2>2, <2>3, <2>4 DEF Heap
    <3>2. h.nextId > 0
      BY <1>0, <2>1 DEF Core, MapInv, Heap, Connection
    <3>3. \A e \in h.intercept_list : e.conn # c
      BY <1>0, <2>1, <2>2
    <3> QED BY <1>0, <2>4, <3>1, <3>2, <3>3 DEF Core, MapInv
  <2>8. QueueInv(g)
    BY <2>4 DEF Core, QueueInv, Queued, MappedIntercepts
  <2> QED BY <1>0, <2>1, <2>2, <2>4, <2>6, <2>7, <2>8 DEF Core, c, g
<1>2. CASE ~(Cardinality(h.connections) < maxConn) /\ h.available # <<>>
  <2> DEFINE d == Head(h.available)
  <2>1. c = d /\ g = [h EXCEPT !.available = Tail(@), !.conn[d] = setState(@, "READY")]
    BY <1>2 DEF getAvailableConnection
  <2>2. /\ d \in Conns /\ d \in Idle(h)
        /\ Tail(h.available) \in Seq(Conns)
        /\ Injective(Tail(h.available))
        /\ Elements(Tail(h.available)) = Idle(h) \ {d}
    BY <1>0, <1>2, ListTail DEF Core, PoolInv, Idle
  <2> HIDE DEF c, d, g
  <2>3. /\ setState(h.conn[d], "READY") \in Connection
        /\ setState(h.conn[d], "READY").requestId = h.conn[d].requestId
    <3>1. h.conn[d] \in Connection
      BY <1>0, <2>2 DEF Heap
    <3>2. "READY" \in State
      BY DEF State
    <3> QED BY <3>1, <3>2, ConnectionSetters, ConnectionFrame, Zenon
  <2>4. /\ g \in Heap
        /\ g.connections = h.connections /\ g.available = Tail(h.available)
        /\ g.pending = h.pending /\ g.intercept_list = h.intercept_list
        /\ g.nextId = h.nextId /\ g.icept = h.icept
        /\ \A x \in Conns : g.conn[x].requestId = h.conn[x].requestId
    <3> DEFINE k == setState(h.conn[d], "READY")
               f == [h EXCEPT !.conn[d] = k]
    <3>1. g = [f EXCEPT !.available = Tail(h.available)]
      BY <1>0, <2>1, <2>2 DEF Heap
    <3> HIDE DEF k
    <3>2. f \in Heap /\ SameCore(h, f) /\ f.icept = h.icept
      BY <1>0, <2>2, <2>3, SetConn DEF Heap, k
    <3> HIDE DEF f
    <3> QED BY <2>2, <3>1, <3>2 DEF Heap, SameCore
  <2>5. PoolInv(g, D \cup {c})
    <3>1. /\ c \in Idle(h) /\ Idle(g) = Idle(h) \ {c}
          /\ MappedConns(g) = MappedConns(h)
          /\ Injective(g.available)
      BY <2>1, <2>2, <2>4 DEF Idle, MappedConns
    <3>2. /\ h.connections = Idle(h) \cup MappedConns(h) \cup D
          /\ Idle(h) \cap MappedConns(h) = {}
          /\ D \cap (Idle(h) \cup MappedConns(h)) = {}
          /\ Cardinality(g.connections) <= maxConn
      BY <2>4 DEF Core, PoolInv
    <3>3. /\ g.connections = Idle(g) \cup MappedConns(g) \cup (D \cup {c})
          /\ Idle(g) \cap MappedConns(g) = {}
          /\ (D \cup {c}) \cap (Idle(g) \cup MappedConns(g)) = {}
      BY <2>4, <3>1, <3>2
    <3> QED BY <3>1, <3>2, <3>3 DEF PoolInv
  <2>6. MapInv(g)
    BY <2>4 DEF Core, MapInv
  <2>7. QueueInv(g)
    BY <2>4 DEF Core, QueueInv, Queued, MappedIntercepts
  <2>8. c \notin D
    BY <2>1, <2>2 DEF Core, PoolInv
  <2> QED BY <2>1, <2>2, <2>4, <2>5, <2>6, <2>7, <2>8 DEF Core, c, g
<1>3. CASE ~(Cardinality(h.connections) < maxConn) /\ h.available = <<>>
  BY <1>3 DEF getAvailableConnection
<1> QED BY <1>1, <1>2, <1>3

\* The requests that have a connection or wait for one.
Accepted(h) == Queued(h) \cup MappedIntercepts(h)

\* A detached connection is given to a request that has none.
LEMMA CoreInitiate ==
  ASSUME NEW h, NEW D, NEW c \in Conns, NEW i \in Intercepts,
         Core(h, D \cup {c}), c \notin D, h.icept[i].alive, i \notin Accepted(h)
  PROVE  LET g == initiateBackendConnection(h, i, c)
         IN  /\ Core(g, D)
             /\ MappedIntercepts(g) = MappedIntercepts(h) \cup {i}
             /\ Queued(g) = Queued(h)
             /\ SameRequests(h, g)
<1> DEFINE r == h.nextId
           e == [id |-> r, intercept |-> i, conn |-> c]
           f == [h EXCEPT !.nextId         = @ + 1,
                          !.icept[i]       = setRequestId(@, r),
                          !.conn[c]        = setRequestId(@, r),
                          !.intercept_list = {x \in @ : x.id # r} \cup {e}]
           g == initiateBackendConnection(h, i, c)
<1>1. /\ h \in Heap /\ r \in Nat /\ r + 1 \in Nat /\ r > 0 /\ e \in Entry
      /\ \A x \in h.intercept_list :
           /\ x \in Entry /\ x.id \in Nat /\ x.id < r
           /\ x.conn \in Conns /\ x.intercept \in Intercepts
      /\ \A d \in Conns : h.conn[d].requestId \in Nat /\ h.conn[d].requestId < r
      /\ \A j \in Intercepts : h.icept[j].requestId \in Nat /\ h.icept[j].requestId < r
  <2>1. h \in Heap /\ r \in Nat /\ r + 1 \in Nat
    BY DEF Core, Heap
  <2>2. e \in Entry
    BY <2>1 DEF Entry
  <2>3. \A d \in Conns : h.conn[d].requestId \in Nat /\ h.conn[d].requestId < r
    BY <2>1 DEF Core, MapInv, Heap, Connection
  <2>4. \A j \in Intercepts : h.icept[j].requestId \in Nat /\ h.icept[j].requestId < r
    BY <2>1 DEF Core, MapInv, Heap, Intercept
  <2>5. \A x \in h.intercept_list :
           /\ x \in Entry /\ x.id \in Nat /\ x.id < r
           /\ x.conn \in Conns /\ x.intercept \in Intercepts
    BY <2>1 DEF Core, MapInv, Heap, Entry
  <2> QED BY <2>1, <2>2, <2>3, <2>4, <2>5
<1>2. {x \in h.intercept_list : x.id # r} = h.intercept_list
  BY <1>1
<1>3. /\ setRequestId(h.conn[c], r) \in Connection
      /\ setRequestId(h.conn[c], r).requestId = r
      /\ setRequestId(h.icept[i], r) \in Intercept
      /\ setRequestId(h.icept[i], r).requestId = r
      /\ setRequestId(h.icept[i], r).alive = h.icept[i].alive
      /\ setRequestId(h.icept[i], r).outputComplete = h.icept[i].outputComplete
  <2>1. h.conn[c] \in Connection /\ h.icept[i] \in Intercept
    BY <1>1 DEF Heap
  <2>2. r \in Nat
    BY <1>1
  <2> HIDE DEF r
  <2>3. /\ setRequestId(h.conn[c], r) \in Connection
        /\ setRequestId(h.conn[c], r).requestId = r
    BY <2>1, <2>2, ConnectionSetters, ConnectionFrame, Zenon
  <2>4. /\ setRequestId(h.icept[i], r) \in Intercept
        /\ setRequestId(h.icept[i], r).requestId = r
        /\ setRequestId(h.icept[i], r).alive = h.icept[i].alive
        /\ setRequestId(h.icept[i], r).outputComplete = h.icept[i].outputComplete
    BY <2>1, <2>2, InterceptSetters, InterceptFrame, Zenon
  <2> QED BY <2>3, <2>4
<1>4. /\ f \in Heap
      /\ f.connections = h.connections /\ f.available = h.available
      /\ f.pending = h.pending /\ f.nextId = r + 1
      /\ f.intercept_list = h.intercept_list \cup {e}
      /\ f.conn = [h.conn EXCEPT ![c] = setRequestId(h.conn[c], r)]
      /\ f.icept = [h.icept EXCEPT ![i] = setRequestId(h.icept[i], r)]
  <2> DEFINE n == r + 1
             p == setRequestId(h.icept[i], r)
             k == setRequestId(h.conn[c], r)
             L == h.intercept_list \cup {e}
  <2>1. n \in Nat /\ p \in Intercept /\ k \in Connection /\ L \in SUBSET Entry
    BY <1>1, <1>3 DEF Heap
  <2>2. f = [h EXCEPT !.nextId = n, !.icept[i] = p, !.conn[c] = k,
                      !.intercept_list = L]
    BY <1>1, <1>2 DEF Heap
  <2> HIDE DEF n, p, k, L, f
  <2>3. /\ f \in Heap
        /\ f.connections = h.connections /\ f.available = h.available
        /\ f.pending = h.pending /\ f.nextId = n
        /\ f.intercept_list = L
        /\ f.conn = [h.conn EXCEPT ![c] = k]
        /\ f.icept = [h.icept EXCEPT ![i] = p]
    BY <1>1, <2>1, <2>2 DEF Heap
  <2> QED BY <2>3 DEF n, p, k, L
<1>5. /\ g \in Heap
      /\ SameCore(f, g)
  <2>1. g = IF f.conn[c].state # "READY" THEN createConnection(f, c)
            ELSE createFCGIClient(f, c, i)
    BY Zenon DEF initiateBackendConnection
  <2> HIDE DEF f, g
  <2> QED BY <1>4, <2>1, CreateConnection, CreateFCGIClient
<1>6. e.id = r /\ e.intercept = i /\ e.conn = c
  OBVIOUS
<1> HIDE DEF r, e, f, g
<1>7. \A d \in Conns : f.conn[d].requestId
                          = IF d = c THEN r ELSE h.conn[d].requestId
  <2>1. h.conn \in [Conns -> Connection]
    BY <1>1 DEF Heap
  <2> QED BY <1>3, <1>4, <2>1
<1>8. \A j \in Intercepts :
        /\ f.icept[j].requestId = IF j = i THEN r ELSE h.icept[j].requestId
        /\ f.icept[j].alive = h.icept[j].alive
        /\ f.icept[j].outputComplete = h.icept[j].outputComplete
  <2>1. h.icept \in [Intercepts -> Intercept]
    BY <1>1 DEF Heap
  <2> QED BY <1>3, <1>4, <2>1
<1>9. /\ MappedConns(f) = MappedConns(h) \cup {c}
      /\ MappedIntercepts(f) = MappedIntercepts(h) \cup {i}
      /\ Queued(f) = Queued(h) /\ Idle(f) = Idle(h)
  BY <1>4, <1>6 DEF MappedConns, MappedIntercepts, Queued, Idle
<1>10. PoolInv(f, D)
  <2>1. /\ h.connections = Idle(h) \cup MappedConns(h) \cup (D \cup {c})
        /\ Idle(h) \cap MappedConns(h) = {}
        /\ (D \cup {c}) \cap (Idle(h) \cup MappedConns(h)) = {}
        /\ Injective(f.available) /\ Cardinality(f.connections) <= maxConn
    BY <1>4 DEF Core, PoolInv
  <2>2. /\ f.connections = Idle(f) \cup MappedConns(f) \cup D
        /\ Idle(f) \cap MappedConns(f) = {}
        /\ D \cap (Idle(f) \cup MappedConns(f)) = {}
    BY <1>4, <1>9, <2>1
  <2> QED BY <2>1, <2>2 DEF PoolInv
<1>11. MapInv(f)
  <2>1. \A x \in h.intercept_list : x.conn # c /\ x.intercept # i
    BY DEF Core, PoolInv, MappedConns, Accepted, MappedIntercepts
  <2>2. ASSUME NEW x \in h.intercept_list
        PROVE  /\ x.id \in 1 .. f.nextId - 1
               /\ \A d \in Conns : f.conn[d].requestId = x.id <=> d = x.conn
               /\ \A j \in Intercepts : f.icept[j].requestId = x.id <=> j = x.intercept
               /\ f.icept[x.intercept].alive
    BY <1>1, <1>4, <1>7, <1>8, <2>1 DEF Core, MapInv
  <2>3. /\ e.id \in 1 .. f.nextId - 1
        /\ \A d \in Conns : f.conn[d].requestId = e.id <=> d = e.conn
        /\ \A j \in Intercepts : f.icept[j].requestId = e.id <=> j = e.intercept
        /\ f.icept[e.intercept].alive
    BY <1>1, <1>4, <1>6, <1>7, <1>8
  <2>4. /\ \A d \in Conns : f.conn[d].requestId < f.nextId
        /\ \A j \in Intercepts : f.icept[j].requestId < f.nextId
    BY <1>1, <1>4, <1>7, <1>8
  <2> QED BY <1>4, <2>2, <2>3, <2>4 DEF MapInv
<1>12. QueueInv(f)
  BY <1>4, <1>9 DEF Core, QueueInv, Accepted
<1>13. Core(g, D)
  BY <1>4, <1>5, <1>10, <1>11, <1>12, CoreFrame DEF Core
<1>14. /\ MappedIntercepts(g) = MappedIntercepts(f) /\ Queued(g) = Queued(f)
       /\ SameRequests(h, g)
  BY <1>5, <1>8 DEF SameCore, MappedIntercepts, Queued, SameRequests
<1> QED BY <1>9, <1>13, <1>14 DEF g

\* A request gets a connection, a place in the queue, or nothing.
LEMMA CoreConnect ==
  ASSUME NEW h, NEW D, NEW i \in Intercepts,
         Core(h, D), h.icept[i].alive, i \notin Accepted(h)
  PROVE  /\ Core(connect(h, i), D)
         /\ Accepted(connect(h, i)) \subseteq Accepted(h) \cup {i}
         /\ SameRequests(h, connect(h, i))
<1> DEFINE a == getAvailableConnection(h)
<1>1. CASE a.conn # NULL
  <2>1. /\ a.conn \in Conns /\ a.conn \notin D
        /\ Core(a.heap, D \cup {a.conn})
        /\ a.heap.intercept_list = h.intercept_list
        /\ a.heap.pending = h.pending
        /\ a.heap.icept = h.icept
    BY <1>1, CoreGetAvailable
  <2>2. connect(h, i) = initiateBackendConnection(a.heap, i, a.conn)
    BY <1>1 DEF connect
  <2> HIDE DEF a
  <2>3. /\ MappedIntercepts(a.heap) = MappedIntercepts(h)
        /\ Queued(a.heap) = Queued(h)
        /\ SameRequests(h, a.heap)
    BY <2>1 DEF MappedIntercepts, Queued, SameRequests
  <2>4. LET g == initiateBackendConnection(a.heap, i, a.conn)
        IN  /\ Core(g, D)
            /\ MappedIntercepts(g) = MappedIntercepts(a.heap) \cup {i}
            /\ Queued(g) = Queued(a.heap)
            /\ SameRequests(a.heap, g)
    BY <2>1, <2>3, CoreInitiate DEF Accepted
  <2> QED BY <2>2, <2>3, <2>4 DEF Accepted, SameRequests
<1>2. CASE a.conn = NULL
  <2>1. a.heap = h
    <3>1. \A x \in Conns : x # NULL
      BY NullAssumption
    <3>2. h.available \in Seq(Conns)
      BY DEF Core, Heap
    <3>3. h.available # <<>> => Head(h.available) # NULL
      BY <3>1, <3>2
    <3>4. Cardinality(h.connections) < maxConn =>
            (CHOOSE x \in Conns : x \notin h.connections) # NULL
      <4>1. h.connections \subseteq Conns
        BY DEF Core, Heap
      <4>2. Cardinality(h.connections) < maxConn => h.connections # Conns
        BY MaxConnType, FS_CardinalityType, PoolAssumption
      <4> QED BY <3>1, <4>1, <4>2
    <3> QED BY <1>2, <3>3, <3>4 DEF getAvailableConnection
  <2>2. connect(h, i) = addToQueue(h, i)
    BY <1>2, <2>1 DEF connect
  <2>3. CASE isQueueFull(h)
    <3>1. connect(h, i) = h
      BY <2>2, <2>3 DEF addToQueue
    <3> QED BY <3>1 DEF Accepted, SameRequests
  <2>4. CASE ~isQueueFull(h)
    <3> DEFINE g == [h EXCEPT !.pending = Append(h.pending, i)]
    <3>1. connect(h, i) = g
      BY <2>2, <2>4 DEF addToQueue
    <3>2. /\ Append(h.pending, i) \in Seq(Intercepts)
          /\ Injective(Append(h.pending, i))
          /\ Elements(Append(h.pending, i)) = Queued(h) \cup {i}
      BY ListAppend DEF Core, QueueInv, Heap, Accepted, Queued
    <3>3. /\ g \in Heap
          /\ g.connections = h.connections /\ g.available = h.available
          /\ g.pending = Append(h.pending, i) /\ g.nextId = h.nextId
          /\ g.intercept_list = h.intercept_list
          /\ g.conn = h.conn /\ g.icept = h.icept
      BY <3>2 DEF Core, Heap
    <3> HIDE DEF g
    <3>4. /\ Queued(g) = Queued(h) \cup {i} /\ Idle(g) = Idle(h)
          /\ MappedIntercepts(g) = MappedIntercepts(h)
          /\ MappedConns(g) = MappedConns(h)
      BY <3>2, <3>3 DEF Queued, Idle, MappedIntercepts, MappedConns
    <3>5. PoolInv(g, D)
      BY <3>3, <3>4 DEF Core, PoolInv
    <3>6. MapInv(g)
      BY <3>3 DEF Core, MapInv
    <3>7. QueueInv(g)
      BY <3>2, <3>3, <3>4 DEF Core, QueueInv, Accepted
    <3> QED BY <3>1, <3>3, <3>4, <3>5, <3>6, <3>7 DEF Core, Accepted, SameRequests
  <2> QED BY <2>3, <2>4
<1> QED BY <1>1, <1>2

\* After reConnect the old connection is detached.
LEMMA CoreReConnect ==
  ASSUME NEW h, Core(h, {}), NEW c \in Conns
  PROVE  LET g == reConnect(h, h.conn[c].requestId)
         IN  /\ \E D \in SUBSET {c} : Core(g, D)
             /\ Accepted(g) \subseteq Accepted(h)
             /\ SameRequests(h, g)
<1> DEFINE r == h.conn[c].requestId
           g == reConnect(h, r)
<1>0. h \in Heap
  BY DEF Core
<1>1. CASE ~Mapped(h, r)
  <2>1. g = h
    BY <1>0, <1>1, Lookup DEF reConnect
  <2> HIDE DEF g
  <2> QED BY <2>1 DEF SameRequests, g
<1>2. CASE Mapped(h, r)
  <2> DEFINE e == EntryOf(h, r)
             i == e.intercept
  <2>1. e \in h.intercept_list /\ e.id = r /\ g = connect(erase(h, r), i)
    BY <1>0, <1>2, Lookup DEF reConnect
  <2> HIDE DEF e, g
  <2>2. e.conn = c /\ h.icept[i].alive
    BY <2>1 DEF Core, MapInv
  <2>3. /\ Core(erase(h, r), {} \cup {c})
        /\ i \in Intercepts
        /\ MappedIntercepts(erase(h, r)) = MappedIntercepts(h) \ {i}
        /\ Queued(erase(h, r)) = Queued(h)
        /\ SameRequests(h, erase(h, r))
    <3>1. /\ Core(erase(h, e.id), {} \cup {e.conn})
          /\ i \in Intercepts
          /\ MappedIntercepts(erase(h, e.id)) = MappedIntercepts(h) \ {i}
          /\ Queued(erase(h, e.id)) = Queued(h)
          /\ SameRequests(h, erase(h, e.id))
      BY <2>1, CoreErase, Zenon
    <3>2. e.id = r /\ e.conn = c
      BY <2>1, <2>2
    <3> HIDE DEF i, r
    <3> QED BY <3>1, <3>2
  <2>4. i \in MappedIntercepts(h) /\ i \notin Queued(h)
    BY <2>1 DEF MappedIntercepts, Core, QueueInv
  <2> HIDE DEF i, r
  <2>5. i \notin Accepted(erase(h, r)) /\ erase(h, r).icept[i].alive
    BY <2>2, <2>3, <2>4 DEF Accepted, SameRequests
  <2>6. /\ Core(g, {c})
        /\ Accepted(g) \subseteq Accepted(erase(h, r)) \cup {i}
        /\ SameRequests(erase(h, r), g)
    <3>1. {} \cup {c} = {c}
      OBVIOUS
    <3> QED BY <2>1, <2>3, <2>5, <3>1, CoreConnect
  <2>7. Accepted(g) \subseteq Accepted(h) /\ SameRequests(h, g)
    BY <2>3, <2>4, <2>6 DEF Accepted, SameRequests
  <2> QED BY <2>6, <2>7 DEF g, r
<1> QED BY <1>1, <1>2

\* A connection that serves nobody leaves the pool.
LEMMA CorePoolClosed ==
  ASSUME NEW h, NEW c \in Conns, NEW D \in SUBSET {c}, Core(h, D),
         c \notin MappedConns(h)
  PROVE  LET g == poolConnectionClosed(h, c)
         IN  /\ Core(g, {})
             /\ g.intercept_list = h.intercept_list
             /\ g.pending = h.pending
             /\ g.icept = h.icept
<1> DEFINE list == ListRemove(h.available, c)
           g == poolConnectionClosed(h, c)
<1>1. /\ list \in Seq(Conns) /\ Injective(list)
      /\ Elements(list) = Idle(h) \ {c}
  BY ListRemoval DEF Core, PoolInv, Heap, Idle
<1>2. NoConnection \in Connection /\ NoConnection.requestId = 0
  BY EmptyConnections DEF NoConnection
<1>3. (h.crashed \/ h.conn[c].dialing) \in BOOLEAN
  BY DEF Core, Heap, Connection
<1> HIDE DEF list
<1>4. /\ g \in Heap
      /\ g.available = list
      /\ g.connections = h.connections \ {c}
      /\ g.pending = h.pending /\ g.nextId = h.nextId
      /\ g.intercept_list = h.intercept_list
      /\ g.icept = h.icept
      /\ \A x \in Conns : g.conn[x] = IF x = c THEN NoConnection ELSE h.conn[x]
  <2>1. g = [h EXCEPT !.available = list, !.connections = h.connections \ {c},
                      !.conn[c] = NoConnection,
                      !.crashed = h.crashed \/ h.conn[c].dialing]
    BY DEF poolConnectionClosed, list
  <2> HIDE DEF g
  <2> DEFINE b == h.crashed \/ h.conn[c].dialing
  <2>2. b \in BOOLEAN
    BY <1>3
  <2>3. g = [h EXCEPT !.available = list, !.connections = h.connections \ {c},
                      !.conn[c] = NoConnection, !.crashed = b]
    BY <2>1
  <2> HIDE DEF b
  <2> QED BY <1>1, <1>2, <2>2, <2>3 DEF Core, Heap
<1> HIDE DEF g
<1>5. /\ Idle(g) = Idle(h) \ {c} /\ MappedConns(g) = MappedConns(h)
      /\ Queued(g) = Queued(h) /\ MappedIntercepts(g) = MappedIntercepts(h)
  BY <1>1, <1>4 DEF Idle, MappedConns, Queued, MappedIntercepts
<1>6. PoolInv(g, {})
  <2>1. IsFiniteSet(h.connections)
    BY PoolAssumption, FS_Subset DEF Core, Heap
  <2>2. /\ IsFiniteSet(h.connections \ {c})
        /\ Cardinality(h.connections \ {c}) <= Cardinality(h.connections)
    BY <2>1, FS_Subset
  <2>3. Cardinality(h.connections \ {c}) \in Nat /\ Cardinality(h.connections) \in Nat
    BY <2>1, <2>2, FS_CardinalityType
  <2>4. Cardinality(g.connections) <= maxConn
    BY <1>4, <2>2, <2>3, MaxConnType DEF Core, PoolInv
  <2> QED BY <1>1, <1>4, <1>5, <2>4 DEF Core, PoolInv
<1>7. MapInv(g)
  <2>1. \A e \in h.intercept_list : e.conn # c /\ e.id # 0
    BY DEF MappedConns, Core, MapInv
  <2>2. \A x \in Conns : g.conn[x].requestId = IF x = c THEN 0 ELSE h.conn[x].requestId
    BY <1>2, <1>4
  <2>3. h.nextId \in Nat /\ \A x \in Conns : h.conn[x].requestId \in Nat
    BY DEF Core, Heap, Connection
  <2>4. \A x \in Conns : g.conn[x].requestId < g.nextId
    BY <1>4, <2>2, <2>3 DEF Core, MapInv
  <2> QED BY <1>4, <2>1, <2>2, <2>4 DEF Core, MapInv
<1>8. QueueInv(g)
  BY <1>4, <1>5 DEF Core, QueueInv
<1> QED BY <1>4, <1>6, <1>7, <1>8 DEF Core, g

\* What Core, Accepted and SameRequests say carries over to a heap that has
\* the same core.
LEMMA Frame ==
  ASSUME NEW h, NEW g, SameCore(h, g)
  PROVE  /\ SameRequests(h, g)
         /\ MappedIntercepts(g) = MappedIntercepts(h)
         /\ MappedConns(g) = MappedConns(h)
         /\ Queued(g) = Queued(h)
         /\ Idle(g) = Idle(h)
         /\ Accepted(g) = Accepted(h)
BY DEF SameCore, SameRequests, MappedIntercepts, MappedConns, Queued, Idle, Accepted

\* connectionClosed, on a connection that serves a request or was taken from
\* one.
LEMMA CoreClosed ==
  ASSUME NEW h, NEW c \in Conns, NEW D \in SUBSET {c}, Core(h, D)
  PROVE  LET g == connectionClosed(h, c)
         IN  /\ Core(g, {})
             /\ Accepted(g) \subseteq Accepted(h)
             /\ SameRequests(h, g)
<1> DEFINE r == h.conn[c].requestId
           f == erase(h, r)
           p == poolConnectionClosed(f, c)
           g == connectionClosed(h, c)
<1>0. h \in Heap
  BY DEF Core
<1>1. /\ \E E \in SUBSET {c} : Core(f, E)
      /\ c \notin MappedConns(f)
      /\ Accepted(f) \subseteq Accepted(h)
      /\ SameRequests(h, f)
  <2>1. CASE ~Mapped(h, r)
    <3>1. f = h
      BY <1>0, <2>1, NoEntry
    <3>2. c \notin MappedConns(h)
      BY <2>1 DEF Mapped, MappedConns, Core, MapInv
    <3> HIDE DEF f
    <3> QED BY <3>1, <3>2 DEF SameRequests
  <2>2. CASE Mapped(h, r)
    <3>1. PICK e \in h.intercept_list : e.id = r
      BY <2>2 DEF Mapped
    <3>2. e.conn = c
      BY <3>1 DEF Core, MapInv
    <3>3. /\ Core(erase(h, e.id), D \cup {e.conn})
          /\ MappedIntercepts(erase(h, e.id)) = MappedIntercepts(h) \ {e.intercept}
          /\ Queued(erase(h, e.id)) = Queued(h)
          /\ SameRequests(h, erase(h, e.id))
      BY CoreErase, Zenon
    <3> HIDE DEF r
    <3>4. /\ Core(f, D \cup {c})
          /\ MappedIntercepts(f) \subseteq MappedIntercepts(h)
          /\ Queued(f) = Queued(h)
          /\ SameRequests(h, f)
      BY <3>1, <3>2, <3>3
    <3> HIDE DEF f
    <3>5. D \cup {c} \in SUBSET {c}
      OBVIOUS
    <3>6. c \notin MappedConns(f)
      BY <3>4 DEF Core, PoolInv
    <3> QED BY <3>4, <3>5, <3>6 DEF Accepted
  <2> QED BY <2>1, <2>2
<1> HIDE DEF f
<1>2. /\ Core(p, {})
      /\ p.intercept_list = f.intercept_list
      /\ p.pending = f.pending
      /\ p.icept = f.icept
  BY <1>1, CorePoolClosed
<1>3. g = [p EXCEPT !.phpConnCount = @ - 1]
  BY DEF connectionClosed, f, r
<1> HIDE DEF p, g
<1>4. g \in Heap /\ SameCore(p, g)
  <2>1. p.phpConnCount - 1 \in Int
    BY <1>2 DEF Core, Heap
  <2> QED BY <1>2, <1>3, <2>1 DEF Core, Heap, SameCore
<1>5. Core(g, {}) /\ Accepted(g) = Accepted(p) /\ SameRequests(p, g)
  BY <1>2, <1>4, CoreFrame, Frame
<1>6. Accepted(p) = Accepted(f) /\ SameRequests(f, p)
  BY <1>2 DEF Accepted, MappedIntercepts, Queued, SameRequests
<1>7. SameRequests(h, g)
  BY <1>1, <1>5, <1>6 DEF SameRequests
<1> QED BY <1>1, <1>5, <1>6, <1>7 DEF g

\* A connection that was taken from its request becomes idle.
LEMMA CoreReuse ==
  ASSUME NEW h, NEW c \in Conns, Core(h, {c})
  PROVE  LET g == reuseConnection(h, c)
         IN  /\ Core(g, {})
             /\ Accepted(g) = Accepted(h)
             /\ SameRequests(h, g)
<1> DEFINE k == Reusable(h.conn[c])
           list == Append(h.available, c)
           g == reuseConnection(h, c)
<1>1. /\ k \in Connection /\ k.requestId = h.conn[c].requestId
  <2>1. h.conn[c] \in Connection
    BY DEF Core, Heap
  <2> QED BY <2>1, ConnectionSetters, ConnectionFrame
<1>2. /\ list \in Seq(Conns) /\ Injective(list)
      /\ Elements(list) = Idle(h) \cup {c}
  BY ListAppend DEF Core, PoolInv, Heap, Idle
<1>3. g = [h EXCEPT !.conn[c] = k, !.available = list]
  BY DEF reuseConnection
<1> HIDE DEF k, list, g
<1>4. /\ g \in Heap
      /\ g.available = list
      /\ g.connections = h.connections
      /\ g.pending = h.pending /\ g.nextId = h.nextId
      /\ g.intercept_list = h.intercept_list
      /\ g.icept = h.icept
      /\ \A x \in Conns : g.conn[x].requestId = h.conn[x].requestId
  BY <1>1, <1>2, <1>3 DEF Core, Heap
<1>5. /\ Idle(g) = Idle(h) \cup {c} /\ MappedConns(g) = MappedConns(h)
      /\ Queued(g) = Queued(h) /\ MappedIntercepts(g) = MappedIntercepts(h)
  BY <1>2, <1>4 DEF Idle, MappedConns, Queued, MappedIntercepts
<1>6. PoolInv(g, {})
  BY <1>2, <1>4, <1>5 DEF Core, PoolInv
<1>7. MapInv(g)
  BY <1>4 DEF Core, MapInv
<1>8. QueueInv(g)
  BY <1>4, <1>5 DEF Core, QueueInv
<1> QED BY <1>4, <1>5, <1>6, <1>7, <1>8 DEF Core, Accepted, SameRequests, g

\* popFromQueue: the request at the head is neither waiting nor in service.
LEMMA CorePop ==
  ASSUME NEW h, Core(h, {}), h.pending # <<>>
  PROVE  LET i == Head(h.pending)
             f == popFromQueue(h)
         IN  /\ i \in Intercepts /\ i \in Accepted(h) /\ i \notin Accepted(f)
             /\ i \in Queued(h) /\ Queued(f) = Queued(h) \ {i}
             /\ Core(f, {}) /\ SameRequests(h, f)
             /\ f.pending = Tail(h.pending)
             /\ f.intercept_list = h.intercept_list
             /\ f.conn = h.conn /\ f.icept = h.icept
<1> DEFINE i == Head(h.pending)
           f == popFromQueue(h)
<1>1. /\ i \in Intercepts /\ Tail(h.pending) \in Seq(Intercepts)
      /\ Injective(Tail(h.pending))
      /\ Elements(Tail(h.pending)) = Queued(h) \ {i}
      /\ i \in Queued(h)
  BY ListTail DEF Core, QueueInv, Heap, Queued
<1>2. /\ f \in Heap
      /\ f.connections = h.connections /\ f.available = h.available
      /\ f.pending = Tail(h.pending) /\ f.nextId = h.nextId
      /\ f.intercept_list = h.intercept_list
      /\ f.conn = h.conn /\ f.icept = h.icept
  BY <1>1 DEF popFromQueue, Core, Heap
<1> HIDE DEF f, i
<1>3. /\ Queued(f) = Queued(h) \ {i} /\ Idle(f) = Idle(h)
      /\ MappedIntercepts(f) = MappedIntercepts(h)
      /\ MappedConns(f) = MappedConns(h)
  BY <1>1, <1>2 DEF Queued, Idle, MappedIntercepts, MappedConns
<1>4. PoolInv(f, {})
  BY <1>2, <1>3 DEF Core, PoolInv
<1>5. MapInv(f)
  BY <1>2 DEF Core, MapInv
<1>6. QueueInv(f)
  BY <1>1, <1>2, <1>3 DEF Core, QueueInv
<1>7. /\ Core(f, {}) /\ SameRequests(h, f)
      /\ i \in Accepted(h) /\ i \notin Accepted(f)
  BY <1>1, <1>2, <1>3, <1>4, <1>5, <1>6 DEF Core, SameRequests, Accepted, QueueInv
<1> QED BY <1>1, <1>2, <1>3, <1>7 DEF f, i

\* The request at the head of the queue is connected, unless it is gone.
LEMMA CoreServeNext ==
  ASSUME NEW h, Core(h, {})
  PROVE  LET g == serveNext(h)
         IN  /\ Core(g, {})
             /\ Accepted(g) \subseteq Accepted(h)
             /\ SameRequests(h, g)
<1> DEFINE i == Head(h.pending)
           f == popFromQueue(h)
           g == serveNext(h)
<1>1. CASE h.pending = <<>>
  BY <1>1 DEF serveNext, SameRequests
<1>2. CASE h.pending # <<>>
  <2>1. /\ i \in Intercepts /\ i \in Accepted(h) /\ i \notin Accepted(f)
        /\ Core(f, {}) /\ SameRequests(h, f)
        /\ Queued(f) = Queued(h) \ {i}
        /\ f.intercept_list = h.intercept_list /\ f.icept = h.icept
    BY <1>2, CorePop
  <2>2. g = IF h.icept[i].alive THEN connect(f, i) ELSE [f EXCEPT !.crashed = TRUE]
    BY <1>2 DEF serveNext
  <2> HIDE DEF f, i, g
  <2>3. Accepted(f) \subseteq Accepted(h)
    BY <2>1 DEF Accepted, MappedIntercepts
  <2>4. CASE h.icept[i].alive
    <3>1. /\ Core(connect(f, i), {})
          /\ Accepted(connect(f, i)) \subseteq Accepted(f) \cup {i}
          /\ SameRequests(f, connect(f, i))
      BY <2>1, <2>4, CoreConnect
    <3> QED BY <2>1, <2>2, <2>3, <2>4, <3>1 DEF SameRequests, g
  <2>5. CASE ~h.icept[i].alive
    <3>1. g \in Heap /\ SameCore(f, g)
      BY <2>1, <2>2, <2>5, SetCrashed DEF Core
    <3>2. Core(g, {}) /\ Accepted(g) = Accepted(f) /\ SameRequests(f, g)
      BY <2>1, <3>1, CoreFrame, Frame
    <3> QED BY <2>1, <2>3, <3>2 DEF SameRequests, g
  <2> QED BY <2>4, <2>5
<1> QED BY <1>1, <1>2

\* Nobody is bound to the id of an entry that was taken off the map, so the
\* connection may forget it.
LEMMA CoreForget ==
  ASSUME NEW h, NEW c \in Conns, Core(h, {c})
  PROVE  LET g == [h EXCEPT !.conn[c] = setRequestId(@, 0)]
         IN  /\ Core(g, {c})
             /\ Accepted(g) = Accepted(h)
             /\ SameRequests(h, g)
<1> DEFINE k == setRequestId(h.conn[c], 0)
           g == [h EXCEPT !.conn[c] = setRequestId(@, 0)]
<1>1. k \in Connection /\ k.requestId = 0
  <2>1. h.conn[c] \in Connection
    BY DEF Core, Heap
  <2> QED BY <2>1, ConnectionSetters, ConnectionFrame
<1>2. g = [h EXCEPT !.conn[c] = k]
  OBVIOUS
<1> HIDE DEF k, g
<1>3. /\ g \in Heap
      /\ g.connections = h.connections /\ g.available = h.available
      /\ g.pending = h.pending /\ g.nextId = h.nextId
      /\ g.intercept_list = h.intercept_list
      /\ g.icept = h.icept
      /\ \A x \in Conns : g.conn[x].requestId = IF x = c THEN 0 ELSE h.conn[x].requestId
  BY <1>1, <1>2 DEF Core, Heap
<1>4. /\ Idle(g) = Idle(h) /\ MappedConns(g) = MappedConns(h)
      /\ Queued(g) = Queued(h) /\ MappedIntercepts(g) = MappedIntercepts(h)
  BY <1>3 DEF Idle, MappedConns, Queued, MappedIntercepts
<1>5. PoolInv(g, {c})
  BY <1>3, <1>4 DEF Core, PoolInv
<1>6. MapInv(g)
  <2>1. \A e \in h.intercept_list : e.conn # c /\ e.id # 0
    BY DEF MappedConns, Core, PoolInv, MapInv
  <2>2. h.nextId \in Nat /\ h.conn[c].requestId \in Nat
    BY DEF Core, Heap, Connection
  <2>3. 0 < h.nextId
    BY <2>2 DEF Core, MapInv
  <2> QED BY <1>3, <2>1, <2>3 DEF Core, MapInv
<1>7. QueueInv(g)
  BY <1>3, <1>4 DEF Core, QueueInv
<1> QED BY <1>3, <1>4, <1>5, <1>6, <1>7 DEF Core, Accepted, SameRequests, g

\* removeIntercept ends the service of the request that has id r.
LEMMA CoreRemove ==
  ASSUME NEW h, NEW r, Core(h, {})
  PROVE  LET g == removeIntercept(h, r)
         IN  /\ Core(g, {})
             /\ Accepted(g) \subseteq Accepted(h)
             /\ Mapped(h, r) => getIntercept(h, r) \notin Accepted(g)
             /\ SameRequests(h, g)
<1> DEFINE g == removeIntercept(h, r)
<1>0. h \in Heap
  BY DEF Core
<1>1. CASE ~Mapped(h, r)
  BY <1>1 DEF removeIntercept, SameRequests
<1>2. CASE Mapped(h, r)
  <2> DEFINE e  == EntryOf(h, r)
             c  == e.conn
             h0 == erase(h, r)
             h1 == releaseFCGIClient(h0, c)
             h2 == [h1 EXCEPT !.conn[c] = setRequestId(@, 0)]
             h3 == IF MaxRequests > h2.conn[c].req_count
                   THEN reuseConnection(h2, c)
                   ELSE connectionClosed(h2, c)
  <2>1. /\ e \in h.intercept_list /\ e.id = r
        /\ getIntercept(h, r) = e.intercept
        /\ getServerConnection(h, r) = c
    BY <1>0, <1>2, Lookup
  <2>2. g = serveNext(h3)
    BY <1>2, <2>1 DEF removeIntercept
  <2> HIDE DEF e, g
  <2>3. /\ Core(erase(h, e.id), {} \cup {e.conn})
        /\ c \in Conns
        /\ MappedIntercepts(erase(h, e.id)) = MappedIntercepts(h) \ {e.intercept}
        /\ Queued(erase(h, e.id)) = Queued(h)
        /\ SameRequests(h, erase(h, e.id))
    BY <2>1, CoreErase, Zenon
  <2> HIDE DEF c, h3
  <2>4. /\ Core(h0, {c})
        /\ MappedIntercepts(h0) = MappedIntercepts(h) \ {e.intercept}
        /\ Queued(h0) = Queued(h)
        /\ SameRequests(h, h0)
    <3>1. {} \cup {c} = {c}
      OBVIOUS
    <3> QED BY <2>1, <2>3, <3>1 DEF c
  <2>5. e.intercept \in MappedIntercepts(h) /\ e.intercept \notin Queued(h)
    BY <2>1 DEF MappedIntercepts, Core, QueueInv
  <2> HIDE DEF h0
  <2>6. Accepted(h0) \subseteq Accepted(h) /\ e.intercept \notin Accepted(h0)
    BY <2>4, <2>5 DEF Accepted
  <2>7. Core(h1, {c}) /\ Accepted(h1) = Accepted(h0) /\ SameRequests(h0, h1)
    <3>1. h0 \in Heap
      BY <2>4 DEF Core
    <3>2. h1 \in Heap /\ SameCore(h0, h1)
      BY <2>3, <3>1, ReleaseFCGIClient
    <3> HIDE DEF h1
    <3> QED BY <2>4, <3>2, CoreFrame, Frame
  <2> HIDE DEF h1
  <2>8. Core(h2, {c}) /\ Accepted(h2) = Accepted(h1) /\ SameRequests(h1, h2)
    BY <2>3, <2>7, CoreForget
  <2>9. h3 = reuseConnection(h2, c) \/ h3 = connectionClosed(h2, c)
    BY DEF h3
  <2> HIDE DEF h2
  <2>10. /\ Core(h3, {}) /\ Accepted(h3) \subseteq Accepted(h2)
         /\ SameRequests(h2, h3)
    <3>1. CASE h3 = reuseConnection(h2, c)
      BY <2>3, <2>8, <3>1, CoreReuse
    <3>2. CASE h3 = connectionClosed(h2, c)
      <4>1. {c} \in SUBSET {c}
        OBVIOUS
      <4> QED BY <2>3, <2>8, <3>2, <4>1, CoreClosed
    <3> QED BY <2>9, <3>1, <3>2
  <2>11. /\ Core(g, {}) /\ Accepted(g) \subseteq Accepted(h3)
         /\ SameRequests(h3, g)
    BY <2>2, <2>10, CoreServeNext
  <2>12. SameRequests(h, g)
    <3>1. SameRequests(h, h1)
      BY <2>4, <2>7, SameRequestsTransitive
    <3>2. SameRequests(h, h2)
      BY <2>8, <3>1, SameRequestsTransitive
    <3>3. SameRequests(h, h3)
      BY <2>10, <3>2, SameRequestsTransitive
    <3> QED BY <2>11, <3>3, SameRequestsTransitive
  <2> QED BY <2>1, <2>6, <2>7, <2>8, <2>10, <2>11, <2>12 DEF g
<1> QED BY <1>1, <1>2

-----------------------------------------------------------------------------
(***************************************************************************)
(* Taking a response in.                                                   *)
(***************************************************************************)

LEMMA Least ==
  ASSUME NEW T \in SUBSET Nat, T # {}
  PROVE  \E k \in T : \A m \in T : k <= m
<1>1. PICK k \in T : \A m \in T : ~(<<m, k>> \in OpToRel(<, Nat))
  BY NatLessThanWellFounded, WFMin
<1>2. \A m \in T : ~(m < k)
  BY <1>1 DEF OpToRel
<1> QED BY <1>2

\* Decoding a block yields records.
LEMMA DecodedType ==
  ASSUME NEW block \in Seq(ResponseRecord)
  PROVE  Decoded(block) \in Seq(ResponseRecord)
<1>1. /\ Len(block) \in Nat /\ DOMAIN block = 1 .. Len(block)
      /\ \A k \in 1 .. Len(block) : block[k] \in ResponseRecord
  OBVIOUS
<1>2. CASE StopsAt(block) = {}
  BY <1>2 DEF Decoded
<1>3. CASE StopsAt(block) # {}
  <2> DEFINE n == CHOOSE k \in StopsAt(block) : \A m \in StopsAt(block) : k <= m
  <2>1. StopsAt(block) \in SUBSET Nat
    BY <1>1 DEF StopsAt
  <2>2. \E k \in StopsAt(block) : \A m \in StopsAt(block) : k <= m
    BY <1>3, <2>1, Least
  <2>3. n \in StopsAt(block)
    BY <2>2
  <2>4. n \in 1 .. Len(block)
    BY <1>1, <2>3 DEF StopsAt
  <2>5. Decoded(block) = SubSeq(block, 1, n)
    BY <1>3 DEF Decoded
  <2> HIDE DEF n
  <2>6. n \in Int /\ 1 \in Int /\ \A k \in 1 .. n : block[k] \in ResponseRecord
    BY <1>1, <2>4
  <2>7. SubSeq(block, 1, n) \in Seq(ResponseRecord)
    BY <2>6, SubSeqProperties
  <2> QED BY <2>5, <2>7
<1> QED BY <1>2, <1>3

\* interceptTransferData moves records from a connection to an intercept.
LEMMA TransferData ==
  ASSUME NEW h \in Heap, NEW c \in Conns, NEW i \in Intercepts,
         NEW cut \in 1 .. Len(h.conn[c].readBuf)
  PROVE  LET g == interceptTransferData(h, c, i, cut).heap
         IN  g \in Heap /\ SameCore(h, g) /\ SameAccounts(h, g)
<1> DEFINE buf    == h.conn[c].readBuf
           first  == SubSeq(buf, 1, cut)
           second == SubSeq(buf, cut + 1, Len(buf))
           k == [h.conn[c] EXCEPT !.readBuf = <<>>]
           output == Decoded(first) \o Decoded(second)
           p == Produced(h.icept[i], output)
           b == h.crashed \/ h.conn[c].fcgi = NULL
           g == interceptTransferData(h, c, i, cut).heap
<1>1. h.conn[c] \in Connection /\ h.icept[i] \in Intercept /\ h.crashed \in BOOLEAN
  BY DEF Heap
<1>2. buf \in Seq(ResponseRecord)
  BY <1>1 DEF Connection
<1>3. /\ Len(buf) \in Nat
      /\ \A n \in 1 .. Len(buf) : buf[n] \in ResponseRecord
  BY <1>2
<1>4. k \in Connection /\ k.requestId = h.conn[c].requestId
  <2>1. <<>> \in Seq(ResponseRecord)
    OBVIOUS
  <2> QED BY <1>1, <2>1 DEF Connection
<1>5. b \in BOOLEAN
  BY <1>1
<1>6. g = [h EXCEPT !.conn[c] = k, !.icept[i] = p, !.crashed = b]
  BY DEF interceptTransferData
<1> HIDE DEF buf, k, b, g
<1>7. first \in Seq(ResponseRecord)
  <2>1. 1 \in Int /\ cut \in Int /\ \A n \in 1 .. cut : buf[n] \in ResponseRecord
    BY <1>3 DEF buf
  <2> QED BY <2>1, SubSeqProperties
<1>8. second \in Seq(ResponseRecord)
  <2>1. /\ cut + 1 \in Int /\ Len(buf) \in Int
        /\ \A n \in cut + 1 .. Len(buf) : buf[n] \in ResponseRecord
    BY <1>3 DEF buf
  <2> QED BY <2>1, SubSeqProperties
<1> HIDE DEF first, second
<1>9. output \in Seq(ResponseRecord)
  <2>1. Decoded(first) \in Seq(ResponseRecord) /\ Decoded(second) \in Seq(ResponseRecord)
    BY <1>7, <1>8, DecodedType
  <2> QED BY <2>1
<1> HIDE DEF output
<1>10. p \in Intercept /\ SameIntercept(h.icept[i], p)
  BY <1>1, <1>9, InterceptSetters, InterceptFrame
<1>11. SameAccount(h.icept[i], p)
  BY <1>1, AccountSetters
<1> HIDE DEF p
<1>12. g \in Heap
  BY <1>4, <1>5, <1>6, <1>10 DEF Heap
<1>13. SameCore(h, g)
  BY <1>4, <1>6, <1>10 DEF Heap, SameCore, SameIntercept
<1>14. SameAccounts(h, g)
  <2>1. g.icept = [h.icept EXCEPT ![i] = p]
    BY <1>6 DEF Heap
  <2> QED BY <1>11, <2>1, AccountsSet
<1> QED BY <1>12, <1>13, <1>14 DEF g

-----------------------------------------------------------------------------
(***************************************************************************)
(* The inductive invariant. TypeOK, the pool, the map and the queue need   *)
(* one another: an event finds its request through the map, a request is   *)
(* connected only if it is not in the map or the queue already, and a      *)
(* connection is closed or becomes idle only if no other entry has it.     *)
(***************************************************************************)

IInv == TypeOK /\ PoolConsistent /\ MapConsistent /\ QueueConsistent

\* IInv as a property of a heap and an input.
Inv(h, in) ==
  /\ Core(h, {})
  /\ in \in [Intercepts -> Input]
  /\ \A i \in Accepted(h) : ~h.icept[i].outputComplete /\ in[i] # "new"
  /\ \A i \in Intercepts : in[i] = "new" => ~h.icept[i].outputComplete

\* IInv is Inv of the current state.
LEMMA InvParts == IInv <=> Inv(server, input)
BY DEF IInv, Inv, TypeOK, PoolConsistent, MapConsistent, QueueConsistent,
       Core, Accepted

\* IInv' is Inv of the next state.
LEMMA InvPartsNext == IInv' <=> Inv(server', input')
BY DEF IInv, Inv, TypeOK, PoolConsistent, MapConsistent, QueueConsistent,
       Core, Accepted, PoolInv, MapInv, QueueInv, Idle, MappedConns, Queued,
       MappedIntercepts

\* Accepted requests are requests.
LEMMA AcceptedType ==
  ASSUME NEW h, NEW D, Core(h, D)
  PROVE  Accepted(h) \subseteq Intercepts
<1>1. /\ \A k \in DOMAIN h.pending : h.pending[k] \in Intercepts
      /\ \A e \in h.intercept_list : e.intercept \in Intercepts
  BY DEF Core, Heap, Entry
<1> QED BY <1>1 DEF Accepted, Queued, Elements, MappedIntercepts

\* A handler that accepts no request and completes none keeps the invariant.
LEMMA Kept ==
  ASSUME NEW h, NEW in, Inv(h, in), NEW g, Core(g, {}),
         Accepted(g) \subseteq Accepted(h), SameRequests(h, g)
  PROVE  Inv(g, in)
<1>1. Accepted(g) \subseteq Intercepts
  BY AcceptedType
<1> QED BY <1>1 DEF Inv, SameRequests

\* A handler that leaves the core alone keeps the invariant.
LEMMA KeptCore ==
  ASSUME NEW h, NEW in, Inv(h, in), NEW g \in Heap, SameCore(h, g)
  PROVE  Inv(g, in)
<1>1. Core(h, {})
  BY DEF Inv
<1>2. Core(g, {}) /\ Accepted(g) = Accepted(h) /\ SameRequests(h, g)
  BY <1>1, CoreFrame, Frame
<1> QED BY <1>2, Kept

\* The client sends more of a request.
LEMMA KeptInput ==
  ASSUME NEW h, NEW in, Inv(h, in), NEW i \in Intercepts, NEW x \in Input \ {"new"}
  PROVE  Inv(h, [in EXCEPT ![i] = x])
<1>1. [in EXCEPT ![i] = x] \in [Intercepts -> Input]
  BY DEF Inv
<1>2. \A j \in Intercepts : in[j] # "new" => [in EXCEPT ![i] = x][j] # "new"
  BY DEF Inv
<1>3. Accepted(h) \subseteq Intercepts
  BY AcceptedType DEF Inv
<1> QED BY <1>1, <1>2, <1>3 DEF Inv

\* An intercept changes, but not its id; if it dies, it is not in the map.
LEMMA CoreIntercept ==
  ASSUME NEW h, Core(h, {}), NEW i \in Intercepts, NEW p \in Intercept,
         p.requestId = h.icept[i].requestId,
         i \in MappedIntercepts(h) => p.alive
  PROVE  LET g == [h EXCEPT !.icept[i] = p]
         IN  /\ Core(g, {})
             /\ Accepted(g) = Accepted(h)
             /\ g.intercept_list = h.intercept_list
             /\ g.conn = h.conn
             /\ g.icept = [h.icept EXCEPT ![i] = p]
<1> DEFINE g == [h EXCEPT !.icept[i] = p]
<1>1. /\ g \in Heap
      /\ g.connections = h.connections /\ g.available = h.available
      /\ g.pending = h.pending /\ g.nextId = h.nextId
      /\ g.intercept_list = h.intercept_list
      /\ g.conn = h.conn
      /\ g.icept = [h.icept EXCEPT ![i] = p]
      /\ \A j \in Intercepts : g.icept[j] = IF j = i THEN p ELSE h.icept[j]
  BY DEF Core, Heap
<1> HIDE DEF g
<1>2. /\ Idle(g) = Idle(h) /\ MappedConns(g) = MappedConns(h)
      /\ Queued(g) = Queued(h) /\ MappedIntercepts(g) = MappedIntercepts(h)
  BY <1>1 DEF Idle, MappedConns, Queued, MappedIntercepts
<1>3. PoolInv(g, {})
  BY <1>1, <1>2 DEF Core, PoolInv
<1>4. MapInv(g)
  <2>1. \A e \in h.intercept_list :
          e.intercept \in MappedIntercepts(h) /\ e.intercept \in Intercepts
    BY DEF MappedIntercepts, Core, Heap, Entry
  <2>2. \A j \in Intercepts : g.icept[j].requestId = h.icept[j].requestId
    BY <1>1
  <2>3. \A e \in h.intercept_list : g.icept[e.intercept].alive
    BY <1>1, <2>1 DEF Core, MapInv
  <2> QED BY <1>1, <2>2, <2>3 DEF Core, MapInv
<1>5. QueueInv(g)
  BY <1>1, <1>2 DEF Core, QueueInv
<1> QED BY <1>1, <1>2, <1>3, <1>4, <1>5 DEF Core, Accepted, g

\* A mapped request is found under its own id.
LEMMA MappedLookup ==
  ASSUME NEW h, Core(h, {}), NEW i \in Intercepts
  PROVE  LET r == h.icept[i].requestId
         IN  /\ Mapped(h, r) => getIntercept(h, r) = i
             /\ i \in MappedIntercepts(h) => Mapped(h, r)
<1> DEFINE r == h.icept[i].requestId
<1>1. h \in Heap
  BY DEF Core
<1>2. \A e \in h.intercept_list : h.icept[i].requestId = e.id <=> i = e.intercept
  BY DEF Core, MapInv
<1>3. Mapped(h, r) => /\ EntryOf(h, r) \in h.intercept_list
                      /\ EntryOf(h, r).id = r
                      /\ getIntercept(h, r) = EntryOf(h, r).intercept
  BY <1>1, Lookup
<1>4. Mapped(h, r) => getIntercept(h, r) = i
  BY <1>2, <1>3
<1>5. i \in MappedIntercepts(h) => Mapped(h, r)
  BY <1>2 DEF MappedIntercepts, Mapped
<1> QED BY <1>4, <1>5

\* A request that is complete has no connection and waits for none.
LEMMA CoreComplete ==
  ASSUME NEW h, NEW in, Inv(h, in), NEW i \in Intercepts, i \in MappedIntercepts(h)
  PROVE  Inv(setResponseOutputComplete(h, i), in)
<1> DEFINE p == Complete(h.icept[i])
           r == h.icept[i].requestId
           f == [h EXCEPT !.icept[i] = Complete(@)]
           g == setResponseOutputComplete(h, i)
<1>1. Core(h, {})
  BY DEF Inv
<1>2. /\ p \in Intercept /\ p.requestId = r /\ p.alive = h.icept[i].alive
      /\ h.icept[i].alive
  <2>1. h.icept[i] \in Intercept
    BY <1>1 DEF Core, Heap
  <2>2. h.icept[i].alive
    BY <1>1 DEF MappedIntercepts, Core, MapInv
  <2> QED BY <2>1, <2>2, InterceptSetters, InterceptFrame
<1>3. f = [h EXCEPT !.icept[i] = p]
  OBVIOUS
<1>4. g = removeIntercept(f, r)
  BY DEF setResponseOutputComplete
<1> HIDE DEF p, f, g
<1>5. /\ Core(f, {})
      /\ Accepted(f) = Accepted(h)
      /\ f.intercept_list = h.intercept_list
      /\ f.icept = [h.icept EXCEPT ![i] = p]
  <2>1. p.alive
    BY <1>2, Zenon
  <2>2. p.requestId = h.icept[i].requestId
    BY <1>2
  <2> HIDE DEF r
  <2> QED BY <1>1, <1>2, <1>3, <2>1, <2>2, CoreIntercept
<1>6. f.icept[i] = p /\ \A j \in Intercepts : j # i => f.icept[j] = h.icept[j]
  BY <1>1, <1>5 DEF Core, Heap
<1>7. Mapped(f, r) /\ getIntercept(f, r) = i
  <2>1. i \in MappedIntercepts(f)
    BY <1>5 DEF MappedIntercepts
  <2>2. f.icept[i].requestId = r
    BY <1>2, <1>6
  <2> HIDE DEF r
  <2> QED BY <1>5, <2>1, <2>2, MappedLookup
<1> HIDE DEF r
<1>8. /\ Core(g, {}) /\ Accepted(g) \subseteq Accepted(f) /\ i \notin Accepted(g)
      /\ SameRequests(f, g)
  BY <1>4, <1>5, <1>7, CoreRemove
<1>9. Accepted(g) \subseteq Intercepts
  BY <1>8, AcceptedType
<1>10. \A j \in Accepted(g) : ~g.icept[j].outputComplete /\ in[j] # "new"
  BY <1>5, <1>6, <1>8, <1>9 DEF Inv, SameRequests
<1>11. in[i] # "new"
  BY DEF Inv, Accepted
<1>12. \A j \in Intercepts : in[j] = "new" => ~g.icept[j].outputComplete
  BY <1>6, <1>8, <1>11 DEF Inv, SameRequests
<1> QED BY <1>8, <1>10, <1>12 DEF Inv, g

\* A request that is gone has no connection; it may still be in the queue.
LEMMA CoreDestroy ==
  ASSUME NEW h, NEW in, Inv(h, in), NEW i \in Intercepts
  PROVE  Inv(destroyIntercept(h, i), in)
<1> DEFINE r == h.icept[i].requestId
           f == IF h.icept[i].outputComplete THEN h ELSE removeIntercept(h, r)
           p == Destroyed(f.icept[i])
           g == destroyIntercept(h, i)
<1>1. Core(h, {})
  BY DEF Inv
<1>2. Inv(f, in) /\ i \notin MappedIntercepts(f)
  <2>1. CASE h.icept[i].outputComplete
    <3>1. i \notin MappedIntercepts(h)
      BY <2>1 DEF Inv, Accepted
    <3> QED BY <2>1, <3>1
  <2>2. CASE ~h.icept[i].outputComplete
    <3>1. f = removeIntercept(h, r)
      BY <2>2
    <3> HIDE DEF f
    <3>2. /\ Core(f, {}) /\ Accepted(f) \subseteq Accepted(h)
          /\ Mapped(h, r) => getIntercept(h, r) \notin Accepted(f)
          /\ SameRequests(h, f)
      BY <1>1, <3>1, CoreRemove
    <3>3. Inv(f, in)
      BY <3>2, Kept
    <3>4. CASE Mapped(h, r)
      <4>1. getIntercept(h, r) = i
        BY <1>1, <3>4, MappedLookup
      <4> QED BY <3>2, <3>3, <3>4, <4>1 DEF Accepted
    <3>5. CASE ~Mapped(h, r)
      <4>1. i \notin MappedIntercepts(h)
        BY <1>1, <3>5, MappedLookup
      <4>2. f = h
        BY <3>1, <3>5 DEF removeIntercept
      <4> QED BY <3>3, <4>1, <4>2
    <3> QED BY <3>4, <3>5
  <2> QED BY <2>1, <2>2
<1>3. g = [f EXCEPT !.icept[i] = p]
  BY DEF destroyIntercept
<1> HIDE DEF f
<1>4. /\ p \in Intercept /\ p.requestId = f.icept[i].requestId
      /\ p.outputComplete = f.icept[i].outputComplete
  <2>1. f.icept[i] \in Intercept
    BY <1>2 DEF Inv, Core, Heap
  <2> QED BY <2>1, InterceptSetters, InterceptFrame
<1> HIDE DEF p, g
<1>5. /\ Core(g, {})
      /\ Accepted(g) = Accepted(f)
      /\ g.icept = [f.icept EXCEPT ![i] = p]
  <2>1. Core(f, {})
    BY <1>2 DEF Inv
  <2> QED BY <1>2, <1>3, <1>4, <2>1, CoreIntercept
<1>6. \A j \in Intercepts : g.icept[j].outputComplete = f.icept[j].outputComplete
  BY <1>2, <1>4, <1>5 DEF Inv, Core, Heap
<1>7. Accepted(g) \subseteq Intercepts
  BY <1>5, AcceptedType
<1> QED BY <1>2, <1>5, <1>6, <1>7 DEF Inv, g

-----------------------------------------------------------------------------
(***************************************************************************)
(* One lemma per action.                                                   *)
(***************************************************************************)

\* Before the first request everything is empty.
LEMMA InitInv == Init => Inv(server, input)
<1> SUFFICES ASSUME Init PROVE Inv(server, input)
  OBVIOUS
<1>1. EmptyHeap \in Heap
  <2>1. /\ NoConnection \in Connection
        /\ NoIntercept \in Intercept
    <3>1. 0 \in Nat /\ <<>> \in Seq(ResponseRecord)
      OBVIOUS
    <3> QED BY <3>1, EmptyConnections DEF NoIntercept, Intercept
  <2>2. /\ <<>> \in Seq(Conns) /\ <<>> \in Seq(Intercepts)
        /\ {} \in SUBSET Conns /\ {} \in SUBSET Entry
        /\ 0 \in Int /\ 1 \in Nat
    OBVIOUS
  <2> HIDE DEF NoConnection, NoIntercept
  <2> QED BY <2>1, <2>2 DEF EmptyHeap, Heap
<1>2. /\ server = EmptyHeap
      /\ server.available = <<>> /\ server.pending = <<>>
      /\ server.intercept_list = {} /\ server.connections = {}
      /\ server.nextId = 1
      /\ \A c \in Conns : server.conn[c].requestId = 0
      /\ \A i \in Intercepts : server.icept[i].requestId = 0
  BY DEF Init, EmptyHeap, NoConnection, NoIntercept
<1>3. /\ Idle(server) = {} /\ MappedConns(server) = {}
      /\ Queued(server) = {} /\ MappedIntercepts(server) = {}
  BY <1>2 DEF Idle, MappedConns, Queued, MappedIntercepts, Elements
<1>4. PoolInv(server, {})
  <2>1. Cardinality({}) = 0
    BY FS_EmptySet
  <2>2. Injective(<<>>)
    BY DEF Injective
  <2> QED BY <1>2, <1>3, <2>1, <2>2, MaxConnType DEF PoolInv
<1>5. MapInv(server)
  BY <1>2 DEF MapInv
<1>6. QueueInv(server)
  BY <1>2, <1>3 DEF QueueInv, Injective
<1>7. input \in [Intercepts -> Input]
  BY DEF Init, Input
<1>8. \A i \in Intercepts : ~server.icept[i].outputComplete
  BY DEF Init, EmptyHeap, NoIntercept
<1> QED BY <1>1, <1>2, <1>3, <1>4, <1>5, <1>6, <1>7, <1>8 DEF Inv, Core, Accepted

\* A new request gets a connection or a place in the queue, or is dropped.
LEMMA CacheLookupCompleteInv ==
  ASSUME Inv(server, input), NEW i \in Intercepts, CacheLookupComplete(i)
  PROVE  Inv(server', input')
<1> DEFINE p == Constructed(server.icept[i])
           f == [server EXCEPT !.icept[i] = Constructed(@)]
           g == connect(f, i)
<1>1. Core(server, {}) /\ input \in [Intercepts -> Input]
  BY DEF Inv
<1>2. /\ p \in Intercept /\ p.requestId = server.icept[i].requestId /\ p.alive
      /\ p.outputComplete = server.icept[i].outputComplete
  <2>1. server.icept[i] \in Intercept
    BY <1>1 DEF Core, Heap
  <2> QED BY <2>1, InterceptSetters, InterceptFrame
<1>3. f = [server EXCEPT !.icept[i] = p]
  OBVIOUS
<1>4. server' = g /\ input[i] = "new" /\ input' = [input EXCEPT ![i] = "none"]
  BY DEF CacheLookupComplete
<1> HIDE DEF p, f, g
<1>5. /\ Core(f, {})
      /\ Accepted(f) = Accepted(server)
      /\ f.icept = [server.icept EXCEPT ![i] = p]
  BY <1>1, <1>2, <1>3, CoreIntercept
<1>6. /\ f.icept[i].alive
      /\ \A j \in Intercepts : j # i => f.icept[j] = server.icept[j]
  BY <1>1, <1>2, <1>5 DEF Core, Heap
<1>7. i \notin Accepted(f)
  BY <1>4, <1>5 DEF Inv
<1>8. Core(g, {}) /\ Accepted(g) \subseteq Accepted(f) \cup {i} /\ SameRequests(f, g)
  BY <1>5, <1>6, <1>7, CoreConnect DEF g
<1>9. Accepted(g) \subseteq Intercepts
  BY <1>8, AcceptedType
<1>10. input' \in [Intercepts -> Input] /\ input'[i] = "none"
       /\ \A j \in Intercepts : j # i => input'[j] = input[j]
  BY <1>1, <1>4 DEF Input
<1>11. \A j \in Intercepts : f.icept[j].outputComplete = server.icept[j].outputComplete
  BY <1>1, <1>2, <1>5 DEF Core, Heap
<1>12. \A j \in Intercepts : g.icept[j].outputComplete = server.icept[j].outputComplete
  BY <1>8, <1>11 DEF SameRequests
<1>13. ~server.icept[i].outputComplete
  BY <1>4 DEF Inv
<1>14. \A j \in Accepted(g) : ~g.icept[j].outputComplete /\ input'[j] # "new"
  BY <1>5, <1>8, <1>9, <1>10, <1>12, <1>13 DEF Inv
<1>15. \A j \in Intercepts : input'[j] = "new" => ~g.icept[j].outputComplete
  BY <1>10, <1>12 DEF Inv
<1> QED BY <1>4, <1>8, <1>10, <1>14, <1>15 DEF Inv

\* The three write functions of Server leave the core alone.
LEMMA WriteRequest ==
  ASSUME NEW h \in Heap, NEW r
  PROVE  /\ writeRequestHeader(h, r) \in Heap
         /\ SameCore(h, writeRequestHeader(h, r))
         /\ writeRequestBody(h, r) \in Heap
         /\ SameCore(h, writeRequestBody(h, r))
         /\ \A post \in BOOLEAN :
              /\ writeRequestBodyComplete(h, r, post) \in Heap
              /\ SameCore(h, writeRequestBodyComplete(h, r, post))
<1> DEFINE T == {"BEGIN", "STDIN", "EOF"}
<1>1. /\ <<"BEGIN">> \in Seq(T) /\ <<"STDIN", "EOF">> \in Seq(T)
      /\ <<>> \in Seq(T) /\ <<"EOF">> \in Seq(T)
  OBVIOUS
<1> HIDE DEF T
<1>2. \A types \in Seq(T), endflag \in BOOLEAN :
        /\ writeRecords(h, r, types, endflag) \in Heap
        /\ SameCore(h, writeRecords(h, r, types, endflag))
  BY WriteRecords DEF T
<1>3. /\ writeRequestHeader(h, r) = writeRecords(h, r, <<"BEGIN">>, FALSE)
      /\ writeRequestBody(h, r) = writeRecords(h, r, <<"STDIN", "EOF">>, FALSE)
      /\ \A post \in BOOLEAN :
           \/ writeRequestBodyComplete(h, r, post) = writeRecords(h, r, <<>>, TRUE)
           \/ writeRequestBodyComplete(h, r, post) = writeRecords(h, r, <<"EOF">>, TRUE)
  BY DEF writeRequestHeader, writeRequestBody, writeRequestBodyComplete
<1> QED BY <1>1, <1>2, <1>3, Zenon

\* Streaming a request in leaves the core alone.
LEMMA StreamFrame ==
  ASSUME server \in Heap, NEW i \in Intercepts,
         StreamRequest(i) \/ StreamHeader(i) \/ StreamBody(i)
  PROVE  /\ server' \in Heap /\ SameCore(server, server')
         /\ \E x \in Input \ {"new"} :
              input[i] # "new" /\ input' = [input EXCEPT ![i] = x]
<1> DEFINE r == server.icept[i].requestId
<1>1. CASE StreamRequest(i)
  <2> DEFINE f == writeRequestHeader(server, r)
             g == writeRequestBodyComplete(f, r, FALSE)
  <2>1. f \in Heap /\ SameCore(server, f)
    BY WriteRequest
  <2>2. server' = f \/ server' = g
    BY <1>1 DEF StreamRequest
  <2> HIDE DEF f
  <2>3. g \in Heap /\ SameCore(f, g)
    BY <2>1, WriteRequest
  <2> HIDE DEF g
  <2>4. SameCore(server, g)
    BY <2>1, <2>3, SameCoreTransitive
  <2>5. /\ "done" \in Input \ {"new"} /\ input[i] # "new"
        /\ input' = [input EXCEPT ![i] = "done"]
    BY <1>1 DEF StreamRequest, Input
  <2> QED BY <2>1, <2>2, <2>3, <2>4, <2>5
<1>2. CASE StreamHeader(i)
  <2>1. server' = writeRequestHeader(server, r)
    BY <1>2 DEF StreamHeader
  <2>2. /\ "header" \in Input \ {"new"} /\ input[i] # "new"
        /\ input' = [input EXCEPT ![i] = "header"]
    BY <1>2 DEF StreamHeader, Input
  <2> QED BY <2>1, <2>2, WriteRequest
<1>3. CASE StreamBody(i)
  <2> DEFINE f == writeRequestBody(server, r)
             g == writeRequestBodyComplete(f, r, TRUE)
  <2>1. f \in Heap /\ SameCore(server, f)
    BY WriteRequest
  <2>2. server' = f \/ server' = g
    BY <1>3 DEF StreamBody
  <2> HIDE DEF f
  <2>3. g \in Heap /\ SameCore(f, g)
    BY <2>1, WriteRequest
  <2> HIDE DEF g
  <2>4. SameCore(server, g)
    BY <2>1, <2>3, SameCoreTransitive
  <2>5. /\ "done" \in Input \ {"new"} /\ input[i] # "new"
        /\ input' = [input EXCEPT ![i] = "done"]
    BY <1>3 DEF StreamBody, Input
  <2> QED BY <2>1, <2>2, <2>3, <2>4, <2>5
<1> QED BY <1>1, <1>2, <1>3

\* A request streams in.
LEMMA StreamInv ==
  ASSUME Inv(server, input), NEW i \in Intercepts,
         StreamRequest(i) \/ StreamHeader(i) \/ StreamBody(i)
  PROVE  Inv(server', input')
<1>1. server \in Heap
  BY DEF Inv, Core
<1>2. /\ server' \in Heap /\ SameCore(server, server')
      /\ \E x \in Input \ {"new"} : input' = [input EXCEPT ![i] = x]
  BY <1>1, StreamFrame
<1>3. PICK x \in Input \ {"new"} : input' = [input EXCEPT ![i] = x]
  BY <1>2
<1>4. Inv(server', input)
  BY <1>2, KeptCore
<1>5. Inv(server', [input EXCEPT ![i] = x])
  BY <1>4, KeptInput, Zenon
<1> QED BY <1>3, <1>5, Zenon

\* A transaction ends.
LEMMA TxnCloseInv ==
  ASSUME Inv(server, input), NEW i \in Intercepts, TxnClose(i)
  PROVE  Inv(server', input')
<1> DEFINE f == destroyIntercept(server, i)
           b == f.crashed \/ server.icept[i].plugins > 1
<1>1. Inv(f, input)
  BY CoreDestroy
<1>2. server' = [f EXCEPT !.crashed = b] /\ input' = input
  BY DEF TxnClose
<1> HIDE DEF f
<1>3. f \in Heap /\ b \in BOOLEAN
  BY <1>1 DEF Inv, Core, Heap
<1> HIDE DEF b
<1>4. server' \in Heap /\ SameCore(f, server')
  BY <1>2, <1>3, SetCrashed
<1>5. Inv(server', input)
  BY <1>1, <1>4, KeptCore
<1> QED BY <1>2, <1>5

\* The connection of an event and the intercept that the handler finds for it.
LEMMA InterceptOfType ==
  ASSUME Inv(server, input), NEW c \in Conns
  PROVE  /\ server \in Heap /\ server.conn[c] \in Connection
         /\ InterceptOf(c) # NULL =>
              InterceptOf(c) \in Intercepts /\ InterceptOf(c) \in MappedIntercepts(server)
<1> DEFINE r == server.conn[c].requestId
<1>1. server \in Heap /\ server.conn[c] \in Connection
  BY DEF Inv, Core, Heap
<1>2. /\ getIntercept(server, r) \in Intercepts \cup {NULL}
      /\ Mapped(server, r) => /\ EntryOf(server, r) \in server.intercept_list
                              /\ getIntercept(server, r) = EntryOf(server, r).intercept
      /\ ~Mapped(server, r) => getIntercept(server, r) = NULL
  BY <1>1, Lookup
<1> QED BY <1>1, <1>2 DEF InterceptOf, MappedIntercepts

\* A connection changes, but not its id.
LEMMA KeptConn ==
  ASSUME NEW h, NEW in, Inv(h, in), NEW c \in Conns, NEW k \in Connection,
         k.requestId = h.conn[c].requestId, NEW n \in Int
  PROVE  LET g == [h EXCEPT !.phpConnCount = n, !.conn[c] = k]
         IN  Inv(g, in) /\ g.conn[c] = k
<1> DEFINE g == [h EXCEPT !.phpConnCount = n, !.conn[c] = k]
<1>1. h \in Heap
  BY DEF Inv, Core
<1>2. g \in Heap /\ g.conn[c] = k /\ SameCore(h, g)
  BY <1>1 DEF Heap, SameCore
<1> HIDE DEF g
<1>3. Inv(g, in)
  BY <1>2, KeptCore
<1> QED BY <1>2, <1>3 DEF g

\* TS_EVENT_NET_CONNECT.
LEMMA NetConnectInv ==
  ASSUME Inv(server, input), NEW c \in Conns, NetConnect(c)
  PROVE  Inv(server', input')
<1> DEFINE k == Established(server.conn[c])
           n == server.phpConnCount + 1
           f == [server EXCEPT !.phpConnCount = n, !.conn[c] = k]
           i == InterceptOf(c)
<1>1. /\ server \in Heap /\ server.conn[c] \in Connection
      /\ i # NULL => i \in Intercepts
  BY InterceptOfType
<1>2. k \in Connection /\ k.requestId = server.conn[c].requestId /\ n \in Int
  <2>1. server.phpConnCount \in Int
    BY <1>1 DEF Heap
  <2>2. n \in Int
    BY <2>1
  <2>3. k \in Connection /\ k.requestId = server.conn[c].requestId
    BY <1>1, ConnectionSetters, ConnectionFrame
  <2> QED BY <2>2, <2>3
<1>3. /\ server' = IF i = NULL THEN f ELSE createFCGIClient(f, c, i)
      /\ input' = input
  BY DEF NetConnect
<1> HIDE DEF k, n, i
<1>4. Inv(f, input)
  BY <1>2, KeptConn
<1> HIDE DEF f
<1>5. f \in Heap
  BY <1>4 DEF Inv, Core
<1>6. CASE i = NULL
  BY <1>3, <1>4, <1>6, Zenon
<1>7. CASE i # NULL
  <2>1. server' = createFCGIClient(f, c, i)
    BY <1>3, <1>7
  <2>2. server' \in Heap /\ SameCore(f, server')
    BY <1>1, <1>5, <1>7, <2>1, CreateFCGIClient
  <2>3. Inv(server', input)
    BY <1>4, <2>2, KeptCore
  <2> QED BY <1>3, <2>3, Zenon
<1> QED BY <1>6, <1>7

\* The request of a connection is connected anew, then the connection closed.
LEMMA ReconnectAndClose ==
  ASSUME NEW h, NEW in, Inv(h, in), NEW c \in Conns
  PROVE  Inv(connectionClosed(reConnect(h, h.conn[c].requestId), c), in)
<1> DEFINE f == reConnect(h, h.conn[c].requestId)
           g == connectionClosed(f, c)
<1>1. Core(h, {})
  BY DEF Inv
<1>2. /\ \E D \in SUBSET {c} : Core(f, D)
      /\ Accepted(f) \subseteq Accepted(h)
      /\ SameRequests(h, f)
  BY <1>1, CoreReConnect
<1> HIDE DEF f
<1>3. PICK D \in SUBSET {c} : Core(f, D)
  BY <1>2
<1>4. Core(g, {}) /\ Accepted(g) \subseteq Accepted(f) /\ SameRequests(f, g)
  BY <1>3, CoreClosed
<1> HIDE DEF g
<1>5. SameRequests(h, g)
  BY <1>2, <1>4, SameRequestsTransitive
<1>6. Inv(g, in)
  BY <1>2, <1>4, <1>5, Kept
<1> QED BY <1>6 DEF f, g

\* A connection is closed, and the request it serves, if any, leaves the map.
LEMMA CloseOnly ==
  ASSUME NEW h, NEW in, Inv(h, in), NEW c \in Conns
  PROVE  Inv(connectionClosed(h, c), in)
<1>1. Core(h, {}) /\ {} \in SUBSET {c}
  BY DEF Inv
<1>2. LET g == connectionClosed(h, c)
      IN  Core(g, {}) /\ Accepted(g) \subseteq Accepted(h) /\ SameRequests(h, g)
  BY <1>1, CoreClosed
<1> QED BY <1>2, Kept

\* TS_EVENT_NET_CONNECT_FAILED.
LEMMA NetConnectFailedInv ==
  ASSUME Inv(server, input), NEW c \in Conns, NetConnectFailed(c)
  PROVE  Inv(server', input')
<1> DEFINE k == Refused(server.conn[c])
           n == server.phpConnCount + 1
           f == [server EXCEPT !.phpConnCount = n, !.conn[c] = k]
<1>1. server \in Heap /\ server.conn[c] \in Connection
  BY InterceptOfType
<1>2. k \in Connection /\ k.requestId = server.conn[c].requestId /\ n \in Int
  <2>1. server.phpConnCount \in Int
    BY <1>1 DEF Heap
  <2>2. n \in Int
    BY <2>1
  <2>3. k \in Connection /\ k.requestId = server.conn[c].requestId
    BY <1>1, ConnectionSetters, ConnectionFrame
  <2> QED BY <2>2, <2>3
<1>3. /\ server' = connectionClosed(reConnect(f, server.conn[c].requestId), c)
      /\ input' = input
  BY DEF NetConnectFailed
<1> HIDE DEF k, n
<1>4. Inv(f, input) /\ f.conn[c] = k
  <2>1. Inv(f, input)
    BY <1>2, KeptConn
  <2>2. f.conn[c] = k
    BY <1>1 DEF Heap
  <2> QED BY <2>1, <2>2
<1> HIDE DEF f
<1>5. f.conn[c].requestId = server.conn[c].requestId
  BY <1>2, <1>4
<1>6. Inv(connectionClosed(reConnect(f, f.conn[c].requestId), c), input)
  BY <1>4, ReconnectAndClose, Zenon
<1> QED BY <1>3, <1>5, <1>6, Zenon

\* TS_EVENT_VCONN_EOS and TS_EVENT_ERROR.
LEMMA EosInv ==
  ASSUME Inv(server, input), NEW c \in Conns, Eos(c) \/ Error(c)
  PROVE  Inv(server', input')
<1> DEFINE i == InterceptOf(c)
           f == transactionError(server, i)
<1>1. server \in Heap /\ (i # NULL => i \in Intercepts)
  BY InterceptOfType
<1>2. i # NULL => Inv(f, input)
  <2>1. i # NULL => f \in Heap /\ SameCore(server, f)
    BY <1>1, TransactionError
  <2> QED BY <2>1, KeptCore
<1>3. /\ \/ server' = connectionClosed(reConnect(server, server.conn[c].requestId), c)
         \/ server' = connectionClosed(server, c)
         \/ i # NULL /\ server' = connectionClosed(f, c)
      /\ input' = input
  BY DEF Eos, Error
<1> HIDE DEF f
<1>4. CASE server' = connectionClosed(reConnect(server, server.conn[c].requestId), c)
  BY <1>3, <1>4, ReconnectAndClose, Zenon
<1>5. CASE server' = connectionClosed(server, c)
  BY <1>3, <1>5, CloseOnly, Zenon
<1>6. CASE i # NULL /\ server' = connectionClosed(f, c)
  BY <1>2, <1>3, <1>6, CloseOnly, Zenon
<1> QED BY <1>3, <1>4, <1>5, <1>6

\* A connection changes, but not its id; the count of connections stays.
LEMMA KeptOneConn ==
  ASSUME NEW h, NEW in, Inv(h, in), NEW c \in Conns, NEW k \in Connection,
         k.requestId = h.conn[c].requestId
  PROVE  LET g == [h EXCEPT !.conn[c] = k]
         IN  Inv(g, in) /\ g \in Heap /\ SameCore(h, g)
<1> DEFINE g == [h EXCEPT !.conn[c] = k]
<1>1. h \in Heap
  BY DEF Inv, Core
<1>2. g \in Heap /\ SameCore(h, g)
  BY <1>1, SetConn
<1> HIDE DEF g
<1>3. Inv(g, in)
  BY <1>2, KeptCore
<1> QED BY <1>2, <1>3 DEF g

\* What a response brings leaves the core alone; its end completes the request.
LEMMA ReadReadyFrame ==
  ASSUME Inv(server, input), NEW c \in Conns, ReadReady(c)
  PROVE  LET i == InterceptOf(c)
         IN  \/ /\ server' \in Heap /\ SameCore(server, server')
                /\ SameAccounts(server, server')
             \/ /\ i # NULL
                /\ \E x \in Heap : /\ SameCore(server, x) /\ SameAccounts(server, x)
                                   /\ server' = setResponseOutputComplete(x, i)
<1> DEFINE k == Drained(server.conn[c])
           f == [server EXCEPT !.conn[c] = k]
           i == InterceptOf(c)
           buf == server.conn[c].readBuf
<1>1. /\ server \in Heap /\ server.conn[c] \in Connection
      /\ i # NULL => i \in Intercepts /\ i \in MappedIntercepts(server)
  BY InterceptOfType
<1>2. /\ k \in Connection /\ k.requestId = server.conn[c].requestId
      /\ k.readBuf = buf
  <2>1. k \in Connection /\ k.requestId = server.conn[c].requestId
    BY <1>1, ConnectionSetters, ConnectionFrame
  <2>2. k.readBuf = buf
    BY <1>1 DEF Drained, Connection
  <2> QED BY <2>1, <2>2
<1>3. /\ input' = input
      /\ \/ server' = f
         \/ /\ i # NULL
            /\ \E cut \in 1 .. Len(buf) :
                 LET t == interceptTransferData(f, c, i, cut)
                 IN  server' =
                       IF t.responseStatus
                       THEN setResponseOutputComplete(
                              [t.heap EXCEPT !.conn[c] = setState(@, "COMPLETE")], i)
                       ELSE t.heap
  BY DEF ReadReady
<1> HIDE DEF k, i
<1>4. /\ Inv(f, input) /\ f \in Heap /\ SameCore(server, f)
      /\ SameAccounts(server, f)
  <2>1. Inv(f, input) /\ f \in Heap /\ SameCore(server, f)
    BY <1>2, KeptOneConn
  <2>2. f.icept = server.icept
    BY <1>1 DEF Heap
  <2> HIDE DEF f
  <2> QED BY <2>1, <2>2, AccountsFrame
<1>5. f.conn[c].readBuf = buf
  BY <1>1, <1>2 DEF Heap
<1> HIDE DEF f
<1> DEFINE Goal == \/ /\ server' \in Heap /\ SameCore(server, server')
                      /\ SameAccounts(server, server')
                   \/ /\ i # NULL
                      /\ \E x \in Heap : /\ SameCore(server, x)
                                         /\ SameAccounts(server, x)
                                         /\ server' = setResponseOutputComplete(x, i)
<1>6. CASE server' = f
  BY <1>4, <1>6
<1>7. ASSUME i # NULL, NEW cut \in 1 .. Len(buf),
             LET t == interceptTransferData(f, c, i, cut)
             IN  server' =
                   IF t.responseStatus
                   THEN setResponseOutputComplete(
                          [t.heap EXCEPT !.conn[c] = setState(@, "COMPLETE")], i)
                   ELSE t.heap
      PROVE  Goal
  <2> DEFINE t == interceptTransferData(f, c, i, cut)
             g == t.heap
             x == [g EXCEPT !.conn[c] = setState(@, "COMPLETE")]
  <2>1. server' = g \/ server' = setResponseOutputComplete(x, i)
    BY <1>7
  <2>2. i \in Intercepts /\ i \in MappedIntercepts(f)
    BY <1>1, <1>4, <1>7, Frame
  <2>3. g \in Heap /\ SameCore(f, g) /\ SameAccounts(f, g)
    BY <1>4, <1>5, <2>2, TransferData
  <2>4. SameCore(server, g) /\ SameAccounts(server, g)
    BY <1>4, <2>3, SameCoreTransitive, AccountsTransitive
  <2> HIDE DEF g
  <2> DEFINE y == setState(g.conn[c], "COMPLETE")
  <2>5. y \in Connection /\ y.requestId = g.conn[c].requestId
    <3>1. g.conn[c] \in Connection /\ "COMPLETE" \in State
      BY <2>3 DEF Heap, State
    <3> QED BY <3>1, ConnectionSetters, ConnectionFrame
  <2>6. x = [g EXCEPT !.conn[c] = y]
    OBVIOUS
  <2> HIDE DEF x, y
  <2>7. x \in Heap /\ SameCore(g, x) /\ SameAccounts(g, x)
    <3>1. x.icept = g.icept
      BY <2>3, <2>6 DEF Heap
    <3> QED BY <2>3, <2>5, <2>6, <3>1, SetConn, AccountsFrame
  <2>8. SameCore(server, x) /\ SameAccounts(server, x)
    BY <2>4, <2>7, SameCoreTransitive, AccountsTransitive
  <2> QED BY <1>7, <2>1, <2>3, <2>4, <2>7, <2>8
<1> QED BY <1>3, <1>6, <1>7 DEF i

\* TS_EVENT_VCONN_READ_READY.
LEMMA ReadReadyInv ==
  ASSUME Inv(server, input), NEW c \in Conns, ReadReady(c)
  PROVE  Inv(server', input')
<1> DEFINE i == InterceptOf(c)
<1>1. i # NULL => i \in Intercepts /\ i \in MappedIntercepts(server)
  BY InterceptOfType
<1>2. input' = input
  BY DEF ReadReady
<1>3. \/ server' \in Heap /\ SameCore(server, server')
      \/ /\ i # NULL
         /\ \E x \in Heap : /\ SameCore(server, x)
                            /\ server' = setResponseOutputComplete(x, i)
  BY ReadReadyFrame
<1> HIDE DEF i
<1>4. CASE server' \in Heap /\ SameCore(server, server')
  BY <1>2, <1>4, KeptCore
<1>5. ASSUME i # NULL, NEW x \in Heap, SameCore(server, x),
             server' = setResponseOutputComplete(x, i)
      PROVE  Inv(server', input')
  <2>1. Inv(x, input) /\ i \in MappedIntercepts(x)
    BY <1>1, <1>5, KeptCore, Frame
  <2> QED BY <1>1, <1>2, <1>5, <2>1, CoreComplete
<1> QED BY <1>3, <1>4, <1>5

\* TS_EVENT_VCONN_WRITE_READY.
LEMMA WriteReadyInv ==
  ASSUME Inv(server, input), NEW c \in Conns, WriteReady(c)
  PROVE  Inv(server', input')
<1> DEFINE k == Flushed(server.conn[c])
           f == [server EXCEPT !.conn[c] = k]
<1>1. server.conn[c] \in Connection
  BY InterceptOfType
<1>2. k \in Connection /\ k.requestId = server.conn[c].requestId
  BY <1>1, FlushedType, ConnectionFrame
<1>3. (server' = f \/ server' = read(f, c)) /\ input' = input
  BY DEF WriteReady
<1> HIDE DEF k
<1>4. Inv(f, input) /\ f \in Heap
  BY <1>2, KeptOneConn
<1> HIDE DEF f
<1>5. read(f, c) \in Heap /\ SameCore(f, read(f, c))
  BY <1>4, CreateConnection
<1>6. Inv(read(f, c), input)
  BY <1>4, <1>5, KeptCore
<1> QED BY <1>3, <1>4, <1>6, Zenon

\* The application's steps touch the buffers and jobs of a connection only.
LEMMA AppInv ==
  ASSUME Inv(server, input), NEW c \in Conns, NEW j \in server.conn[c].jobs,
         AppStdout(c, j) \/ AppStderr(c, j) \/ AppEnd(c, j)
  PROVE  Inv(server', input')
<1>1. server.conn[c] \in Connection
  BY InterceptOfType
<1>2. j \in Job
  BY <1>1 DEF Connection
<1>3. PICK type \in {"STDOUT", "STDERR", "END"}, n \in Nat, left \in SUBSET Job :
        Answer(c, j, type, n, left)
  <2>1. j.sent \in Nat /\ j.sent + 1 \in Nat
    BY <1>2 DEF Job
  <2>2. {[j EXCEPT !.sent = @ + 1]} \in SUBSET Job /\ {} \in SUBSET Job
    BY <1>2, <2>1 DEF Job
  <2>3. \/ Answer(c, j, "STDOUT", j.sent + 1, {[j EXCEPT !.sent = @ + 1]})
        \/ Answer(c, j, "STDERR", j.sent + 1, {[j EXCEPT !.sent = @ + 1]})
        \/ Answer(c, j, "END", j.sent, {})
    BY DEF AppStdout, AppStderr, AppEnd, AppOutput
  <2> QED BY <2>1, <2>2, <2>3
<1> DEFINE record == [type |-> type, req |-> j.req, n |-> n]
           k == Answered(server.conn[c], j, record, left)
           f == [server EXCEPT !.conn[c] = k]
<1>4. server' = f /\ input' = input
  BY <1>3 DEF Answer
<1>5. record \in ResponseRecord
  BY <1>2 DEF ResponseRecord, Job
<1> HIDE DEF record
<1>6. k \in Connection /\ k.requestId = server.conn[c].requestId
  BY <1>1, <1>2, <1>5, AnsweredType, ConnectionFrame
<1> HIDE DEF k
<1>7. Inv(f, input)
  BY <1>6, KeptOneConn
<1> QED BY <1>4, <1>7, Zenon

-----------------------------------------------------------------------------
(***************************************************************************)
(* The theorems.                                                           *)
(***************************************************************************)

\* One step, by event.
LEMMA NextInv == Inv(server, input) /\ [Next]_vars => Inv(server', input')
<1> SUFFICES ASSUME Inv(server, input), [Next]_vars PROVE Inv(server', input')
  OBVIOUS
<1>1. CASE UNCHANGED vars
  BY <1>1, Zenon DEF vars
<1>2. ASSUME NEW i \in Intercepts, CacheLookupComplete(i)
      PROVE  Inv(server', input')
  BY <1>2, CacheLookupCompleteInv
<1>3. ASSUME NEW i \in Intercepts, StreamRequest(i) \/ StreamHeader(i) \/ StreamBody(i)
      PROVE  Inv(server', input')
  BY <1>3, StreamInv
<1>4. ASSUME NEW i \in Intercepts, TxnClose(i) PROVE Inv(server', input')
  BY <1>4, TxnCloseInv
<1>5. ASSUME NEW c \in Conns, NetConnect(c) PROVE Inv(server', input')
  BY <1>5, NetConnectInv
<1>6. ASSUME NEW c \in Conns, NetConnectFailed(c) PROVE Inv(server', input')
  BY <1>6, NetConnectFailedInv
<1>7. ASSUME NEW c \in Conns, ReadReady(c) PROVE Inv(server', input')
  BY <1>7, ReadReadyInv
<1>8. ASSUME NEW c \in Conns, WriteReady(c) PROVE Inv(server', input')
  BY <1>8, WriteReadyInv
<1>9. ASSUME NEW c \in Conns, Eos(c) \/ Error(c) PROVE Inv(server', input')
  BY <1>9, EosInv
<1>10. ASSUME NEW c \in Conns, NEW j \in server.conn[c].jobs,
              AppStdout(c, j) \/ AppStderr(c, j) \/ AppEnd(c, j)
       PROVE  Inv(server', input')
  BY <1>10, AppInv
<1> QED BY <1>1, <1>2, <1>3, <1>4, <1>5, <1>6, <1>7, <1>8, <1>9, <1>10, Zenon DEF Next

\* Whatever order the events of connections, the application and the clients
\* come in, after every handler types, pool, map and queue are consistent
\* together.
THEOREM Invariance == Spec => []IInv
<1>1. Init => IInv
  BY InitInv, InvParts
<1>2. IInv /\ [Next]_vars => IInv'
  BY NextInv, InvParts, InvPartsNext
<1> QED BY <1>1, <1>2, PTL DEF Spec

\* Every handler of the plugin leaves objects and lists of the right types:
\* no id is negative and no list holds anything but requests or connections.
THEOREM TypeCorrect == Spec => []TypeOK
<1>1. IInv => TypeOK
  BY DEF IInv
<1> QED BY <1>1, Invariance, PTL

\* ConnectionPool: for every max_connections, max_requests, queue size and
\* combination of failures, a connection is idle once or serves exactly one
\* request, and there are never more than max_connections / 6 of them.
THEOREM PoolCorrect == Spec => []PoolConsistent
<1>1. IInv => PoolConsistent
  BY DEF IInv
<1> QED BY <1>1, Invariance, PTL

\* Server::_intercept_list: for every such choice, an event of a connection
\* finds the one request the connection serves, alive, or none, however often
\* requests were retried, aborted or moved to other connections before.
THEOREM MapCorrect == Spec => []MapConsistent
<1>1. IInv => MapConsistent
  BY DEF IInv
<1> QED BY <1>1, Invariance, PTL

\* RequestQueue: for every such choice, a request waits once, does not wait
\* while it is served, and is done with both when its response is complete.
THEOREM QueueCorrect == Spec => []QueueConsistent
<1>1. IInv => QueueConsistent
  BY DEF IInv
<1> QED BY <1>1, Invariance, PTL

-----------------------------------------------------------------------------
(***************************************************************************)
(* What connect, connectionClosed and reuseConnection do to the objects.   *)
(***************************************************************************)

\* The object of a connection that is dialled for the request with id r.
Dialling(r) == [NewConnection EXCEPT !.requestId = r, !.dialing = TRUE]

\* The object of idle connection k that serves request i under id r.
Resumed(k, r, i) == InUse(setRequestId(setState(k, "READY"), r), i)

\* h and g have the same lists of connections.
SamePool(h, g) == g.connections = h.connections /\ g.available = h.available

\* Nothing crashes and no connection is counted.
SameCounts(h, g) == g.crashed = h.crashed /\ g.phpConnCount = h.phpConnCount

\* The entry that binds request i to connection c.
Bound(h, g, i, c) ==
  g.intercept_list = h.intercept_list \cup
                       {[id |-> h.nextId, intercept |-> i, conn |-> c]}

\* connect finds no connection: the request may go to the queue.
Queues(h, g, i) ==
  /\ g.conn = h.conn /\ g.icept = h.icept
  /\ SamePool(h, g) /\ SameCounts(h, g)
  /\ g.intercept_list = h.intercept_list
  /\ g.pending \in {h.pending, Append(h.pending, i)}

\* connect makes a connection and dials.
Dials(h, g, i, c) ==
  /\ c \in Conns \ h.connections
  /\ g.conn = [h.conn EXCEPT ![c] = Dialling(h.nextId)]
  /\ g.icept = [h.icept EXCEPT ![i] = setRequestId(@, h.nextId)]
  /\ g.connections = h.connections \cup {c} /\ g.available = h.available
  /\ SameCounts(h, g) /\ g.pending = h.pending
  /\ Bound(h, g, i, c)

\* connect takes the connection that is idle for the longest time.
Takes(h, g, i, c) ==
  /\ h.available # <<>> /\ c = Head(h.available)
  /\ g.conn = [h.conn EXCEPT ![c] = Resumed(@, h.nextId, i)]
  /\ g.icept = [h.icept EXCEPT ![i] = Attached(setRequestId(@, h.nextId))]
  /\ g.connections = h.connections /\ g.available = Tail(h.available)
  /\ SameCounts(h, g) /\ g.pending = h.pending
  /\ Bound(h, g, i, c)

\* Ids in the map are used up.
LEMMA FreshId ==
  ASSUME NEW h, NEW D, Core(h, D)
  PROVE  {e \in h.intercept_list : e.id # h.nextId} = h.intercept_list
<1>1. \A e \in h.intercept_list : e.id \in 1 .. h.nextId - 1 /\ h.nextId \in Nat
  BY DEF Core, MapInv, Heap
<1> QED BY <1>1

\* connect, in its three cases.
LEMMA ConnectEffect ==
  ASSUME NEW h, NEW D, NEW i \in Intercepts, Core(h, D)
  PROVE  LET g == connect(h, i)
         IN  \/ Queues(h, g, i)
             \/ \E c \in Conns : Dials(h, g, i, c) \/ Takes(h, g, i, c)
<1> DEFINE g == connect(h, i)
           r == h.nextId
<1>1. /\ h \in Heap /\ h.connections \subseteq Conns /\ h.available \in Seq(Conns)
      /\ NULL \notin Conns
  BY NullAssumption DEF Core, Heap
<1>2. {e \in h.intercept_list : e.id # r} = h.intercept_list
  BY FreshId
<1>3. CASE Cardinality(h.connections) < maxConn
  <2> DEFINE c == CHOOSE x \in Conns : x \notin h.connections
             a == addConnection([h EXCEPT !.conn[c] = NewConnection], c)
  <2>1. h.connections # Conns
    BY <1>3, MaxConnType, FS_CardinalityType, PoolAssumption
  <2>2. c \in Conns /\ c \notin h.connections
    BY <1>1, <2>1
  <2>3. g = initiateBackendConnection(a, i, c)
    BY <1>1, <1>3, <2>2 DEF connect, getAvailableConnection
  <2> HIDE DEF c, g
  <2>4. /\ a \in Heap
        /\ a.conn = [h.conn EXCEPT ![c] = NewConnection] /\ a.conn[c] = NewConnection
        /\ a.connections = h.connections \cup {c} /\ a.available = h.available
        /\ a.icept = h.icept /\ a.pending = h.pending
        /\ a.intercept_list = h.intercept_list /\ a.nextId = r
        /\ a.crashed = h.crashed /\ a.phpConnCount = h.phpConnCount
    BY <1>1, <2>2, EmptyConnections DEF addConnection, Heap
  <2> HIDE DEF a
  <2> DEFINE e == [id |-> a.nextId, intercept |-> i, conn |-> c]
             b == [a EXCEPT !.nextId         = @ + 1,
                            !.icept[i]       = setRequestId(@, a.nextId),
                            !.conn[c]        = setRequestId(@, a.nextId),
                            !.intercept_list = {x \in @ : x.id # a.nextId} \cup {e}]
  <2>5. g = IF b.conn[c].state # "READY" THEN createConnection(b, c)
            ELSE createFCGIClient(b, c, i)
    BY <2>3 DEF initiateBackendConnection
  <2>6. /\ b.conn = [a.conn EXCEPT ![c] = setRequestId(@, r)]
        /\ b.icept = [h.icept EXCEPT ![i] = setRequestId(@, r)]
        /\ b.connections = h.connections \cup {c} /\ b.available = h.available
        /\ b.pending = h.pending
        /\ b.intercept_list = h.intercept_list \cup {e}
        /\ b.crashed = h.crashed /\ b.phpConnCount = h.phpConnCount
        /\ b.conn[c] = setRequestId(NewConnection, r)
        /\ DOMAIN b = DOMAIN a
    BY <1>2, <2>2, <2>4 DEF Heap
  <2> HIDE DEF b
  <2>7. b.conn[c].state = "INITIATED"
    BY <2>6 DEF setRequestId, NewConnection, NoConnection
  <2>8. g = [b EXCEPT !.conn[c].dialing = TRUE]
    BY <2>5, <2>7 DEF createConnection
  <2>9. /\ g.conn = [b.conn EXCEPT ![c].dialing = TRUE]
        /\ g.icept = b.icept /\ g.pending = b.pending
        /\ g.connections = b.connections /\ g.available = b.available
        /\ g.intercept_list = b.intercept_list
        /\ g.crashed = b.crashed /\ g.phpConnCount = b.phpConnCount
    BY <2>4, <2>6, <2>8 DEF Heap
  <2>10. g.conn = [h.conn EXCEPT ![c] = Dialling(r)]
    <3>1. [setRequestId(NewConnection, r) EXCEPT !.dialing = TRUE] = Dialling(r)
      BY DEF setRequestId, Dialling, NewConnection, NoConnection
    <3> DEFINE l == [setRequestId(NewConnection, r) EXCEPT !.dialing = TRUE]
    <3>2. g.conn = [b.conn EXCEPT ![c] = l]
      BY <2>6, <2>9
    <3> HIDE DEF l
    <3>3. g.conn = [h.conn EXCEPT ![c] = l]
      BY <1>1, <2>2, <2>4, <2>6, <3>2 DEF Heap
    <3> QED BY <3>1, <3>3 DEF l
  <2>11. Dials(h, g, i, c)
    BY <2>2, <2>4, <2>6, <2>9, <2>10 DEF Dials, SameCounts, Bound
  <2> QED BY <2>2, <2>11 DEF g
<1>4. CASE ~(Cardinality(h.connections) < maxConn) /\ h.available # <<>>
  <2> DEFINE c == Head(h.available)
             a == [h EXCEPT !.available = Tail(@), !.conn[c] = setState(@, "READY")]
  <2>1. c \in Conns
    BY <1>1, <1>4
  <2>2. g = initiateBackendConnection(a, i, c)
    BY <1>1, <1>4, <2>1 DEF connect, getAvailableConnection
  <2> HIDE DEF c, g
  <2>3. /\ a.conn = [h.conn EXCEPT ![c] = setState(@, "READY")]
        /\ a.connections = h.connections /\ a.available = Tail(h.available)
        /\ a.icept = h.icept /\ a.pending = h.pending
        /\ a.intercept_list = h.intercept_list /\ a.nextId = r
        /\ a.crashed = h.crashed /\ a.phpConnCount = h.phpConnCount
        /\ DOMAIN a = DOMAIN h
    BY <1>1, <2>1 DEF Heap
  <2> HIDE DEF a
  <2> DEFINE e == [id |-> a.nextId, intercept |-> i, conn |-> c]
             b == [a EXCEPT !.nextId         = @ + 1,
                            !.icept[i]       = setRequestId(@, a.nextId),
                            !.conn[c]        = setRequestId(@, a.nextId),
                            !.intercept_list = {x \in @ : x.id # a.nextId} \cup {e}]
             k == setRequestId(setState(h.conn[c], "READY"), r)
  <2>4. g = IF b.conn[c].state # "READY" THEN createConnection(b, c)
            ELSE createFCGIClient(b, c, i)
    BY <2>2 DEF initiateBackendConnection
  <2>5. /\ b.conn = [h.conn EXCEPT ![c] = k]
        /\ b.icept = [h.icept EXCEPT ![i] = setRequestId(@, r)]
        /\ b.connections = h.connections /\ b.available = Tail(h.available)
        /\ b.pending = h.pending
        /\ b.intercept_list = h.intercept_list \cup {e}
        /\ b.crashed = h.crashed /\ b.phpConnCount = h.phpConnCount
        /\ b.conn[c] = k
        /\ DOMAIN b = DOMAIN a
    BY <1>1, <1>2, <2>1, <2>3 DEF Heap
  <2> HIDE DEF b
  <2>6. h.conn[c] \in Connection
    BY <1>1, <2>1 DEF Heap
  <2>7. k.state = "READY"
    BY <2>6 DEF setRequestId, setState, Connection
  <2> HIDE DEF k
  <2>8. g = [b EXCEPT !.icept[i] = Attached(@), !.conn[c] = InUse(@, i)]
    BY <2>4, <2>5, <2>7 DEF createFCGIClient
  <2>9. /\ g.conn = [b.conn EXCEPT ![c] = InUse(@, i)]
        /\ g.icept = [b.icept EXCEPT ![i] = Attached(@)]
        /\ g.pending = b.pending
        /\ g.connections = b.connections /\ g.available = b.available
        /\ g.intercept_list = b.intercept_list
        /\ g.crashed = b.crashed /\ g.phpConnCount = b.phpConnCount
    BY <1>1, <2>1, <2>3, <2>5, <2>8 DEF Heap
  <2>10. g.conn = [h.conn EXCEPT ![c] = Resumed(@, r, i)]
    BY <1>1, <2>1, <2>5, <2>9 DEF Heap, Resumed, k
  <2>11. g.icept = [h.icept EXCEPT ![i] = Attached(setRequestId(@, r))]
    BY <1>1, <2>5, <2>9 DEF Heap
  <2>12. Takes(h, g, i, c)
    BY <1>4, <2>3, <2>5, <2>9, <2>10, <2>11 DEF Takes, SameCounts, Bound, c
  <2> QED BY <2>1, <2>12 DEF g
<1>5. CASE ~(Cardinality(h.connections) < maxConn) /\ h.available = <<>>
  <2>1. g = addToQueue(h, i)
    BY <1>5 DEF connect, getAvailableConnection
  <2>2. Queues(h, g, i)
    BY <1>1, <2>1 DEF addToQueue, Queues, SamePool, SameCounts, Heap
  <2> QED BY <2>2
<1> QED BY <1>3, <1>4, <1>5

\* connectionClosed deletes connection c and counts it out.
Closes(h, g, c) ==
  /\ g.conn = [h.conn EXCEPT ![c] = NoConnection]
  /\ g.icept = h.icept /\ g.pending = h.pending
  /\ g.connections = h.connections \ {c}
  /\ g.available = ListRemove(h.available, c)
  /\ g.crashed = (h.crashed \/ h.conn[c].dialing)
  /\ g.phpConnCount = h.phpConnCount - 1
  /\ g.intercept_list = {e \in h.intercept_list : e.id # h.conn[c].requestId}

LEMMA ClosedEffect ==
  ASSUME NEW h \in Heap, NEW c \in Conns
  PROVE  Closes(h, connectionClosed(h, c), c)
<1> DEFINE r == h.conn[c].requestId
           f == erase(h, r)
           p == poolConnectionClosed(f, c)
<1>1. connectionClosed(h, c) = [p EXCEPT !.phpConnCount = @ - 1]
  BY DEF connectionClosed
<1>2. /\ f.conn = h.conn /\ f.icept = h.icept /\ f.pending = h.pending
      /\ f.connections = h.connections /\ f.available = h.available
      /\ f.crashed = h.crashed /\ f.phpConnCount = h.phpConnCount
      /\ f.intercept_list = {e \in h.intercept_list : e.id # r}
      /\ DOMAIN f = DOMAIN h
  BY DEF erase, Heap
<1> HIDE DEF f
<1>3. /\ p.conn = [h.conn EXCEPT ![c] = NoConnection]
      /\ p.icept = f.icept /\ p.pending = f.pending
      /\ p.connections = h.connections \ {c}
      /\ p.available = ListRemove(h.available, c)
      /\ p.crashed = (h.crashed \/ h.conn[c].dialing)
      /\ p.phpConnCount = f.phpConnCount
      /\ p.intercept_list = f.intercept_list
      /\ DOMAIN p = DOMAIN f
  BY <1>2 DEF poolConnectionClosed, Heap
<1> HIDE DEF p, r
<1> QED BY <1>1, <1>2, <1>3 DEF Closes, Heap, r

\* h and g differ in connection c, which has become k.
Changes(h, g, c, k) ==
  /\ g.conn = [h.conn EXCEPT ![c] = k]
  /\ SamePool(h, g) /\ SameCounts(h, g)

-----------------------------------------------------------------------------
(***************************************************************************)
(* The life of a connection.                                               *)
(***************************************************************************)

\* The connections that are established.
Up(h) == {c \in Conns : h.conn[c].vc}

\* Without a handle nothing is open.
Closed(k) == ~k.writeOpen /\ ~k.readOpen /\ ~k.armed

\* A connection carries nothing over from its last request.
Clean(k) == k.state = "READY" /\ k.requestId = 0 /\ ~k.readEnable

\* Each connection of the pool is established or being dialled, except those
\* in N, which were refused just now; n counts these in the statistic.
Life(h, N, n) ==
  /\ N \subseteq h.connections
  /\ \A c \in Conns \ h.connections : h.conn[c] = NoConnection
  /\ \A c \in h.connections : h.conn[c].vc <=> ~h.conn[c].dialing /\ c \notin N
  /\ \A c \in Conns : ~h.conn[c].vc => Closed(h.conn[c])
  /\ \A c \in Idle(h) : Clean(h.conn[c])
  /\ ~h.crashed => h.phpConnCount = Cardinality(Up(h)) + n

\* Connections and lists as before; it may have crashed.
LEMMA LifeFrame ==
  ASSUME NEW h, NEW g, NEW N, NEW n, Life(h, N, n), g.conn = h.conn, SamePool(h, g),
         g.crashed \/ SameCounts(h, g)
  PROVE  Life(g, N, n)
BY DEF Life, SamePool, SameCounts, Idle, Up

\* A connection changes without being established or lost.
LEMMA LifeConn ==
  ASSUME NEW h \in Heap, NEW g, NEW N, NEW n, Life(h, N, n),
         NEW c \in h.connections, NEW k, Changes(h, g, c, k),
         k.vc = h.conn[c].vc, k.dialing = h.conn[c].dialing,
         ~k.vc => Closed(k),
         c \in Idle(h) => Clean(k)
  PROVE  Life(g, N, n)
<1>1. c \in Conns
  BY DEF Heap
<1>2. /\ \A d \in Conns : g.conn[d] = IF d = c THEN k ELSE h.conn[d]
      /\ g.connections = h.connections /\ g.available = h.available
      /\ g.crashed = h.crashed /\ g.phpConnCount = h.phpConnCount
  BY DEF Changes, SamePool, SameCounts, Heap
<1>3. Up(g) = Up(h) /\ Idle(g) = Idle(h)
  BY <1>2 DEF Up, Idle
<1>4. Idle(h) \subseteq Conns
  BY DEF Idle, Elements, Heap
<1>5. h.connections \subseteq Conns
  BY DEF Heap
<1>6. \A d \in g.connections : g.conn[d].vc <=> ~g.conn[d].dialing /\ d \notin N
  BY <1>2, <1>5 DEF Life
<1>7. \A d \in Idle(g) : Clean(g.conn[d])
  BY <1>2, <1>3, <1>4 DEF Life
<1> QED BY <1>1, <1>2, <1>3, <1>6, <1>7 DEF Life

\* The objects of new, resumed and closed connections.
LEMMA LifeObjects ==
  /\ ~NoConnection.vc /\ ~NoConnection.dialing /\ Closed(NoConnection)
  /\ \A r : ~Dialling(r).vc /\ Dialling(r).dialing /\ Closed(Dialling(r))
  /\ \A k \in Connection : \A r, i :
       LET m == Resumed(k, r, i)
       IN  m.vc = k.vc /\ m.dialing = k.dialing /\ (Closed(k) <=> Closed(m))
BY DEF NoConnection, NewConnection, Dialling, Resumed, InUse, setState,
       setRequestId, Closed, Connection

\* A request is connected: the connection is dialled or was idle.
LEMMA LifeConnect ==
  ASSUME NEW h, NEW D, NEW i \in Intercepts, Core(h, D),
         NEW N, NEW n, Life(h, N, n)
  PROVE  Life(connect(h, i), N, n)
<1> DEFINE g == connect(h, i)
<1>1. /\ h \in Heap /\ h.connections \subseteq Conns /\ Idle(h) \subseteq h.connections
      /\ h.available \in Seq(Conns) /\ Injective(h.available)
  BY DEF Core, Heap, PoolInv
<1>2. \/ Queues(h, g, i)
      \/ \E c \in Conns : Dials(h, g, i, c) \/ Takes(h, g, i, c)
  BY ConnectEffect
<1> HIDE DEF g
<1>3. CASE Queues(h, g, i)
  BY <1>3, LifeFrame DEF Queues, g
<1>4. ASSUME NEW c \in Conns, Dials(h, g, i, c) PROVE Life(g, N, n)
  <2> DEFINE k == Dialling(h.nextId)
  <2>1. ~k.vc /\ k.dialing /\ Closed(k)
    BY LifeObjects
  <2> HIDE DEF k
  <2>2. /\ c \in Conns /\ c \notin h.connections /\ c \notin N
        /\ \A d \in Conns : g.conn[d] = IF d = c THEN k ELSE h.conn[d]
        /\ g.connections = h.connections \cup {c} /\ g.available = h.available
        /\ g.crashed = h.crashed /\ g.phpConnCount = h.phpConnCount
    BY <1>1, <1>4 DEF Dials, SameCounts, Heap, Life, k
  <2>3. ~h.conn[c].vc
    BY <2>2, LifeObjects DEF Life
  <2>4. Up(g) = Up(h) /\ Idle(g) = Idle(h)
    BY <2>1, <2>2, <2>3 DEF Up, Idle
  <2>5. \A d \in g.connections : g.conn[d].vc <=> ~g.conn[d].dialing /\ d \notin N
    BY <1>1, <2>1, <2>2 DEF Life
  <2>6. \A d \in Idle(g) : Clean(g.conn[d])
    BY <1>1, <2>2, <2>4 DEF Life
  <2> QED BY <2>1, <2>2, <2>4, <2>5, <2>6 DEF Life
<1>5. ASSUME NEW c \in Conns, Takes(h, g, i, c) PROVE Life(g, N, n)
  <2> DEFINE k == Resumed(h.conn[c], h.nextId, i)
  <2>1. c \in Idle(h) /\ Idle(g) = Idle(h) \ {c}
    BY <1>1, <1>5, ListTail DEF Takes, Idle
  <2>2. /\ k.vc = h.conn[c].vc /\ k.dialing = h.conn[c].dialing
        /\ Closed(k) <=> Closed(h.conn[c])
    BY <1>1, LifeObjects DEF Heap
  <2> HIDE DEF k
  <2>3. /\ \A d \in Conns : g.conn[d] = IF d = c THEN k ELSE h.conn[d]
        /\ g.connections = h.connections
        /\ g.crashed = h.crashed /\ g.phpConnCount = h.phpConnCount
    BY <1>1, <1>5 DEF Takes, SameCounts, Heap, k
  <2>4. Up(g) = Up(h)
    BY <2>2, <2>3 DEF Up
  <2>5. \A d \in g.connections : g.conn[d].vc <=> ~g.conn[d].dialing /\ d \notin N
    BY <1>1, <2>2, <2>3 DEF Life
  <2>6. \A d \in Idle(g) : Clean(g.conn[d])
    BY <1>1, <2>1, <2>3 DEF Life
  <2>7. \A d \in Conns \ g.connections : g.conn[d] = NoConnection
    BY <1>1, <2>1, <2>3 DEF Life
  <2> QED BY <2>2, <2>3, <2>4, <2>5, <2>6, <2>7 DEF Life
<1> QED BY <1>2, <1>3, <1>4, <1>5 DEF g

\* A connection that was established, or that was refused and counted, is
\* deleted and counted out. If it was being dialled, that is a crash.
LEMMA LifeClosed ==
  ASSUME NEW h \in Heap, Injective(h.available), NEW N, NEW n, Life(h, N, n),
         NEW c \in h.connections, (N = {} /\ n = 0) \/ (N = {c} /\ n = 1)
  PROVE  Life(connectionClosed(h, c), {}, 0)
<1> DEFINE g == connectionClosed(h, c)
<1>1. c \in Conns /\ h.connections \subseteq Conns /\ h.phpConnCount \in Int
  BY DEF Heap
<1>2. Closes(h, g, c)
  BY <1>1, ClosedEffect
<1> HIDE DEF g
<1>3. /\ \A d \in Conns : g.conn[d] = IF d = c THEN NoConnection ELSE h.conn[d]
      /\ g.connections = h.connections \ {c}
      /\ g.crashed = (h.crashed \/ h.conn[c].dialing)
      /\ g.phpConnCount = h.phpConnCount - 1
  BY <1>1, <1>2 DEF Closes, Heap
<1>4. Idle(g) = Idle(h) \ {c} /\ Idle(h) \subseteq Conns
  <2>1. h.available \in Seq(Conns)
    BY DEF Heap
  <2>2. Elements(ListRemove(h.available, c)) = Elements(h.available) \ {c}
    BY <2>1, ListRemoval
  <2>3. Elements(h.available) \subseteq Conns
    BY <2>1 DEF Elements
  <2>4. g.available = ListRemove(h.available, c)
    BY <1>2 DEF Closes
  <2> QED BY <2>2, <2>3, <2>4 DEF Idle
<1>5. Up(g) = Up(h) \ {c}
  BY <1>3, LifeObjects DEF Up
<1>6. /\ IsFiniteSet(Up(h)) /\ Cardinality(Up(h)) \in Nat
      /\ Cardinality(Up(g)) = IF c \in Up(h) THEN Cardinality(Up(h)) - 1
                              ELSE Cardinality(Up(h))
  <2>1. Up(h) \in SUBSET Conns
    BY DEF Up
  <2>2. IsFiniteSet(Up(h))
    BY <2>1, PoolAssumption, FS_Subset
  <2> QED BY <1>5, <2>2, FS_CardinalityType, FS_RemoveElement
<1>7. ~g.crashed => g.phpConnCount = Cardinality(Up(g)) + 0
  <2>0. Cardinality(Up(g)) \in Nat
    <3>1. c \in Up(h) => Cardinality(Up(h)) # 0
      BY <1>6, FS_EmptySet
    <3> QED BY <1>6, <3>1
  <2>1. SUFFICES ASSUME ~g.crashed PROVE g.phpConnCount = Cardinality(Up(g))
    BY <2>0
  <2>2. ~h.crashed /\ ~h.conn[c].dialing
    BY <1>3, <2>1
  <2>3. h.phpConnCount = Cardinality(Up(h)) + n
    BY <2>2 DEF Life
  <2>4. CASE N = {} /\ n = 0
    <3>1. c \in Up(h)
      BY <1>1, <2>2, <2>4 DEF Life, Up
    <3> QED BY <1>3, <1>6, <2>3, <2>4, <3>1
  <2>5. CASE N = {c} /\ n = 1
    <3>1. c \notin Up(h)
      BY <1>1, <2>5 DEF Life, Up
    <3> QED BY <1>3, <1>6, <2>3, <2>5, <3>1
  <2> QED BY <2>4, <2>5
<1>8. \A d \in g.connections : g.conn[d].vc <=> ~g.conn[d].dialing /\ d \notin {}
  BY <1>1, <1>3 DEF Life
<1>9. \A d \in Conns \ g.connections : g.conn[d] = NoConnection
  BY <1>3 DEF Life
<1>10. \A d \in Conns : ~g.conn[d].vc => Closed(g.conn[d])
  BY <1>3, LifeObjects DEF Life
<1>11. \A d \in Idle(g) : Clean(g.conn[d])
  BY <1>3, <1>4 DEF Life
<1> QED BY <1>7, <1>8, <1>9, <1>10, <1>11 DEF Life, g

\* A connection without a request id becomes idle.
LEMMA LifeReuse ==
  ASSUME NEW h, NEW c \in Conns, Core(h, {c}), Life(h, {}, 0),
         h.conn[c].requestId = 0
  PROVE  Life(reuseConnection(h, c), {}, 0)
<1> DEFINE g == reuseConnection(h, c)
           k == Reusable(h.conn[c])
<1>1. /\ h \in Heap /\ h.connections \subseteq Conns /\ h.conn[c] \in Connection
      /\ c \in h.connections /\ Idle(h) \subseteq h.connections
  BY DEF Core, Heap, PoolInv
<1>2. /\ k.vc = h.conn[c].vc /\ k.dialing = h.conn[c].dialing /\ Clean(k)
      /\ Closed(k) <=> Closed(h.conn[c])
  BY <1>1 DEF Reusable, Connection, Clean, Closed
<1>3. Elements(Append(h.available, c)) = Idle(h) \cup {c}
  BY ListAppend DEF Core, PoolInv, Heap, Idle
<1>4. g = [h EXCEPT !.conn[c] = k, !.available = Append(@, c)]
  BY DEF reuseConnection
<1> HIDE DEF k, g
<1>5. /\ \A d \in Conns : g.conn[d] = IF d = c THEN k ELSE h.conn[d]
      /\ g.connections = h.connections /\ Idle(g) = Idle(h) \cup {c}
      /\ g.crashed = h.crashed /\ g.phpConnCount = h.phpConnCount
  BY <1>1, <1>3, <1>4 DEF Heap, Idle
<1>6. Up(g) = Up(h)
  BY <1>2, <1>5 DEF Up
<1>7. \A d \in g.connections : g.conn[d].vc <=> ~g.conn[d].dialing /\ d \notin {}
  BY <1>1, <1>2, <1>5 DEF Life
<1>8. \A d \in Idle(g) : Clean(g.conn[d])
  BY <1>1, <1>2, <1>5 DEF Life
<1> QED BY <1>1, <1>2, <1>5, <1>6, <1>7, <1>8 DEF Life, g

\* The head of the queue is served.
LEMMA LifeServeNext ==
  ASSUME NEW h, Core(h, {}), Life(h, {}, 0)
  PROVE  Life(serveNext(h), {}, 0)
<1> DEFINE i == Head(h.pending)
           f == popFromQueue(h)
<1>1. CASE h.pending = <<>>
  BY <1>1 DEF serveNext
<1>2. CASE h.pending # <<>>
  <2>1. /\ f.conn = h.conn /\ SamePool(h, f) /\ SameCounts(h, f)
    BY DEF popFromQueue, Core, Heap, SamePool, SameCounts
  <2>2. serveNext(h) = IF h.icept[i].alive THEN connect(f, i)
                       ELSE [f EXCEPT !.crashed = TRUE]
    BY <1>2 DEF serveNext
  <2>3. Core(f, {}) /\ i \in Intercepts
    BY <1>2, CorePop
  <2> HIDE DEF f, i
  <2>4. Life(f, {}, 0)
    BY <2>1, LifeFrame
  <2>5. CASE h.icept[i].alive
    BY <2>2, <2>3, <2>4, <2>5, LifeConnect
  <2>6. CASE ~h.icept[i].alive
    <3> DEFINE g == [f EXCEPT !.crashed = TRUE]
    <3>1. g.conn = f.conn /\ SamePool(f, g) /\ g.crashed
      BY <2>3 DEF Core, Heap, SamePool
    <3> HIDE DEF g
    <3>2. Life(g, {}, 0)
      BY <2>4, <3>1, LifeFrame
    <3> QED BY <2>2, <2>6, <3>2 DEF g
  <2> QED BY <2>5, <2>6
<1> QED BY <1>1, <1>2

\* The object of a connection that was taken from its request.
Freed(k) == setRequestId(IF k.state = "COMPLETE" THEN Released(k) ELSE k, 0)

\* The connection of a request that ends goes back to the pool or is deleted.
GivenBack(f, c) ==
  IF MaxRequests > f.conn[c].req_count THEN reuseConnection(f, c)
  ELSE connectionClosed(f, c)

\* Heap f, in which the connection of entry e of h is free, and what follows.
Frees(h, f, e) ==
  /\ Core(f, {e.conn})
  /\ Changes(h, f, e.conn, Freed(h.conn[e.conn]))
  /\ f.icept = h.icept /\ f.pending = h.pending
  /\ f.intercept_list = {x \in h.intercept_list : x.id # e.id}
  /\ Core(GivenBack(f, e.conn), {})
  /\ removeIntercept(h, e.id) = serveNext(GivenBack(f, e.conn))

\* removeIntercept takes the connection from the request, gives it back and
\* serves the next request.
LEMMA RemoveEffect ==
  ASSUME NEW h, Core(h, {}), NEW e \in h.intercept_list
  PROVE  /\ e.conn \in Conns /\ e.conn \in h.connections /\ e.conn \notin Idle(h)
         /\ \E f : Frees(h, f, e)
<1> DEFINE r  == e.id
           c  == e.conn
           h0 == erase(h, r)
           h1 == releaseFCGIClient(h0, c)
           h2 == [h1 EXCEPT !.conn[c] = setRequestId(@, 0)]
<1>1. h \in Heap /\ h.intercept_list \subseteq Entry
  BY DEF Core, Heap
<1>2. c \in Conns /\ c \in h.connections /\ c \notin Idle(h)
  BY <1>1 DEF Core, PoolInv, MappedConns, Entry
<1>3. Mapped(h, r) /\ getServerConnection(h, r) = c
  <2>1. Mapped(h, r)
    BY DEF Mapped
  <2>2. EntryOf(h, r) \in h.intercept_list /\ EntryOf(h, r).id = r
        /\ getServerConnection(h, r) = EntryOf(h, r).conn
    BY <1>1, <2>1, Lookup
  <2>3. \A x \in h.intercept_list : x.id = r => h.conn[c].requestId = x.id
    BY <1>2 DEF Core, MapInv
  <2>4. EntryOf(h, r).conn = c
    BY <1>2, <2>2, <2>3 DEF Core, MapInv
  <2> QED BY <2>1, <2>2, <2>4
<1>4. Core(h0, {c})
  <2>1. Core(erase(h, e.id), {} \cup {e.conn})
    BY CoreErase, Zenon
  <2>2. {} \cup {c} = {c}
    OBVIOUS
  <2> QED BY <2>1, <2>2
<1>5. /\ h0.conn = h.conn /\ h0.icept = h.icept /\ h0.pending = h.pending
      /\ SamePool(h, h0) /\ SameCounts(h, h0)
      /\ h0.intercept_list = {x \in h.intercept_list : x.id # r}
  BY <1>1 DEF erase, Heap, SamePool, SameCounts
<1> HIDE DEF c, h0, r
<1>6. h0 \in Heap
  BY <1>4 DEF Core
<1>7. Core(h1, {c})
  <2>1. h1 \in Heap /\ SameCore(h0, h1)
    BY <1>2, <1>6, ReleaseFCGIClient
  <2> HIDE DEF h1
  <2> QED BY <1>4, <2>1, CoreFrame
<1>8. Core(h2, {c})
  <2> HIDE DEF h1
  <2> QED BY <1>2, <1>7, CoreForget
<1> DEFINE k == IF h0.conn[c].state = "COMPLETE" THEN Released(h0.conn[c]) ELSE h0.conn[c]
<1>9. h1.conn = [h0.conn EXCEPT ![c] = k] /\ h1.icept = h0.icept
      /\ h1.pending = h0.pending /\ h1.intercept_list = h0.intercept_list
      /\ SamePool(h0, h1) /\ SameCounts(h0, h1)
  BY <1>2, <1>6 DEF releaseFCGIClient, Heap, SamePool, SameCounts
<1> HIDE DEF h1, k
<1>10. /\ h2.conn = [h0.conn EXCEPT ![c] = setRequestId(k, 0)]
       /\ h2.icept = h0.icept /\ h2.pending = h0.pending
       /\ h2.intercept_list = h0.intercept_list
       /\ SamePool(h0, h2) /\ SameCounts(h0, h2)
  BY <1>2, <1>6, <1>7, <1>9 DEF Core, Heap, SamePool, SameCounts
<1>11. removeIntercept(h, r) = serveNext(GivenBack(h2, c))
  BY <1>3 DEF removeIntercept, GivenBack, h0, h1
<1> HIDE DEF h2
<1>12. Core(GivenBack(h2, c), {})
  <2>1. {c} \in SUBSET {c}
    OBVIOUS
  <2> QED BY <1>2, <1>8, <2>1, CoreReuse, CoreClosed DEF GivenBack
<1>13. Changes(h, h2, c, Freed(h.conn[c]))
  BY <1>5, <1>10 DEF Changes, Freed, SamePool, SameCounts, k
<1>14. Frees(h, h2, e)
  BY <1>5, <1>8, <1>10, <1>11, <1>12, <1>13 DEF Frees, c, r
<1> QED BY <1>2, <1>14 DEF c

\* A request ends: its connection stays established or is closed, and the next
\* one is served.
LEMMA LifeRemove ==
  ASSUME NEW h, NEW r, Core(h, {}), Life(h, {}, 0)
  PROVE  Life(removeIntercept(h, r), {}, 0)
<1>1. CASE ~Mapped(h, r)
  BY <1>1 DEF removeIntercept
<1>2. CASE Mapped(h, r)
  <2>1. PICK e \in h.intercept_list : e.id = r
    BY <1>2 DEF Mapped
  <2>2. PICK f : Frees(h, f, e)
    BY RemoveEffect
  <2> DEFINE c == e.conn
             k == Freed(h.conn[c])
  <2>3. /\ c \in Conns /\ c \in h.connections /\ c \notin Idle(h)
        /\ Core(f, {c}) /\ Changes(h, f, c, k) /\ Core(GivenBack(f, c), {})
        /\ removeIntercept(h, r) = serveNext(GivenBack(f, c))
    BY <2>1, <2>2, RemoveEffect DEF Frees
  <2> HIDE DEF c, k
  <2>4. h \in Heap /\ f \in Heap /\ h.conn[c] \in Connection
    BY <2>3 DEF Core, Heap
  <2>5. /\ k.vc = h.conn[c].vc /\ k.dialing = h.conn[c].dialing
        /\ Closed(k) <=> Closed(h.conn[c])
        /\ k.requestId = 0
    BY <2>4 DEF Freed, setRequestId, Released, Closed, Connection, k
  <2>6. ~k.vc => Closed(k)
    BY <2>3, <2>5 DEF Life
  <2>7. Life(f, {}, 0)
    BY <2>3, <2>4, <2>5, <2>6, LifeConn
  <2>8. f.conn[c].requestId = 0
    BY <2>3, <2>4, <2>5 DEF Changes, Heap
  <2>9. Life(GivenBack(f, c), {}, 0)
    <3>1. c \in f.connections /\ Injective(f.available)
      BY <2>3 DEF Core, PoolInv
    <3>2. Life(reuseConnection(f, c), {}, 0)
      BY <2>3, <2>7, <2>8, LifeReuse
    <3>3. Life(connectionClosed(f, c), {}, 0)
      BY <2>4, <2>7, <3>1, LifeClosed
    <3> QED BY <3>2, <3>3 DEF GivenBack
  <2> QED BY <2>3, <2>9, LifeServeNext
<1> QED BY <1>1, <1>2

\* A request is taken from a connection and connected anew.
LEMMA LifeReConnect ==
  ASSUME NEW h, Core(h, {}), NEW c \in Conns, NEW N, NEW n, Life(h, N, n)
  PROVE  LET g == reConnect(h, h.conn[c].requestId)
         IN  Life(g, N, n) /\ h.connections \subseteq g.connections
<1> DEFINE r == h.conn[c].requestId
           f == erase(h, r)
           g == reConnect(h, r)
<1>1. h \in Heap
  BY DEF Core
<1>2. CASE ~Mapped(h, r)
  <2>1. g = h
    BY <1>1, <1>2, Lookup DEF reConnect
  <2> QED BY <2>1
<1>3. CASE Mapped(h, r)
  <2> DEFINE e == EntryOf(h, r)
             i == e.intercept
  <2>1. e \in h.intercept_list /\ e.id = r /\ g = connect(f, i)
    BY <1>1, <1>3, Lookup DEF reConnect
  <2> HIDE DEF e, g
  <2>2. Core(erase(h, e.id), {} \cup {e.conn}) /\ i \in Intercepts
    BY <2>1, CoreErase, Zenon
  <2> HIDE DEF i
  <2>3. Core(f, {} \cup {e.conn})
    BY <2>1, <2>2
  <2>4. f.conn = h.conn /\ SamePool(h, f) /\ SameCounts(h, f)
    BY <1>1 DEF erase, Heap, SamePool, SameCounts
  <2> HIDE DEF f, r
  <2>5. Life(f, N, n)
    BY <2>4, LifeFrame
  <2>6. Life(g, N, n)
    BY <2>1, <2>2, <2>3, <2>5, LifeConnect
  <2>7. \/ Queues(f, g, i)
        \/ \E d \in Conns : Dials(f, g, i, d) \/ Takes(f, g, i, d)
    BY <2>1, <2>2, <2>3, ConnectEffect
  <2>8. f.connections \subseteq g.connections
    BY <2>7 DEF Queues, Dials, Takes, SamePool
  <2> QED BY <2>4, <2>6, <2>8 DEF SamePool, g, r
<1> QED BY <1>2, <1>3

\* The connection of a retried request is closed.
LEMMA LifeRetry ==
  ASSUME NEW h, Core(h, {}), NEW c \in h.connections, NEW N, NEW n,
         Life(h, N, n), (N = {} /\ n = 0) \/ (N = {c} /\ n = 1)
  PROVE  Life(connectionClosed(reConnect(h, h.conn[c].requestId), c), {}, 0)
<1> DEFINE g == reConnect(h, h.conn[c].requestId)
<1>1. c \in Conns
  BY DEF Core, Heap
<1>2. Life(g, N, n) /\ c \in g.connections
  BY <1>1, LifeReConnect
<1>3. \E D \in SUBSET {c} : Core(g, D)
  BY <1>1, CoreReConnect
<1> HIDE DEF g
<1>4. g \in Heap /\ Injective(g.available)
  BY <1>3 DEF Core, PoolInv
<1>5. Life(connectionClosed(g, c), {}, 0)
  BY <1>2, <1>4, LifeClosed
<1> QED BY <1>5 DEF g

\* A handler that writes part of a request finds a connection that is up, or
\* crashes.
LEMMA LifeWrite ==
  ASSUME NEW h, Core(h, {}), Life(h, {}, 0), NEW r,
         NEW types, NEW endflag \in BOOLEAN
  PROVE  Life(writeRecords(h, r, types, endflag), {}, 0)
<1> DEFINE c == getServerConnection(h, r)
           g == [h EXCEPT !.crashed = TRUE]
           records == [k \in DOMAIN types |->
                         [type |-> types[k], req |-> h.conn[c].fcgi]]
           k == Written(h.conn[c], records, endflag)
           w == [h EXCEPT !.conn[c] = Written(@, records, endflag)]
<1>1. h \in Heap
  BY DEF Core
<1>2. Life(g, {}, 0)
  <2>1. g.conn = h.conn /\ SamePool(h, g) /\ g.crashed
    BY <1>1 DEF Heap, SamePool
  <2> HIDE DEF g
  <2> QED BY <2>1, LifeFrame
<1>3. c # NULL => c \in MappedConns(h)
  BY <1>1, Lookup DEF MappedConns
<1>4. c # NULL => c \in h.connections /\ c \notin Idle(h) /\ c \in Conns
  BY <1>1, <1>3 DEF Core, PoolInv, Heap
<1>5. \/ writeRecords(h, r, types, endflag) = h
      \/ writeRecords(h, r, types, endflag) = g
      \/ /\ c # NULL /\ h.conn[c].vc
         /\ writeRecords(h, r, types, endflag) = w
  BY DEF writeRecords, phpWrite
<1>6. ASSUME c # NULL, h.conn[c].vc PROVE Life(w, {}, 0)
  <2>1. h.conn[c] \in Connection
    BY <1>1, <1>4, <1>6 DEF Heap
  <2> HIDE DEF c, records
  <2>2. k.vc = h.conn[c].vc /\ k.dialing = h.conn[c].dialing
    BY <2>1 DEF Written, Connection
  <2>3. Changes(h, w, c, k)
    BY <1>1, <1>4, <1>6 DEF Changes, Heap, SamePool, SameCounts
  <2> HIDE DEF w, k
  <2> QED BY <1>1, <1>4, <1>6, <2>2, <2>3, LifeConn
<1> QED BY <1>2, <1>5, <1>6

-----------------------------------------------------------------------------
(***************************************************************************)
(* The life of a connection, event by event.                               *)
(***************************************************************************)

\* A new request.
LEMMA CacheLookupCompleteLife ==
  ASSUME Inv(server, input), Life(server, {}, 0),
         NEW i \in Intercepts, CacheLookupComplete(i)
  PROVE  Life(server', {}, 0)
<1> DEFINE p == Constructed(server.icept[i])
           f == [server EXCEPT !.icept[i] = Constructed(@)]
<1>1. Core(server, {}) /\ server \in Heap
  BY DEF Inv, Core
<1>2. p \in Intercept /\ p.requestId = server.icept[i].requestId /\ p.alive
  <2>1. server.icept[i] \in Intercept
    BY <1>1 DEF Heap
  <2> QED BY <2>1, InterceptSetters, InterceptFrame
<1>3. f = [server EXCEPT !.icept[i] = p]
  OBVIOUS
<1>4. server' = connect(f, i)
  BY DEF CacheLookupComplete
<1> HIDE DEF p
<1>5. Core(f, {})
  BY <1>1, <1>2, <1>3, CoreIntercept
<1>6. f.conn = server.conn /\ SamePool(server, f) /\ SameCounts(server, f)
  BY <1>1 DEF Heap, SamePool, SameCounts
<1> HIDE DEF f
<1>7. Life(f, {}, 0)
  BY <1>6, LifeFrame
<1> QED BY <1>4, <1>5, <1>7, LifeConnect

\* A request streams in.
LEMMA StreamLife ==
  ASSUME Inv(server, input), Life(server, {}, 0), NEW i \in Intercepts,
         StreamRequest(i) \/ StreamHeader(i) \/ StreamBody(i)
  PROVE  Life(server', {}, 0)
<1> DEFINE r == server.icept[i].requestId
<1>1. Core(server, {}) /\ server \in Heap
  BY DEF Inv, Core
<1>2. ASSUME NEW h, Core(h, {}), Life(h, {}, 0)
      PROVE  /\ Core(writeRequestHeader(h, r), {})
             /\ Core(writeRequestBody(h, r), {})
             /\ Life(writeRequestHeader(h, r), {}, 0)
             /\ Life(writeRequestBody(h, r), {}, 0)
             /\ \A post \in BOOLEAN : Life(writeRequestBodyComplete(h, r, post), {}, 0)
  <2>1. h \in Heap
    BY <1>2 DEF Core
  <2>2. Core(writeRequestHeader(h, r), {}) /\ Core(writeRequestBody(h, r), {})
    BY <1>2, <2>1, WriteRequest, CoreFrame
  <2>3. \A types : \A endflag \in BOOLEAN :
          Life(writeRecords(h, r, types, endflag), {}, 0)
    BY <1>2, LifeWrite
  <2> QED BY <2>2, <2>3, Zenon DEF writeRequestHeader, writeRequestBody,
                            writeRequestBodyComplete
<1>3. /\ Core(writeRequestHeader(server, r), {})
      /\ Core(writeRequestBody(server, r), {})
      /\ Life(writeRequestHeader(server, r), {}, 0)
      /\ Life(writeRequestBody(server, r), {}, 0)
  BY <1>1, <1>2
<1>4. /\ Life(writeRequestBodyComplete(writeRequestHeader(server, r), r, FALSE), {}, 0)
      /\ Life(writeRequestBodyComplete(writeRequestBody(server, r), r, TRUE), {}, 0)
  BY <1>2, <1>3
<1>5. \/ server' = writeRequestHeader(server, r)
      \/ server' = writeRequestBody(server, r)
      \/ server' = writeRequestBodyComplete(writeRequestHeader(server, r), r, FALSE)
      \/ server' = writeRequestBodyComplete(writeRequestBody(server, r), r, TRUE)
  BY DEF StreamRequest, StreamHeader, StreamBody
<1> QED BY <1>3, <1>4, <1>5

\* A transaction ends.
LEMMA TxnCloseLife ==
  ASSUME Inv(server, input), Life(server, {}, 0), NEW i \in Intercepts, TxnClose(i)
  PROVE  Life(server', {}, 0)
<1> DEFINE r == server.icept[i].requestId
           f == IF server.icept[i].outputComplete THEN server
                ELSE removeIntercept(server, r)
           d == [f EXCEPT !.icept[i] = Destroyed(@)]
           b == d.crashed \/ server.icept[i].plugins > 1
<1>1. Core(server, {})
  BY DEF Inv
<1>2. server' = [d EXCEPT !.crashed = b]
  BY DEF TxnClose, destroyIntercept
<1>3. Core(f, {}) /\ Life(f, {}, 0)
  BY <1>1, CoreRemove, LifeRemove
<1> HIDE DEF f
<1>4. /\ server'.conn = f.conn /\ SamePool(f, server')
      /\ server'.crashed \/ SameCounts(f, server')
  <2>1. d.conn = f.conn /\ SamePool(f, d) /\ SameCounts(f, d) /\ DOMAIN d = DOMAIN f
    BY <1>3 DEF Core, Heap, SamePool, SameCounts
  <2> HIDE DEF d
  <2>2. /\ server'.conn = d.conn /\ SamePool(d, server')
        /\ server'.crashed = b /\ server'.phpConnCount = d.phpConnCount
    BY <1>2, <1>3, <2>1 DEF Core, Heap, SamePool
  <2>3. d.crashed \in BOOLEAN
    BY <1>3, <2>1 DEF Core, Heap, SameCounts
  <2> QED BY <2>1, <2>2, <2>3 DEF SamePool, SameCounts
<1> QED BY <1>3, <1>4, LifeFrame

\* TS_EVENT_NET_CONNECT: the connection is established and counted.
LEMMA LifeEstablished ==
  ASSUME NEW h, Core(h, {}), Life(h, {}, 0), NEW c \in Conns, h.conn[c].dialing
  PROVE  Life([h EXCEPT !.phpConnCount = @ + 1, !.conn[c] = Established(@)], {}, 0)
<1> DEFINE k == Established(h.conn[c])
           g == [h EXCEPT !.phpConnCount = @ + 1, !.conn[c] = Established(@)]
<1>1. h \in Heap /\ h.connections \subseteq Conns /\ h.phpConnCount \in Int
      /\ Idle(h) \subseteq Conns
  BY DEF Core, Heap, PoolInv
<1>2. /\ c \in h.connections /\ ~h.conn[c].vc
  BY LifeObjects DEF Life
<1>3. k.vc /\ ~k.dialing /\ (Clean(h.conn[c]) => Clean(k))
  <2>1. h.conn[c] \in Connection
    BY <1>1 DEF Heap
  <2> QED BY <2>1 DEF Established, Connection, Clean
<1> HIDE DEF k
<1>4. /\ \A d \in Conns : g.conn[d] = IF d = c THEN k ELSE h.conn[d]
      /\ g.connections = h.connections /\ g.available = h.available
      /\ g.crashed = h.crashed /\ g.phpConnCount = h.phpConnCount + 1
  BY <1>1 DEF Heap, k
<1> HIDE DEF g
<1>5. Up(g) = Up(h) \cup {c} /\ c \notin Up(h)
  BY <1>2, <1>3, <1>4 DEF Up
<1>6. Cardinality(Up(g)) = Cardinality(Up(h)) + 1 /\ Cardinality(Up(h)) \in Nat
  <2>1. Up(h) \in SUBSET Conns
    BY DEF Up
  <2>2. IsFiniteSet(Up(h))
    BY <2>1, PoolAssumption, FS_Subset
  <2> QED BY <1>5, <2>2, FS_CardinalityType, FS_AddElement
<1>7. ~g.crashed => g.phpConnCount = Cardinality(Up(g)) + 0
  BY <1>1, <1>4, <1>6 DEF Life
<1>8. \A d \in g.connections : g.conn[d].vc <=> ~g.conn[d].dialing /\ d \notin {}
  BY <1>1, <1>3, <1>4 DEF Life
<1>9. \A d \in Idle(g) : Clean(g.conn[d])
  BY <1>1, <1>3, <1>4 DEF Life, Idle
<1>10. \A d \in Conns : ~g.conn[d].vc => Closed(g.conn[d])
  BY <1>3, <1>4 DEF Life
<1>11. \A d \in Conns \ g.connections : g.conn[d] = NoConnection
  BY <1>2, <1>4 DEF Life
<1> QED BY <1>7, <1>8, <1>9, <1>10, <1>11 DEF Life, g

\* createFCGIClient for the request of a connection, which is not idle.
LEMMA LifeCreate ==
  ASSUME NEW h \in Heap, NEW N, NEW n, Life(h, N, n),
         NEW c \in h.connections, c \notin Idle(h), NEW i \in Intercepts
  PROVE  Life(createFCGIClient(h, c, i), N, n)
<1> DEFINE g == [h EXCEPT !.icept[i] = Attached(@), !.conn[c] = InUse(@, i)]
           k == InUse(h.conn[c], i)
<1>1. createFCGIClient(h, c, i) = h \/ createFCGIClient(h, c, i) = g
  BY DEF createFCGIClient
<1>2. c \in Conns /\ h.conn[c] \in Connection
  BY DEF Heap
<1>3. /\ k.vc = h.conn[c].vc /\ k.dialing = h.conn[c].dialing
      /\ Closed(k) <=> Closed(h.conn[c])
  BY <1>2 DEF InUse, Connection, Closed
<1>4. Changes(h, g, c, k)
  BY <1>2 DEF Changes, Heap, SamePool, SameCounts
<1> HIDE DEF g, k
<1>5. ~k.vc => Closed(k)
  BY <1>2, <1>3 DEF Life
<1>6. Life(g, N, n)
  BY <1>3, <1>4, <1>5, LifeConn
<1> QED BY <1>1, <1>6

\* The connection of a request in service is not idle.
LEMMA ServingConn ==
  ASSUME Inv(server, input), NEW c \in Conns, InterceptOf(c) # NULL
  PROVE  /\ InterceptOf(c) \in Intercepts
         /\ c \in server.connections /\ c \notin Idle(server)
         /\ \E e \in server.intercept_list :
              /\ e.conn = c /\ e.intercept = InterceptOf(c)
              /\ e.id = server.conn[c].requestId
<1> DEFINE r == server.conn[c].requestId
           e == EntryOf(server, r)
<1>1. server \in Heap /\ Core(server, {})
  BY DEF Inv, Core
<1>2. Mapped(server, r) /\ InterceptOf(c) = e.intercept
      /\ e \in server.intercept_list /\ e.id = r
  BY <1>1, Lookup DEF InterceptOf
<1> HIDE DEF e
<1>3. e.conn = c /\ e.intercept \in Intercepts
  BY <1>1, <1>2 DEF Core, MapInv, Heap, Entry
<1>4. c \in MappedConns(server)
  BY <1>2, <1>3 DEF MappedConns
<1> QED BY <1>1, <1>2, <1>3, <1>4 DEF Core, PoolInv

\* TS_EVENT_NET_CONNECT.
LEMMA NetConnectLife ==
  ASSUME Inv(server, input), Life(server, {}, 0), NEW c \in Conns, NetConnect(c)
  PROVE  Life(server', {}, 0)
<1> DEFINE f == [server EXCEPT !.phpConnCount = @ + 1, !.conn[c] = Established(@)]
           i == InterceptOf(c)
<1>1. Core(server, {}) /\ server \in Heap
  BY DEF Inv, Core
<1>2. /\ server.conn[c].dialing
      /\ server' = IF i = NULL THEN f ELSE createFCGIClient(f, c, i)
  BY DEF NetConnect
<1>3. Life(f, {}, 0)
  BY <1>1, <1>2, LifeEstablished
<1>4. f \in Heap /\ f.connections = server.connections /\ Idle(f) = Idle(server)
  <2>1. Established(server.conn[c]) \in Connection
    BY <1>1, ConnectionSetters DEF Heap
  <2>2. server.phpConnCount + 1 \in Int
    BY <1>1 DEF Heap
  <2> QED BY <1>1, <2>1, <2>2 DEF Heap, Idle
<1>5. i # NULL => i \in Intercepts /\ c \in server.connections /\ c \notin Idle(server)
  BY ServingConn
<1> HIDE DEF f, i
<1> QED BY <1>2, <1>3, <1>4, <1>5, LifeCreate

\* TS_EVENT_NET_CONNECT_FAILED: the connection was refused; it is counted, and
\* counted out when it is closed.
LEMMA NetConnectFailedLife ==
  ASSUME Inv(server, input), Life(server, {}, 0), NEW c \in Conns, NetConnectFailed(c)
  PROVE  Life(server', {}, 0)
<1> DEFINE h == server
           k == Refused(h.conn[c])
           n == h.phpConnCount + 1
           f == [h EXCEPT !.phpConnCount = n, !.conn[c] = k]
<1>1. Core(h, {}) /\ h \in Heap /\ h.connections \subseteq Conns
      /\ h.phpConnCount \in Int /\ h.conn[c] \in Connection /\ Idle(h) \subseteq Conns
  BY DEF Inv, Core, Heap, PoolInv
<1>2. /\ h.conn[c].dialing
      /\ server' = connectionClosed(reConnect(f, h.conn[c].requestId), c)
  BY DEF NetConnectFailed
<1>3. c \in h.connections /\ ~h.conn[c].vc /\ Closed(h.conn[c])
  BY <1>2, LifeObjects DEF Life
<1>4. /\ ~k.vc /\ ~k.dialing /\ Closed(k) /\ (Clean(h.conn[c]) => Clean(k))
      /\ k.requestId = h.conn[c].requestId /\ k \in Connection
  <2>1. k \in Connection /\ k.requestId = h.conn[c].requestId
    BY <1>1, ConnectionSetters, ConnectionFrame
  <2> QED BY <1>1, <1>3, <2>1 DEF Refused, Connection, Closed, Clean
<1>5. Core(f, {})
  <2>1. n \in Int
    BY <1>1
  <2> HIDE DEF n, k
  <2>2. f \in Heap /\ SameCore(h, f)
    BY <1>1, <1>4, <2>1 DEF Heap, SameCore
  <2> HIDE DEF f
  <2> QED BY <1>1, <2>2, CoreFrame
<1> HIDE DEF k
<1>6. /\ \A d \in Conns : f.conn[d] = IF d = c THEN k ELSE h.conn[d]
      /\ f.connections = h.connections /\ f.available = h.available
      /\ f.crashed = h.crashed /\ f.phpConnCount = h.phpConnCount + 1
  BY <1>1 DEF Heap
<1> HIDE DEF f
<1>7. Life(f, {c}, 1)
  <2>1. Up(f) = Up(h)
    BY <1>3, <1>4, <1>6 DEF Up
  <2>2. Cardinality(Up(h)) \in Nat
    <3>1. Up(h) \in SUBSET Conns
      BY DEF Up
    <3> QED BY <3>1, PoolAssumption, FS_Subset, FS_CardinalityType
  <2>3. ~f.crashed => f.phpConnCount = Cardinality(Up(f)) + 1
    BY <1>6, <2>1, <2>2 DEF Life
  <2>4. \A d \in f.connections : f.conn[d].vc <=> ~f.conn[d].dialing /\ d \notin {c}
    BY <1>1, <1>4, <1>6 DEF Life
  <2>5. \A d \in Idle(f) : Clean(f.conn[d])
    BY <1>1, <1>4, <1>6 DEF Life, Idle
  <2>6. \A d \in Conns : ~f.conn[d].vc => Closed(f.conn[d])
    BY <1>4, <1>6 DEF Life
  <2>7. \A d \in Conns \ f.connections : f.conn[d] = NoConnection
    BY <1>3, <1>6 DEF Life
  <2>8. {c} \subseteq f.connections
    BY <1>3, <1>6
  <2> QED BY <2>3, <2>4, <2>5, <2>6, <2>7, <2>8 DEF Life
<1>8. Life(connectionClosed(reConnect(f, f.conn[c].requestId), c), {}, 0)
  BY <1>3, <1>5, <1>6, <1>7, LifeRetry
<1>9. f.conn[c].requestId = h.conn[c].requestId
  BY <1>4, <1>6
<1> QED BY <1>2, <1>8, <1>9 DEF f

\* An established connection changes and stays established; the handler may
\* crash.
LEMMA LifeUp ==
  ASSUME NEW h \in Heap, NEW g, NEW N, NEW n, Life(h, N, n),
         NEW c \in Conns, h.conn[c].vc, NEW k,
         k.vc, k.dialing = h.conn[c].dialing, c \in Idle(h) => Clean(k),
         g.conn = [h.conn EXCEPT ![c] = k], SamePool(h, g),
         g.crashed \/ SameCounts(h, g)
  PROVE  Life(g, N, n)
<1> DEFINE f == [h EXCEPT !.conn[c] = k]
<1>1. c \in h.connections
  BY LifeObjects DEF Life
<1>2. Changes(h, f, c, k) /\ f.conn = g.conn
      /\ f.connections = h.connections /\ f.available = h.available
      /\ f.crashed = h.crashed /\ f.phpConnCount = h.phpConnCount
  BY DEF Changes, Heap, SamePool, SameCounts
<1> HIDE DEF f
<1>3. Life(f, N, n)
  BY <1>1, <1>2, LifeConn
<1>4. g.conn = f.conn /\ SamePool(f, g) /\ (g.crashed \/ SameCounts(f, g))
  BY <1>2 DEF SamePool, SameCounts
<1> QED BY <1>3, <1>4, LifeFrame

\* What arrives on an established connection, whether or not it is idle.
LEMMA LifeDrained ==
  ASSUME NEW h \in Heap, Life(h, {}, 0), NEW c \in Conns, h.conn[c].readOpen
  PROVE  LET f == [h EXCEPT !.conn[c] = Drained(@)]
         IN  Life(f, {}, 0) /\ h.conn[c].vc /\ f.conn[c].vc
<1> DEFINE k == Drained(h.conn[c])
           f == [h EXCEPT !.conn[c] = Drained(@)]
<1>1. h.conn[c].vc /\ c \in h.connections
  BY LifeObjects DEF Life, Closed
<1>2. k.vc /\ k.dialing = h.conn[c].dialing /\ (Clean(h.conn[c]) => Clean(k))
  BY <1>1 DEF Heap, Drained, Connection, Clean
<1>3. f.conn = [h.conn EXCEPT ![c] = k] /\ SamePool(h, f) /\ SameCounts(h, f)
  BY DEF Heap, SamePool, SameCounts
<1>4. f.conn[c].vc
  BY <1>2 DEF Heap
<1> HIDE DEF f, k
<1>5. c \in Idle(h) => Clean(k)
  BY <1>2 DEF Life
<1>6. Life(f, {}, 0)
  BY <1>1, <1>2, <1>3, <1>5, LifeUp
<1> QED BY <1>1, <1>4, <1>6 DEF f

\* interceptTransferData empties the buffer of a connection in service.
LEMMA LifeTransfer ==
  ASSUME NEW h \in Heap, Life(h, {}, 0), NEW c \in Conns, h.conn[c].vc,
         c \notin Idle(h), NEW i \in Intercepts, NEW cut
  PROVE  LET g == interceptTransferData(h, c, i, cut).heap
             x == [g EXCEPT !.conn[c] = setState(@, "COMPLETE")]
         IN  Life(g, {}, 0) /\ Life(x, {}, 0)
<1> DEFINE g == interceptTransferData(h, c, i, cut).heap
           k == [h.conn[c] EXCEPT !.readBuf = <<>>]
           l == setState(k, "COMPLETE")
           x == [g EXCEPT !.conn[c] = setState(@, "COMPLETE")]
           b == h.crashed \/ h.conn[c].fcgi = NULL
<1>1. k.vc /\ k.dialing = h.conn[c].dialing /\ l.vc /\ l.dialing = h.conn[c].dialing
  BY DEF Heap, setState, Connection
<1>2. /\ g.conn = [h.conn EXCEPT ![c] = k] /\ SamePool(h, g)
      /\ g.crashed = b /\ g.phpConnCount = h.phpConnCount
      /\ DOMAIN g = DOMAIN h
  <2> HIDE DEF k
  <2>1. /\ interceptTransferData(h, c, i, cut).heap.conn = [h.conn EXCEPT ![c] = k]
        /\ interceptTransferData(h, c, i, cut).heap.connections = h.connections
        /\ interceptTransferData(h, c, i, cut).heap.available = h.available
        /\ interceptTransferData(h, c, i, cut).heap.crashed = b
        /\ interceptTransferData(h, c, i, cut).heap.phpConnCount = h.phpConnCount
        /\ DOMAIN interceptTransferData(h, c, i, cut).heap = DOMAIN h
    BY DEF interceptTransferData, Heap, k
  <2> HIDE DEF b
  <2> QED BY <2>1 DEF SamePool
<1> HIDE DEF g
<1>3. /\ x.conn = [h.conn EXCEPT ![c] = l] /\ SamePool(h, x)
      /\ x.crashed = g.crashed /\ x.phpConnCount = g.phpConnCount
  <2> HIDE DEF k
  <2>1. g.conn[c] = k /\ c \in DOMAIN h.conn
    BY <1>2 DEF Heap
  <2> HIDE DEF b
  <2> QED BY <1>2, <2>1 DEF Heap, SamePool
<1>4. (g.crashed \/ SameCounts(h, g)) /\ (x.crashed \/ SameCounts(h, x))
  BY <1>2, <1>3 DEF Heap, SameCounts
<1> HIDE DEF x, k, l, b
<1>5. Life(g, {}, 0)
  BY <1>1, <1>2, <1>4, LifeUp
<1>6. Life(x, {}, 0)
  BY <1>1, <1>3, <1>4, LifeUp
<1> QED BY <1>5, <1>6 DEF g, x

\* A response ends: its connection is given back.
LEMMA LifeComplete ==
  ASSUME NEW h, Core(h, {}), Life(h, {}, 0), NEW i \in Intercepts,
         i \in MappedIntercepts(h)
  PROVE  Life(setResponseOutputComplete(h, i), {}, 0)
<1> DEFINE p == Complete(h.icept[i])
           f == [h EXCEPT !.icept[i] = Complete(@)]
<1>1. h \in Heap
  BY DEF Core
<1>2. p \in Intercept /\ p.requestId = h.icept[i].requestId /\ p.alive
  <2>1. h.icept[i] \in Intercept /\ h.icept[i].alive
    BY <1>1 DEF MappedIntercepts, Core, MapInv, Heap
  <2>2. p \in Intercept /\ p.requestId = h.icept[i].requestId
        /\ p.alive = h.icept[i].alive
    BY <2>1, InterceptSetters, InterceptFrame
  <2> QED BY <2>1, <2>2
<1>3. f = [h EXCEPT !.icept[i] = p]
  OBVIOUS
<1> HIDE DEF p
<1>4. Core(f, {})
  BY <1>2, <1>3, CoreIntercept
<1>5. f.conn = h.conn /\ SamePool(h, f) /\ SameCounts(h, f)
  BY <1>1 DEF Heap, SamePool, SameCounts
<1>6. setResponseOutputComplete(h, i) = removeIntercept(f, h.icept[i].requestId)
  BY DEF setResponseOutputComplete
<1> HIDE DEF f
<1>7. Life(f, {}, 0)
  BY <1>5, LifeFrame
<1> QED BY <1>4, <1>6, <1>7, LifeRemove

\* TS_EVENT_VCONN_READ_READY.
LEMMA ReadReadyLife ==
  ASSUME Inv(server, input), Life(server, {}, 0), NEW c \in Conns, ReadReady(c)
  PROVE  Life(server', {}, 0)
<1> DEFINE k == Drained(server.conn[c])
           f == [server EXCEPT !.conn[c] = Drained(@)]
           i == InterceptOf(c)
           buf == server.conn[c].readBuf
<1>1. Core(server, {}) /\ server \in Heap /\ server.conn[c] \in Connection
  BY DEF Inv, Core, Heap
<1>2. Life(f, {}, 0) /\ f.conn[c].vc
  BY <1>1, LifeDrained DEF ReadReady
<1>3. Core(f, {}) /\ f \in Heap /\ SameCore(server, f) /\ f.conn[c].readBuf = buf
  <2>1. k \in Connection /\ k.requestId = server.conn[c].requestId /\ k.readBuf = buf
    <3>1. k \in Connection /\ k.requestId = server.conn[c].requestId
      BY <1>1, ConnectionSetters, ConnectionFrame
    <3> QED BY <1>1, <3>1 DEF Drained, Connection
  <2>2. f = [server EXCEPT !.conn[c] = k]
    OBVIOUS
  <2> HIDE DEF k
  <2>3. f \in Heap /\ SameCore(server, f)
    BY <1>1, <2>1, <2>2, SetConn
  <2>4. f.conn[c] = k
    BY <1>1 DEF Heap, k
  <2> HIDE DEF f
  <2> QED BY <1>1, <2>1, <2>3, <2>4, CoreFrame
<1>4. \/ server' = f
      \/ /\ i # NULL
         /\ \E cut \in 1 .. Len(buf) :
              LET t == interceptTransferData(f, c, i, cut)
              IN  server' =
                    IF t.responseStatus
                    THEN setResponseOutputComplete(
                           [t.heap EXCEPT !.conn[c] = setState(@, "COMPLETE")], i)
                    ELSE t.heap
  BY DEF ReadReady
<1>5. i # NULL => /\ i \in Intercepts /\ c \notin Idle(server)
                  /\ i \in MappedIntercepts(server)
  BY ServingConn DEF MappedIntercepts
<1> HIDE DEF f, i
<1>6. ASSUME i # NULL, NEW cut \in 1 .. Len(buf),
             LET t == interceptTransferData(f, c, i, cut)
             IN  server' =
                   IF t.responseStatus
                   THEN setResponseOutputComplete(
                          [t.heap EXCEPT !.conn[c] = setState(@, "COMPLETE")], i)
                   ELSE t.heap
      PROVE  Life(server', {}, 0)
  <2> DEFINE g == interceptTransferData(f, c, i, cut).heap
             x == [g EXCEPT !.conn[c] = setState(@, "COMPLETE")]
             y == setState(g.conn[c], "COMPLETE")
  <2>1. server' = g \/ server' = setResponseOutputComplete(x, i)
    BY <1>6
  <2>2. i \in Intercepts /\ c \notin Idle(f) /\ i \in MappedIntercepts(f)
    BY <1>3, <1>5, <1>6, Frame
  <2>3. Life(g, {}, 0) /\ Life(x, {}, 0)
    BY <1>2, <1>3, <2>2, LifeTransfer
  <2>4. g \in Heap /\ SameCore(f, g)
    BY <1>3, <2>2, TransferData
  <2> HIDE DEF g
  <2>5. y \in Connection /\ y.requestId = g.conn[c].requestId
    <3>1. g.conn[c] \in Connection /\ "COMPLETE" \in State
      BY <2>4 DEF Heap, State
    <3> QED BY <3>1, ConnectionSetters, ConnectionFrame
  <2>6. x = [g EXCEPT !.conn[c] = y]
    OBVIOUS
  <2> HIDE DEF x, y
  <2>7. x \in Heap /\ SameCore(g, x)
    BY <2>4, <2>5, <2>6, SetConn
  <2>8. SameCore(f, x)
    BY <2>4, <2>7, SameCoreTransitive
  <2>9. Core(x, {}) /\ i \in MappedIntercepts(x)
    BY <1>3, <2>2, <2>7, <2>8, CoreFrame, Frame
  <2> QED BY <2>1, <2>2, <2>3, <2>9, LifeComplete
<1> QED BY <1>2, <1>4, <1>6

\* TS_EVENT_VCONN_WRITE_READY.
LEMMA WriteReadyLife ==
  ASSUME Inv(server, input), Life(server, {}, 0), NEW c \in Conns, WriteReady(c)
  PROVE  Life(server', {}, 0)
<1> DEFINE k == Flushed(server.conn[c])
           l == [k EXCEPT !.readOpen = TRUE]
           f == [server EXCEPT !.conn[c] = Flushed(@)]
<1>1. server \in Heap /\ server.conn[c] \in Connection
  BY DEF Inv, Core, Heap
<1>2. server.conn[c].vc
  BY DEF WriteReady, Life, Closed
<1>3. /\ k.vc /\ k.dialing = server.conn[c].dialing /\ (Clean(server.conn[c]) => Clean(k))
      /\ l.vc /\ l.dialing = server.conn[c].dialing /\ (Clean(server.conn[c]) => Clean(l))
  BY <1>1, <1>2 DEF Flushed, Connection, Clean
<1> HIDE DEF k
<1>4. /\ server'.conn = [server.conn EXCEPT ![c] = k]
         \/ server'.conn = [server.conn EXCEPT ![c] = l]
      /\ SamePool(server, server') /\ SameCounts(server, server')
  <2>1. f.conn = [server.conn EXCEPT ![c] = k] /\ SamePool(server, f)
        /\ SameCounts(server, f) /\ DOMAIN f = DOMAIN server
    BY <1>1 DEF Heap, SamePool, SameCounts, k
  <2> HIDE DEF f
  <2>2. f.conn[c] = k /\ c \in DOMAIN server.conn
    BY <1>1, <2>1 DEF Heap
  <2>3. read(f, c).conn = [server.conn EXCEPT ![c] = l]
        /\ SamePool(server, read(f, c)) /\ SameCounts(server, read(f, c))
    BY <1>1, <2>1, <2>2 DEF read, Heap, SamePool, SameCounts
  <2>4. server' = f \/ server' = read(f, c)
    BY DEF WriteReady, f
  <2> QED BY <2>1, <2>3, <2>4
<1> HIDE DEF l
<1>5. \A d \in Idle(server) : Clean(server.conn[d])
  BY DEF Life
<1> QED BY <1>1, <1>2, <1>3, <1>4, <1>5, LifeUp

\* TS_EVENT_VCONN_EOS and TS_EVENT_ERROR.
LEMMA EosLife ==
  ASSUME Inv(server, input), Life(server, {}, 0), NEW c \in Conns, Eos(c) \/ Error(c)
  PROVE  Life(server', {}, 0)
<1> DEFINE i == InterceptOf(c)
           f == transactionError(server, i)
<1>1. Core(server, {}) /\ server \in Heap /\ Injective(server.available)
  BY DEF Inv, Core, PoolInv
<1>2. c \in server.connections
  BY LifeObjects DEF Eos, Error, Life, Closed
<1>3. \/ server' = connectionClosed(reConnect(server, server.conn[c].requestId), c)
      \/ server' = connectionClosed(server, c)
      \/ i # NULL /\ server' = connectionClosed(f, c)
  BY DEF Eos, Error
<1>4. CASE server' = connectionClosed(reConnect(server, server.conn[c].requestId), c)
  BY <1>1, <1>2, <1>4, LifeRetry
<1>5. CASE server' = connectionClosed(server, c)
  BY <1>1, <1>2, <1>5, LifeClosed
<1>6. CASE i # NULL /\ server' = connectionClosed(f, c)
  <2>1. i \in Intercepts
    BY <1>6, ServingConn
  <2>2. f \in Heap /\ SameCore(server, f)
    BY <1>1, <2>1, TransactionError
  <2>3. f.conn = server.conn /\ SamePool(server, f) /\ SameCounts(server, f)
    BY <1>1 DEF transactionError, Heap, SamePool, SameCounts
  <2> HIDE DEF f
  <2>4. Life(f, {}, 0)
    BY <2>3, LifeFrame
  <2>5. c \in f.connections /\ Injective(f.available)
    BY <1>1, <1>2, <2>3 DEF SamePool
  <2> QED BY <1>6, <2>2, <2>4, <2>5, LifeClosed
<1> QED BY <1>3, <1>4, <1>5, <1>6

\* The application answers.
LEMMA AppLife ==
  ASSUME Inv(server, input), Life(server, {}, 0),
         NEW c \in Conns, NEW j \in server.conn[c].jobs,
         AppStdout(c, j) \/ AppStderr(c, j) \/ AppEnd(c, j)
  PROVE  Life(server', {}, 0)
<1>1. server \in Heap /\ server.conn[c] \in Connection
  BY DEF Inv, Core, Heap
<1>2. c \in server.connections
  BY DEF Life, NoConnection
<1>3. PICK record, left :
        server' = [server EXCEPT !.conn[c] = Answered(@, j, record, left)]
  BY Zenon DEF AppStdout, AppStderr, AppEnd, AppOutput, Answer
<1> DEFINE k == Answered(server.conn[c], j, record, left)
<1>4. /\ k.vc = server.conn[c].vc /\ k.dialing = server.conn[c].dialing
      /\ Closed(k) <=> Closed(server.conn[c])
      /\ Clean(server.conn[c]) => Clean(k)
  BY <1>1 DEF Answered, Connection, Closed, Clean
<1>5. Changes(server, server', c, k)
  BY <1>1, <1>3 DEF Changes, Heap, SamePool, SameCounts
<1> HIDE DEF k
<1>6. (~k.vc => Closed(k)) /\ (c \in Idle(server) => Clean(k))
  BY <1>4 DEF Life
<1> QED BY <1>1, <1>2, <1>4, <1>5, <1>6, LifeConn

-----------------------------------------------------------------------------
(***************************************************************************)
(* IdleReset and StatExact, whatever fails.                                *)
(***************************************************************************)

\* Every connection of the pool is established or being dialled, and those
\* that are established are counted.
LifeInv == IInv /\ Life(server, {}, 0)

\* At first there are no connections.
LEMMA InitLife == Init => Life(server, {}, 0)
<1> SUFFICES ASSUME Init PROVE Life(server, {}, 0)
  OBVIOUS
<1>1. /\ server.connections = {} /\ server.available = <<>>
      /\ server.phpConnCount = 0
      /\ \A c \in Conns : server.conn[c] = NoConnection
  BY DEF Init, EmptyHeap
<1>2. Up(server) = {} /\ Idle(server) = {}
  BY <1>1, LifeObjects DEF Up, Idle, Elements
<1> QED BY <1>1, <1>2, LifeObjects, FS_EmptySet DEF Life

\* One step, by event.
LEMMA NextLife ==
  Inv(server, input) /\ Life(server, {}, 0) /\ [Next]_vars => Life(server', {}, 0)
<1> SUFFICES ASSUME Inv(server, input), Life(server, {}, 0), [Next]_vars
             PROVE  Life(server', {}, 0)
  OBVIOUS
<1>1. CASE UNCHANGED vars
  BY <1>1, Zenon DEF vars
<1>2. ASSUME NEW i \in Intercepts, CacheLookupComplete(i)
      PROVE  Life(server', {}, 0)
  BY <1>2, CacheLookupCompleteLife
<1>3. ASSUME NEW i \in Intercepts, StreamRequest(i) \/ StreamHeader(i) \/ StreamBody(i)
      PROVE  Life(server', {}, 0)
  BY <1>3, StreamLife
<1>4. ASSUME NEW i \in Intercepts, TxnClose(i) PROVE Life(server', {}, 0)
  BY <1>4, TxnCloseLife
<1>5. ASSUME NEW c \in Conns, NetConnect(c) PROVE Life(server', {}, 0)
  BY <1>5, NetConnectLife
<1>6. ASSUME NEW c \in Conns, NetConnectFailed(c) PROVE Life(server', {}, 0)
  BY <1>6, NetConnectFailedLife
<1>7. ASSUME NEW c \in Conns, ReadReady(c) PROVE Life(server', {}, 0)
  BY <1>7, ReadReadyLife
<1>8. ASSUME NEW c \in Conns, WriteReady(c) PROVE Life(server', {}, 0)
  BY <1>8, WriteReadyLife
<1>9. ASSUME NEW c \in Conns, Eos(c) \/ Error(c) PROVE Life(server', {}, 0)
  BY <1>9, EosLife
<1>10. ASSUME NEW c \in Conns, NEW j \in server.conn[c].jobs,
              AppStdout(c, j) \/ AppStderr(c, j) \/ AppEnd(c, j)
       PROVE  Life(server', {}, 0)
  BY <1>10, AppLife
<1> QED BY <1>1, <1>2, <1>3, <1>4, <1>5, <1>6, <1>7, <1>8, <1>9, <1>10, Zenon DEF Next

\* Life' of the current state is Life of the next state.
LEMMA LifePrime == Life(server, {}, 0)' <=> Life(server', {}, 0)
BY DEF Life, Idle, Up

\* The inductive invariant.
LEMMA LifeInvariance == Spec => []LifeInv
<1>1. Init => LifeInv
  BY InitInv, InvParts, InitLife DEF LifeInv
<1>2. LifeInv /\ [Next]_vars => LifeInv'
  BY NextInv, InvParts, InvPartsNext, NextLife, LifePrime DEF LifeInv
<1> QED BY <1>1, <1>2, PTL DEF Spec

\* reuseConnection: for every configuration, in every order of events and
\* whatever fails, an idle connection is READY, has no request id and does not
\* read before it has a request: also when its request was aborted before the
\* connection was established, or in the middle of being sent.
THEOREM IdleIsReset == Spec => []IdleReset
<1>1. LifeInv => IdleReset
  BY DEF LifeInv, Life, Clean, IdleReset
<1> QED BY <1>1, LifeInvariance, PTL

\* phpConnCount: on every path on which a connection is established, refused,
\* recycled, closed by the application or lost by an error, the statistic is
\* the number of connections that are established.
THEOREM StatIsExact == Spec => []StatExact
<1>1. LifeInv => StatExact
  <2> SUFFICES ASSUME LifeInv, Running
               PROVE  server.phpConnCount = Cardinality(Up(server))
    BY DEF StatExact, Up
  <2>1. server.phpConnCount = Cardinality(Up(server)) + 0
    BY DEF LifeInv, Life, Running
  <2>2. Cardinality(Up(server)) \in Nat
    <3>1. Up(server) \in SUBSET Conns
      BY DEF Up
    <3> QED BY <3>1, PoolAssumption, FS_Subset, FS_CardinalityType
  <2> QED BY <2>1, <2>2
<1> QED BY <1>1, LifeInvariance, PTL

-----------------------------------------------------------------------------
(***************************************************************************)
(* What holds as long as no connection is lost while its request is being  *)
(* written. A request in the map is then either waiting for its connection *)
(* to be established, and not yet added to its transaction, or it is       *)
(* added, once, and its connection is up and carries it. So what streams   *)
(* in finds an established connection with a FastCGI request, a request    *)
(* that can be aborted has no connection that is still being dialled, and  *)
(* a request that is retried or waits cannot have been deleted.            *)
(***************************************************************************)

\* The requests a connection may carry: max_requests, but at least one.
Limit == IF MaxRequests = 0 THEN 1 ELSE MaxRequests

\* Connection k is being dialled for the request with intercept p.
IsDialled(k, p) ==
  k.dialing /\ k.state = "INITIATED" /\ k.req_count = 0 /\ p.plugins = 0

\* Connection k is up and carries the request with intercept p.
IsServed(k, p) ==
  k.vc /\ ~k.dialing /\ k.state = "INUSE" /\ k.fcgi # NULL /\ p.plugins = 1

\* Connection k may be given to a request.
IsReady(k) == k.vc /\ ~k.dialing /\ k.req_count < Limit

Placed(h, e) ==
  \/ IsDialled(h.conn[e.conn], h.icept[e.intercept])
  \/ IsServed(h.conn[e.conn], h.icept[e.intercept])

\* What the invariant says of the intercept of one request, whose input is x.
Once(p, x) ==
  /\ p.plugins \in {0, 1}
  /\ x = "new" => p.plugins = 0

\* The invariant of heap h and input in, while the connections in X change
\* from one state to another.
Safe(h, in, X) ==
  /\ ~h.crashed
  /\ \A c \in Idle(h) : IsReady(h.conn[c])
  /\ \A c \in Conns : h.conn[c].req_count <= Limit
  /\ \A e \in h.intercept_list : e.conn \in X \/ Placed(h, e)
  /\ \A i \in Queued(h) :
       h.icept[i].alive /\ h.icept[i].plugins = 0 /\ in[i] # "new"
  /\ \A i \in Intercepts : Once(h.icept[i], in[i])

\* max_requests is a number.
LEMMA LimitType == Limit \in Nat /\ 1 <= Limit /\ \A n \in Nat : MaxRequests > n => n < Limit
BY PoolAssumption DEF Limit

\* h and g have the same lists and the same map.
SameLists(h, g) ==
  SamePool(h, g) /\ g.pending = h.pending /\ g.intercept_list = h.intercept_list

\* Intercepts p and q have the same past.
SamePast(p, q) == q.plugins = p.plugins /\ q.alive = p.alive

\* Connections k and l are in the same state.
Alike(k, l) ==
  /\ l.vc = k.vc /\ l.dialing = k.dialing /\ l.state = k.state
  /\ l.req_count = k.req_count /\ l.fcgi = k.fcgi

\* The same past tells the same.
LEMMA OnceKept ==
  ASSUME NEW p, NEW q, NEW x, SamePast(p, q), Once(p, x)
  PROVE  Once(q, x)
BY DEF SamePast, Once

\* Steps that only concern data.
LEMMA SafeFrame ==
  ASSUME NEW h \in Heap, NEW g, NEW in, NEW X, Safe(h, in, X), ~g.crashed,
         SameLists(h, g),
         \A c \in Conns : Alike(h.conn[c], g.conn[c]),
         \A i \in Intercepts : SamePast(h.icept[i], g.icept[i])
  PROVE  Safe(g, in, X)
<1>1. /\ \A e \in h.intercept_list : e.conn \in Conns /\ e.intercept \in Intercepts
      /\ Idle(h) \subseteq Conns /\ Queued(h) \subseteq Intercepts
  BY DEF Heap, Entry, Idle, Queued, Elements
<1>2. /\ Idle(g) = Idle(h) /\ Queued(g) = Queued(h)
      /\ g.intercept_list = h.intercept_list
  BY DEF SameLists, SamePool, Idle, Queued
<1>3. \A c \in Idle(g) : IsReady(g.conn[c])
  BY <1>1, <1>2 DEF Safe, Alike, IsReady
<1>4. \A e \in g.intercept_list : e.conn \in X \/ Placed(g, e)
  BY <1>1, <1>2 DEF Safe, Alike, SamePast, Placed, IsDialled, IsServed
<1>5. \A i \in Intercepts : Once(g.icept[i], in[i])
  BY OnceKept DEF Safe
<1>6. \A i \in Queued(g) :
        g.icept[i].alive /\ g.icept[i].plugins = 0 /\ in[i] # "new"
  BY <1>1, <1>2 DEF Safe, SamePast
<1>7. \A c \in Conns : g.conn[c].req_count <= Limit
  BY DEF Safe, Alike
<1> QED BY <1>3, <1>4, <1>5, <1>6, <1>7 DEF Safe

\* A connection that is not idle changes its state.
LEMMA SafeFree ==
  ASSUME NEW h \in Heap, NEW g, NEW in, NEW X, Safe(h, in, X), ~g.crashed,
         SameLists(h, g), NEW c \in Conns \ Idle(h), NEW k,
         g.conn = [h.conn EXCEPT ![c] = k], k.req_count <= Limit,
         \A i \in Intercepts : SamePast(h.icept[i], g.icept[i])
  PROVE  Safe(g, in, X \cup {c})
<1>1. /\ \A e \in h.intercept_list : e.conn \in Conns /\ e.intercept \in Intercepts
      /\ Idle(h) \subseteq Conns /\ Queued(h) \subseteq Intercepts
  BY DEF Heap, Entry, Idle, Queued, Elements
<1>2. /\ Idle(g) = Idle(h) /\ Queued(g) = Queued(h)
      /\ g.intercept_list = h.intercept_list
  BY DEF SameLists, SamePool, Idle, Queued
<1>3. \A d \in Conns : g.conn[d] = IF d = c THEN k ELSE h.conn[d]
  BY DEF Heap
<1>4. \A d \in Idle(g) : IsReady(g.conn[d])
  BY <1>1, <1>2, <1>3 DEF Safe
<1>5. \A e \in g.intercept_list : e.conn \in X \cup {c} \/ Placed(g, e)
  BY <1>1, <1>2, <1>3 DEF Safe, SamePast, Placed, IsDialled, IsServed
<1>6. \A i \in Intercepts : Once(g.icept[i], in[i])
  BY OnceKept DEF Safe
<1>7. \A i \in Queued(g) :
        g.icept[i].alive /\ g.icept[i].plugins = 0 /\ in[i] # "new"
  BY <1>1, <1>2 DEF Safe, SamePast
<1>8. \A d \in Conns : g.conn[d].req_count <= Limit
  BY <1>3 DEF Safe
<1> QED BY <1>4, <1>5, <1>6, <1>7, <1>8 DEF Safe

\* A connection that serves no request is in no entry.
LEMMA SafeDetached ==
  ASSUME NEW h, NEW in, NEW c, Safe(h, in, {c}), c \notin MappedConns(h)
  PROVE  Safe(h, in, {})
BY DEF Safe, MappedConns

\* Steps on one connection that leave it in its state, and on data.
LEMMA SafeAlike ==
  ASSUME NEW h \in Heap, NEW g, NEW in, NEW X, Safe(h, in, X), ~g.crashed,
         SameLists(h, g), NEW c \in Conns, NEW k,
         g.conn = [h.conn EXCEPT ![c] = k], Alike(h.conn[c], k),
         \A i \in Intercepts : SamePast(h.icept[i], g.icept[i])
  PROVE  Safe(g, in, X)
<1>1. \A d \in Conns : Alike(h.conn[d], g.conn[d])
  BY DEF Heap, Alike
<1> QED BY <1>1, SafeFrame

\* A request that was not added to its transaction yet is connected.
LEMMA SafeConnect ==
  ASSUME NEW h, NEW D, Core(h, D), NEW in, Safe(h, in, {}),
         NEW i \in Intercepts, i \notin Accepted(h), h.icept[i].alive,
         h.icept[i].plugins = 0, in[i] # "new"
  PROVE  LET g == connect(h, i)
         IN  /\ Safe(g, in, {})
             /\ \A c \in h.connections \ Idle(h) : g.conn[c] = h.conn[c]
<1> DEFINE g == connect(h, i)
<1>1. /\ h \in Heap /\ h.connections \subseteq Conns /\ Idle(h) \subseteq Conns
      /\ h.available \in Seq(Conns) /\ Injective(h.available)
      /\ \A e \in h.intercept_list : e.conn \in Conns /\ e.intercept \in Intercepts
      /\ h.nextId \in Nat /\ h.pending \in Seq(Intercepts)
      /\ Idle(h) \subseteq h.connections /\ MappedConns(h) \subseteq h.connections
      /\ Idle(h) \cap MappedConns(h) = {} /\ Queued(h) \subseteq Intercepts
  BY DEF Core, Heap, Entry, PoolInv, Idle, Elements, Queued
<1>2. /\ \A e \in h.intercept_list : e.intercept # i /\ e.conn \in MappedConns(h)
      /\ i \notin Queued(h)
  BY DEF Accepted, MappedIntercepts, MappedConns
<1>3. \/ Queues(h, g, i)
      \/ \E c \in Conns : Dials(h, g, i, c) \/ Takes(h, g, i, c)
  BY ConnectEffect
<1> HIDE DEF g
<1> DEFINE Goal == /\ Safe(g, in, {})
                   /\ \A c \in h.connections \ Idle(h) : g.conn[c] = h.conn[c]
<1>4. ASSUME Queues(h, g, i) PROVE Goal
  <2>1. /\ g.conn = h.conn /\ g.icept = h.icept /\ g.crashed = h.crashed
        /\ g.intercept_list = h.intercept_list /\ Idle(g) = Idle(h)
        /\ g.pending \in {h.pending, Append(h.pending, i)}
    BY <1>4 DEF Queues, SamePool, SameCounts, Idle
  <2>2. Queued(g) \subseteq Queued(h) \cup {i}
    <3>1. Elements(Append(h.pending, i)) = Elements(h.pending) \cup {i}
      <4>1. h.pending \in Seq(Intercepts) /\ Injective(h.pending)
            /\ i \notin Elements(h.pending)
        BY <1>2 DEF Core, Heap, QueueInv, Queued
      <4> QED BY <4>1, ListAppend
    <3> QED BY <2>1, <3>1 DEF Queued
  <2>3. \A j \in Queued(g) :
          g.icept[j].alive /\ g.icept[j].plugins = 0 /\ in[j] # "new"
    BY <2>1, <2>2 DEF Safe
  <2>4. \A e \in g.intercept_list : e.conn \in {} \/ Placed(g, e)
    BY <2>1 DEF Safe, Placed
  <2>5. \A d \in Idle(g) : IsReady(g.conn[d])
    BY <2>1 DEF Safe
  <2>6. /\ ~g.crashed /\ \A d \in Conns : g.conn[d].req_count <= Limit
        /\ \A j \in Intercepts : Once(g.icept[j], in[j])
    BY <2>1 DEF Safe
  <2>7. Safe(g, in, {})
    BY <2>3, <2>4, <2>5, <2>6, Zenon DEF Safe
  <2> QED BY <2>1, <2>7
<1>5. ASSUME NEW c \in Conns, Dials(h, g, i, c) PROVE Goal
  <2> DEFINE k == Dialling(h.nextId)
             p == setRequestId(h.icept[i], h.nextId)
             e == [id |-> h.nextId, intercept |-> i, conn |-> c]
  <2>1. /\ k.dialing /\ k.state = "INITIATED" /\ k.req_count = 0
        /\ SamePast(h.icept[i], p) /\ e.conn = c /\ e.intercept = i
    BY <1>1 DEF Dialling, NewConnection, NoConnection, setRequestId, SamePast,
                Heap, Intercept
  <2> HIDE DEF k, p, e
  <2>2. /\ c \notin h.connections
        /\ \A d \in Conns : g.conn[d] = IF d = c THEN k ELSE h.conn[d]
        /\ \A j \in Intercepts : g.icept[j] = IF j = i THEN p ELSE h.icept[j]
        /\ Idle(g) = Idle(h) /\ g.crashed = h.crashed /\ Queued(g) = Queued(h)
        /\ g.intercept_list = h.intercept_list \cup {e}
    BY <1>1, <1>5 DEF Dials, SameCounts, Heap, Idle, Queued, Bound, k, p, e
  <2>3. Placed(g, e)
    BY <2>1, <2>2 DEF Placed, IsDialled, SamePast
  <2>4. \A x \in h.intercept_list : Placed(g, x)
    <3> TAKE x \in h.intercept_list
    <3>1. g.conn[x.conn] = h.conn[x.conn] /\ g.icept[x.intercept] = h.icept[x.intercept]
      BY <1>1, <1>2, <2>2
    <3> QED BY <3>1 DEF Safe, Placed
  <2>5. \A j \in Intercepts : SamePast(h.icept[j], g.icept[j])
    BY <2>1, <2>2 DEF SamePast
  <2>6. \A j \in Intercepts : Once(g.icept[j], in[j])
    BY <2>5, OnceKept DEF Safe
  <2>7. \A d \in Idle(g) : IsReady(g.conn[d])
    BY <1>1, <2>2 DEF Safe
  <2>8. \A d \in Conns : g.conn[d].req_count <= Limit
    BY <2>1, <2>2, LimitType DEF Safe
  <2>9. \A j \in Queued(g) :
          g.icept[j].alive /\ g.icept[j].plugins = 0 /\ in[j] # "new"
    BY <1>1, <2>2, <2>5 DEF Safe, SamePast
  <2>10. Safe(g, in, {})
    BY <2>2, <2>3, <2>4, <2>6, <2>7, <2>8, <2>9 DEF Safe
  <2> QED BY <1>1, <2>2, <2>10
<1>6. ASSUME NEW c \in Conns, Takes(h, g, i, c) PROVE Goal
  <2> DEFINE k == Resumed(h.conn[c], h.nextId, i)
             p == Attached(setRequestId(h.icept[i], h.nextId))
             e == [id |-> h.nextId, intercept |-> i, conn |-> c]
  <2>1. c \in Idle(h) /\ Idle(g) = Idle(h) \ {c}
    BY <1>1, <1>6, ListTail DEF Takes, Idle
  <2>2. h.conn[c] \in Connection /\ h.icept[i] \in Intercept /\ IsReady(h.conn[c])
    BY <1>1, <2>1 DEF Heap, Safe
  <2>3. /\ k.vc /\ ~k.dialing /\ k.state = "INUSE" /\ k.fcgi = i
        /\ k.req_count = h.conn[c].req_count + 1
        /\ e.conn = c /\ e.intercept = i
    BY <2>2 DEF Resumed, InUse, setRequestId, setState, Connection, IsReady
  <2>4. k.req_count <= Limit
    BY <2>2, <2>3, LimitType DEF IsReady, Connection
  <2>5. /\ p.plugins = h.icept[i].plugins + 1 /\ p.alive = h.icept[i].alive
    BY <2>2 DEF Attached, setRequestId, Intercept
  <2> HIDE DEF k, p, e
  <2>6. /\ \A d \in Conns : g.conn[d] = IF d = c THEN k ELSE h.conn[d]
        /\ \A j \in Intercepts : g.icept[j] = IF j = i THEN p ELSE h.icept[j]
        /\ g.crashed = h.crashed /\ Queued(g) = Queued(h)
        /\ g.intercept_list = h.intercept_list \cup {e}
    BY <1>1, <1>6 DEF Takes, SameCounts, Heap, Queued, Bound, k, p, e
  <2>7. Placed(g, e)
    <3>1. i # NULL
      BY NullAssumption
    <3> QED BY <2>3, <2>5, <2>6, <3>1 DEF Placed, IsServed
  <2>8. \A x \in h.intercept_list : Placed(g, x)
    <3> TAKE x \in h.intercept_list
    <3>1. g.conn[x.conn] = h.conn[x.conn] /\ g.icept[x.intercept] = h.icept[x.intercept]
      BY <1>1, <1>2, <2>1, <2>6
    <3> QED BY <3>1 DEF Safe, Placed
  <2>9. \A j \in Intercepts : Once(g.icept[j], in[j])
    <3>1. Once(p, in[i])
      BY <2>5 DEF Safe, Once
    <3> QED BY <2>6, <3>1 DEF Safe
  <2>10. \A d \in Idle(g) : IsReady(g.conn[d])
    BY <1>1, <2>1, <2>6 DEF Safe
  <2>11. \A d \in Conns : g.conn[d].req_count <= Limit
    BY <2>4, <2>6 DEF Safe
  <2>12. \A j \in Queued(g) :
           g.icept[j].alive /\ g.icept[j].plugins = 0 /\ in[j] # "new"
    BY <1>1, <1>2, <2>6 DEF Safe
  <2>13. Safe(g, in, {})
    BY <2>6, <2>7, <2>8, <2>9, <2>10, <2>11, <2>12 DEF Safe
  <2> QED BY <1>1, <2>1, <2>6, <2>13
<1> QED BY <1>3, <1>4, <1>5, <1>6 DEF g

\* The head of the queue is served.
LEMMA SafeServeNext ==
  ASSUME NEW h, Core(h, {}), NEW in, Safe(h, in, {})
  PROVE  Safe(serveNext(h), in, {})
<1> DEFINE i == Head(h.pending)
           f == popFromQueue(h)
<1>1. CASE h.pending = <<>>
  BY <1>1 DEF serveNext
<1>2. CASE h.pending # <<>>
  <2>1. /\ i \in Intercepts /\ i \in Queued(h) /\ i \notin Accepted(f)
        /\ Queued(f) = Queued(h) \ {i} /\ Core(f, {})
        /\ f.intercept_list = h.intercept_list
        /\ f.conn = h.conn /\ f.icept = h.icept
    BY <1>2, CorePop
  <2>2. Idle(f) = Idle(h) /\ f.crashed = h.crashed
    BY DEF popFromQueue, Core, Heap, Idle
  <2>3. serveNext(h) = IF h.icept[i].alive THEN connect(f, i)
                       ELSE [f EXCEPT !.crashed = TRUE]
    BY <1>2 DEF serveNext
  <2> HIDE DEF f, i
  <2>4. h.icept[i].alive /\ h.icept[i].plugins = 0 /\ in[i] # "new"
    BY <2>1 DEF Safe
  <2>5. /\ \A j \in Queued(f) :
             f.icept[j].alive /\ f.icept[j].plugins = 0 /\ in[j] # "new"
        /\ \A e \in f.intercept_list : e.conn \in {} \/ Placed(f, e)
    BY <2>1 DEF Safe, Placed
  <2>6. Safe(f, in, {})
    BY <2>1, <2>2, <2>5 DEF Safe
  <2>7. f.icept[i].alive /\ f.icept[i].plugins = 0
    BY <2>1, <2>4
  <2>8. Safe(connect(f, i), in, {})
    BY <2>1, <2>4, <2>6, <2>7, SafeConnect
  <2> QED BY <2>3, <2>4, <2>8
<1> QED BY <1>1, <1>2

\* A connection that is not being dialled is closed, and its request is no
\* longer in service.
LEMMA SafeClosed ==
  ASSUME NEW h, NEW c \in Conns, NEW D \in SUBSET {c}, Core(h, D),
         NEW in, Safe(h, in, {c}), ~h.conn[c].dialing
  PROVE  Safe(connectionClosed(h, c), in, {})
<1> DEFINE g == connectionClosed(h, c)
<1>1. /\ h \in Heap /\ h.available \in Seq(Conns) /\ Injective(h.available)
      /\ Idle(h) \subseteq Conns
      /\ \A e \in h.intercept_list : e.conn \in Conns
  BY DEF Core, Heap, Entry, PoolInv, Idle, Elements
<1>2. Closes(h, g, c)
  BY <1>1, ClosedEffect
<1> HIDE DEF g
<1>3. /\ \A d \in Conns : g.conn[d] = IF d = c THEN NoConnection ELSE h.conn[d]
      /\ g.icept = h.icept /\ ~g.crashed /\ Queued(g) = Queued(h)
      /\ g.intercept_list = {e \in h.intercept_list : e.id # h.conn[c].requestId}
  BY <1>1, <1>2 DEF Closes, Heap, Safe, Queued
<1>4. Idle(g) = Idle(h) \ {c}
  BY <1>1, <1>2, ListRemoval DEF Closes, Idle
<1>5. \A e \in g.intercept_list : e \in h.intercept_list /\ e.conn # c
  BY <1>3 DEF Core, MapInv
<1>6. \A e \in g.intercept_list : e.conn \in {} \/ Placed(g, e)
  BY <1>1, <1>3, <1>5 DEF Safe, Placed
<1>7. \A d \in Idle(g) : IsReady(g.conn[d])
  BY <1>1, <1>3, <1>4 DEF Safe
<1>8. \A d \in Conns : g.conn[d].req_count <= Limit
  BY <1>3, LimitType DEF Safe, NoConnection
<1> QED BY <1>3, <1>6, <1>7, <1>8 DEF Safe, g

\* A connection that is up becomes idle.
LEMMA SafeReuse ==
  ASSUME NEW h, NEW c \in Conns, Core(h, {c}), NEW in, Safe(h, in, {c}),
         IsReady(h.conn[c])
  PROVE  Safe(reuseConnection(h, c), in, {})
<1> DEFINE g == reuseConnection(h, c)
           k == Reusable(h.conn[c])
<1>1. /\ h \in Heap /\ h.conn[c] \in Connection /\ Idle(h) \subseteq Conns
      /\ \A e \in h.intercept_list : e.conn \in Conns
      /\ c \notin MappedConns(h)
  BY DEF Core, Heap, Entry, PoolInv, Idle, Elements
<1>2. IsReady(k) /\ k.req_count = h.conn[c].req_count
  BY <1>1 DEF Reusable, Connection, IsReady
<1>3. Elements(Append(h.available, c)) = Idle(h) \cup {c}
  BY ListAppend DEF Core, PoolInv, Heap, Idle
<1>4. g = [h EXCEPT !.conn[c] = k, !.available = Append(@, c)]
  BY DEF reuseConnection
<1> HIDE DEF k, g
<1>5. /\ \A d \in Conns : g.conn[d] = IF d = c THEN k ELSE h.conn[d]
      /\ Idle(g) = Idle(h) \cup {c} /\ g.icept = h.icept
      /\ g.crashed = h.crashed /\ Queued(g) = Queued(h)
      /\ g.intercept_list = h.intercept_list
  BY <1>1, <1>3, <1>4 DEF Heap, Idle, Queued
<1>6. \A e \in g.intercept_list : e.conn \in {} \/ Placed(g, e)
  BY <1>1, <1>5 DEF Safe, Placed, MappedConns
<1>7. \A d \in Idle(g) : IsReady(g.conn[d])
  BY <1>1, <1>2, <1>5 DEF Safe
<1>8. \A d \in Conns : g.conn[d].req_count <= Limit
  BY <1>2, <1>5 DEF Safe
<1> QED BY <1>5, <1>6, <1>7, <1>8 DEF Safe, g

\* The request of a connection that is up ends.
LEMMA SafeRemove ==
  ASSUME NEW h, Core(h, {}), NEW in, NEW e \in h.intercept_list,
         Safe(h, in, {e.conn}), h.conn[e.conn].vc, ~h.conn[e.conn].dialing
  PROVE  Safe(removeIntercept(h, e.id), in, {})
<1> DEFINE c == e.conn
           k == Freed(h.conn[c])
<1>1. PICK f : Frees(h, f, e)
  BY RemoveEffect
<1>2. /\ c \in Conns /\ c \notin Idle(h) /\ h \in Heap /\ h.conn[c] \in Connection
  BY RemoveEffect DEF Core, Heap
<1>3. /\ Core(f, {c}) /\ Changes(h, f, c, k) /\ Core(GivenBack(f, c), {})
      /\ f.icept = h.icept /\ f.pending = h.pending
      /\ f.intercept_list \subseteq h.intercept_list
      /\ removeIntercept(h, e.id) = serveNext(GivenBack(f, c))
  BY <1>1 DEF Frees
<1>4. h.conn[c].vc /\ ~h.conn[c].dialing /\ Safe(h, in, {c})
  OBVIOUS
<1> HIDE DEF c
<1>5. k.vc /\ ~k.dialing /\ k.req_count = h.conn[c].req_count
  BY <1>2, <1>4 DEF Freed, setRequestId, Released, Connection
<1> HIDE DEF k
<1>6. /\ \A d \in Conns : f.conn[d] = IF d = c THEN k ELSE h.conn[d]
      /\ Idle(f) = Idle(h) /\ f.crashed = h.crashed /\ Queued(f) = Queued(h)
      /\ Idle(h) \subseteq Conns /\ \A x \in h.intercept_list : x.conn \in Conns
  BY <1>2, <1>3 DEF Changes, SamePool, SameCounts, Heap, Entry, Idle, Queued, Elements
<1>7. Safe(f, in, {c})
  <2>1. \A x \in f.intercept_list : x.conn \in {c} \/ Placed(f, x)
    BY <1>3, <1>4, <1>6 DEF Safe, Placed
  <2>2. \A d \in Idle(f) : IsReady(f.conn[d])
    BY <1>2, <1>4, <1>6 DEF Safe
  <2>3. \A d \in Conns : f.conn[d].req_count <= Limit
    BY <1>2, <1>4, <1>5, <1>6 DEF Safe
  <2>4. ~f.crashed /\ (\A j \in Intercepts : Once(f.icept[j], in[j]))
        /\ \A j \in Queued(f) :
             f.icept[j].alive /\ f.icept[j].plugins = 0 /\ in[j] # "new"
    BY <1>3, <1>4, <1>6 DEF Safe
  <2> QED BY <2>1, <2>2, <2>3, <2>4 DEF Safe
<1>8. Safe(GivenBack(f, c), in, {})
  <2>1. CASE MaxRequests > f.conn[c].req_count
    <3>1. IsReady(f.conn[c])
      BY <1>2, <1>5, <1>6, <2>1, LimitType DEF IsReady, Connection
    <3> QED BY <1>2, <1>3, <1>7, <2>1, <3>1, SafeReuse DEF GivenBack
  <2>2. CASE ~(MaxRequests > f.conn[c].req_count)
    <3>1. ~f.conn[c].dialing /\ {c} \in SUBSET {c}
      BY <1>2, <1>5, <1>6
    <3> QED BY <1>2, <1>3, <1>7, <2>2, <3>1, SafeClosed DEF GivenBack
  <2> QED BY <2>1, <2>2
<1> QED BY <1>3, <1>8, SafeServeNext

\* A request that was not added to its transaction yet is connected anew, and
\* its connection, which was refused, is closed.
LEMMA SafeRetry ==
  ASSUME NEW h, NEW in, Inv(h, in), NEW c \in Conns, Safe(h, in, {c}),
         ~h.conn[c].dialing, c \notin Idle(h),
         \A e \in h.intercept_list : e.conn = c => h.icept[e.intercept].plugins = 0
  PROVE  Safe(connectionClosed(reConnect(h, h.conn[c].requestId), c), in, {})
<1> DEFINE r == h.conn[c].requestId
           f == erase(h, r)
           g == reConnect(h, r)
<1>0. Core(h, {})
  BY DEF Inv
<1>1. Core(h, {}) /\ h \in Heap
  BY <1>0 DEF Core
<1>2. PICK D \in SUBSET {c} : Core(g, D)
  BY <1>1, CoreReConnect
<1>3. Safe(g, in, {c}) /\ ~g.conn[c].dialing
  <2>1. CASE ~Mapped(h, r)
    <3>1. g = h
      BY <1>1, <2>1, Lookup DEF reConnect
    <3> QED BY <3>1
  <2>2. CASE Mapped(h, r)
    <3> DEFINE e == EntryOf(h, r)
               i == e.intercept
    <3>1. e \in h.intercept_list /\ e.id = r /\ g = connect(f, i)
      BY <1>1, <2>2, Lookup DEF reConnect
    <3> HIDE DEF e, g
    <3>2. e.conn = c /\ h.icept[i].alive /\ h.icept[i].plugins = 0
      BY <1>0, <3>1 DEF Core, MapInv
    <3>3. /\ Core(erase(h, e.id), {} \cup {e.conn}) /\ i \in Intercepts
          /\ MappedIntercepts(erase(h, e.id)) = MappedIntercepts(h) \ {i}
          /\ Queued(erase(h, e.id)) = Queued(h)
      BY <1>0, <3>1, CoreErase, Zenon
    <3>4. i \in MappedIntercepts(h) /\ i \notin Queued(h)
      BY <1>1, <3>1 DEF MappedIntercepts, Core, QueueInv
    <3>5. in[i] # "new"
      BY <3>4 DEF Inv, Accepted
    <3> HIDE DEF i
    <3>6. Core(f, {c}) /\ i \notin Accepted(f)
      <4>1. {} \cup {c} = {c}
        OBVIOUS
      <4> HIDE DEF r
      <4>2. /\ Core(f, {} \cup {c})
            /\ MappedIntercepts(f) = MappedIntercepts(h) \ {i}
            /\ Queued(f) = Queued(h)
        BY <3>1, <3>2, <3>3
      <4> QED BY <3>4, <4>1, <4>2 DEF Accepted
    <3>7. /\ f.conn = h.conn /\ f.icept = h.icept /\ f.crashed = h.crashed
          /\ f.connections = h.connections
          /\ Idle(f) = Idle(h) /\ Queued(f) = Queued(h)
          /\ f.intercept_list \subseteq h.intercept_list
      BY <1>1 DEF erase, Heap, Idle, Queued
    <3> HIDE DEF f, r
    <3>8. Safe(f, in, {c})
      BY <3>7 DEF Safe, Placed
    <3>9. c \notin MappedConns(f) /\ c \in f.connections
      BY <3>6 DEF Core, PoolInv
    <3>10. Safe(f, in, {})
      BY <3>8, <3>9, SafeDetached
    <3>11. /\ Safe(connect(f, i), in, {})
           /\ \A d \in f.connections \ Idle(f) : connect(f, i).conn[d] = f.conn[d]
      BY <3>2, <3>3, <3>5, <3>6, <3>7, <3>10, SafeConnect
    <3>12. Safe(g, in, {c})
      BY <3>1, <3>11 DEF Safe
    <3>13. ~g.conn[c].dialing
      BY <3>1, <3>7, <3>9, <3>11
    <3> QED BY <3>12, <3>13
  <2> QED BY <2>1, <2>2
<1> HIDE DEF g
<1>4. Safe(connectionClosed(g, c), in, {})
  BY <1>2, <1>3, SafeClosed
<1> QED BY <1>4 DEF g, r

\* The client sends more of a request that was looked up.
LEMMA SafeInput ==
  ASSUME NEW h, NEW in \in [Intercepts -> Input], NEW X, Safe(h, in, X),
         Queued(h) \subseteq Intercepts,
         NEW i \in Intercepts, in[i] # "new", NEW x \in Input \ {"new"}
  PROVE  Safe(h, [in EXCEPT ![i] = x], X)
<1> DEFINE new == [in EXCEPT ![i] = x]
<1>1. \A j \in Intercepts : new[j] = IF j = i THEN x ELSE in[j]
  OBVIOUS
<1> HIDE DEF new
<1>2. \A j \in Intercepts : Once(h.icept[j], new[j])
  BY <1>1 DEF Safe, Once
<1>3. \A j \in Queued(h) : new[j] # "new"
  BY <1>1 DEF Safe
<1>4. Safe(h, new, X)
  BY <1>2, <1>3 DEF Safe
<1> QED BY <1>4 DEF new

\* A request that was added to its transaction and is in service has an
\* established connection that carries it.
LEMMA ServedEntry ==
  ASSUME NEW h, Core(h, {}), NEW in, Safe(h, in, {}), NEW i \in Intercepts,
         h.icept[i].plugins > 0
  PROVE  /\ h.icept[i].plugins = 1 /\ i \notin Queued(h)
         /\ \A e \in h.intercept_list :
              e.id = h.icept[i].requestId \/ e.intercept = i =>
                /\ e.intercept = i /\ e.id = h.icept[i].requestId
                /\ IsServed(h.conn[e.conn], h.icept[i])
<1>1. h.icept[i].plugins = 1
  BY DEF Safe, Once
<1>2. \A e \in h.intercept_list : h.icept[i].requestId = e.id <=> i = e.intercept
  BY DEF Core, MapInv
<1>3. \A e \in h.intercept_list : e.intercept = i => IsServed(h.conn[e.conn], h.icept[i])
  BY <1>1 DEF Safe, Placed, IsDialled
<1>4. i \notin Queued(h)
  BY <1>1 DEF Safe
<1> QED BY <1>1, <1>2, <1>3, <1>4

\* What streams in finds the FastCGI request and the handle of a connection.
LEMMA SafeWrite ==
  ASSUME NEW h, Core(h, {}), NEW in, Safe(h, in, {}), NEW i \in Intercepts,
         h.icept[i].plugins > 0, NEW types, NEW endflag
  PROVE  LET g == writeRecords(h, h.icept[i].requestId, types, endflag)
         IN  Safe(g, in, {}) /\ g.icept = h.icept
<1> DEFINE r == h.icept[i].requestId
           c == getServerConnection(h, r)
           records == [n \in DOMAIN types |->
                         [type |-> types[n], req |-> h.conn[c].fcgi]]
           k == Written(h.conn[c], records, endflag)
           w == [h EXCEPT !.conn[c] = Written(@, records, endflag)]
           g == writeRecords(h, r, types, endflag)
<1>1. h \in Heap
  BY DEF Core
<1>2. CASE c = NULL
  BY <1>2 DEF writeRecords
<1>3. CASE c # NULL
  <2>1. PICK e \in h.intercept_list : e.id = r /\ c = e.conn
    BY <1>1, <1>3, Lookup
  <2>2. IsServed(h.conn[c], h.icept[i])
    BY <2>1, ServedEntry
  <2>3. c \in Conns
    BY <1>1, <2>1 DEF Heap, Entry
  <2>4. h.conn[c].vc /\ h.conn[c].fcgi # NULL /\ h.conn[c] \in Connection
    BY <1>1, <2>2, <2>3 DEF IsServed, Heap
  <2>5. g = w
    BY <1>3, <2>4 DEF writeRecords, phpWrite
  <2> HIDE DEF c, records, g
  <2>6. Alike(h.conn[c], k)
    BY <2>4 DEF Written, Connection, Alike
  <2>7. /\ w.conn = [h.conn EXCEPT ![c] = k] /\ SameLists(h, w)
        /\ w.icept = h.icept /\ ~w.crashed
    BY <1>1, <2>3 DEF Heap, SameLists, SamePool, Safe
  <2> HIDE DEF w, k
  <2>8. \A j \in Intercepts : SamePast(h.icept[j], w.icept[j])
    BY <2>7 DEF SamePast
  <2>9. Safe(w, in, {})
    BY <1>1, <2>3, <2>6, <2>7, <2>8, SafeAlike
  <2> QED BY <2>5, <2>7, <2>9 DEF g
<1> QED BY <1>2, <1>3

\* Transaction::error.
LEMMA SafeFailed ==
  ASSUME NEW h \in Heap, NEW in, Safe(h, in, {}),
         NEW i \in Intercepts
  PROVE  Safe(transactionError(h, i), in, {})
<1> DEFINE g == transactionError(h, i)
           p == Failed(h.icept[i])
<1>1. /\ p.plugins = h.icept[i].plugins /\ p.alive = h.icept[i].alive
  BY DEF Failed, Heap, Intercept
<1> HIDE DEF p
<1>2. /\ \A j \in Intercepts : g.icept[j] = IF j = i THEN p ELSE h.icept[j]
      /\ g.conn = h.conn /\ SameLists(h, g) /\ g.crashed = h.crashed
  BY DEF transactionError, Heap, SameLists, SamePool, p
<1> HIDE DEF g
<1>3. /\ Idle(g) = Idle(h) /\ Queued(g) = Queued(h) /\ Queued(h) \subseteq Intercepts
      /\ g.intercept_list = h.intercept_list
      /\ \A e \in h.intercept_list : e.intercept \in Intercepts
  BY <1>2 DEF SameLists, SamePool, Idle, Queued, Elements, Heap, Entry
<1>4. \A j \in Intercepts : Once(g.icept[j], in[j])
  BY <1>1, <1>2 DEF Safe, Once
<1>5. \A e \in g.intercept_list : e.conn \in {} \/ Placed(g, e)
  BY <1>1, <1>2, <1>3 DEF Safe, Placed, IsDialled, IsServed
<1>6. \A j \in Queued(g) :
        g.icept[j].alive /\ g.icept[j].plugins = 0 /\ in[j] # "new"
  BY <1>1, <1>2, <1>3 DEF Safe
<1>7. Safe(g, in, {})
  BY <1>2, <1>3, <1>4, <1>5, <1>6 DEF Safe
<1> QED BY <1>7 DEF g

\* A request is constructed or deleted while it neither waits nor is served.
LEMMA SafeAlive ==
  ASSUME NEW h, Core(h, {}), NEW in, Safe(h, in, {}),
         NEW i \in Intercepts, i \notin Accepted(h), NEW p,
         p.plugins = h.icept[i].plugins
  PROVE  LET g == [h EXCEPT !.icept[i] = p]
         IN  Safe(g, in, {}) /\ g.icept[i] = p
<1> DEFINE g == [h EXCEPT !.icept[i] = p]
<1>1. /\ \A j \in Intercepts : g.icept[j] = IF j = i THEN p ELSE h.icept[j]
      /\ g.conn = h.conn /\ g.crashed = h.crashed
      /\ Idle(g) = Idle(h) /\ Queued(g) = Queued(h) /\ Queued(h) \subseteq Intercepts
      /\ g.intercept_list = h.intercept_list
      /\ \A e \in h.intercept_list : e.intercept \in Intercepts
  BY DEF Core, Heap, Entry, Idle, Queued, Elements
<1> HIDE DEF g
<1>2. \A j \in Intercepts : Once(g.icept[j], in[j])
  BY <1>1 DEF Safe, Once
<1>3. \A e \in g.intercept_list : e.conn \in {} \/ Placed(g, e)
  BY <1>1 DEF Safe, Placed, IsDialled, IsServed
<1>4. \A j \in Queued(g) :
        g.icept[j].alive /\ g.icept[j].plugins = 0 /\ in[j] # "new"
  BY <1>1 DEF Safe, Accepted
<1>5. Safe(g, in, {})
  BY <1>1, <1>2, <1>3, <1>4 DEF Safe
<1> QED BY <1>1, <1>5 DEF g

\* A response ends: its connection was up.
LEMMA SafeComplete ==
  ASSUME NEW h, Core(h, {}), NEW in, NEW e \in h.intercept_list,
         Safe(h, in, {e.conn}), h.conn[e.conn].vc, ~h.conn[e.conn].dialing
  PROVE  Safe(setResponseOutputComplete(h, e.intercept), in, {})
<1> DEFINE i == e.intercept
           p == Complete(h.icept[i])
           f == [h EXCEPT !.icept[i] = Complete(@)]
<1>1. h \in Heap /\ i \in Intercepts /\ e \in Entry
  BY DEF Core, Heap, Entry
<1>2. h.icept[i].requestId = e.id /\ h.icept[i].alive /\ h.icept[i] \in Intercept
  BY <1>1 DEF Core, MapInv, Heap
<1> HIDE DEF i
<1>3. p \in Intercept /\ p.requestId = h.icept[i].requestId /\ p.alive
      /\ SamePast(h.icept[i], p)
  BY <1>2 DEF Complete, Intercept, SamePast
<1>4. f = [h EXCEPT !.icept[i] = p]
  OBVIOUS
<1> HIDE DEF p
<1>5. Core(f, {})
  BY <1>1, <1>3, <1>4, CoreIntercept
<1>6. /\ f.conn = h.conn /\ SameLists(h, f) /\ f.crashed = h.crashed
      /\ \A j \in Intercepts : SamePast(h.icept[j], f.icept[j])
  BY <1>1, <1>3 DEF Heap, SameLists, SamePool, SamePast, p
<1>7. setResponseOutputComplete(h, i) = removeIntercept(f, e.id)
  BY <1>2 DEF setResponseOutputComplete
<1> HIDE DEF f
<1>8. \A c \in Conns : Alike(h.conn[c], f.conn[c])
  BY <1>6 DEF Alike
<1>9. Safe(f, in, {e.conn})
  <2> DEFINE X == {e.conn}
  <2>1. Safe(h, in, X) /\ ~f.crashed
    BY <1>6 DEF Safe
  <2> HIDE DEF X
  <2>2. Safe(f, in, X)
    BY <1>1, <1>6, <1>8, <2>1, SafeFrame
  <2> QED BY <2>2 DEF X
<1>10. e \in f.intercept_list /\ f.conn[e.conn].vc /\ ~f.conn[e.conn].dialing
  BY <1>6 DEF SameLists
<1> QED BY <1>5, <1>7, <1>9, <1>10, SafeRemove DEF i

-----------------------------------------------------------------------------
(***************************************************************************)
(* The same, event by event.                                               *)
(***************************************************************************)

\* What every event finds.
Survives == Inv(server, input) /\ Life(server, {}, 0) /\ Safe(server, input, {})

\* A new request.
LEMMA CacheLookupCompleteSafe ==
  ASSUME Survives, NEW i \in Intercepts, CacheLookupComplete(i)
  PROVE  Safe(server', input', {})
<1> DEFINE p == Constructed(server.icept[i])
           f == [server EXCEPT !.icept[i] = Constructed(@)]
           in == [input EXCEPT ![i] = "none"]
<1>1. Core(server, {}) /\ server \in Heap /\ input \in [Intercepts -> Input]
      /\ Safe(server, input, {})
  BY DEF Survives, Inv, Core
<1>2. server' = connect(f, i) /\ input' = in /\ input[i] = "new"
  BY DEF CacheLookupComplete
<1>3. i \notin Accepted(server) /\ server.icept[i].plugins = 0
  BY <1>2 DEF Survives, Inv, Safe, Once
<1>4. /\ p \in Intercept /\ p.requestId = server.icept[i].requestId /\ p.alive
      /\ p.plugins = server.icept[i].plugins
  <2>1. server.icept[i] \in Intercept
    BY <1>1 DEF Heap
  <2>2. p \in Intercept
    BY <2>1, InterceptSetters
  <2> QED BY <2>1, <2>2 DEF Constructed, Intercept
<1>5. f = [server EXCEPT !.icept[i] = p]
  OBVIOUS
<1> HIDE DEF p, f
<1>6. Core(f, {}) /\ Accepted(f) = Accepted(server)
  BY <1>1, <1>4, <1>5, CoreIntercept
<1>7. Safe(f, input, {}) /\ f.icept[i] = p
  BY <1>1, <1>3, <1>4, <1>5, SafeAlive
<1>8. Safe(f, in, {}) /\ in[i] # "new"
  <2>1. \A j \in Intercepts : in[j] = IF j = i THEN "none" ELSE input[j]
    BY <1>1
  <2> HIDE DEF in
  <2>2. \A j \in Intercepts : Once(f.icept[j], in[j])
    BY <1>7, <2>1 DEF Safe, Once
  <2>3. \A j \in Queued(f) : in[j] # "new"
    <3>1. Queued(f) \subseteq Intercepts
      BY <1>6 DEF Core, Heap, Queued, Elements
    <3> QED BY <1>7, <2>1, <3>1 DEF Safe
  <2> QED BY <1>7, <2>1, <2>2, <2>3 DEF Safe
<1> HIDE DEF in
<1>9. f.icept[i].alive /\ f.icept[i].plugins = 0
  BY <1>3, <1>4, <1>7
<1>10. Safe(connect(f, i), in, {})
  BY <1>3, <1>6, <1>8, <1>9, SafeConnect
<1> QED BY <1>2, <1>10

\* A request streams in.
LEMMA StreamSafe ==
  ASSUME Survives, NEW i \in Intercepts,
         StreamRequest(i) \/ StreamHeader(i) \/ StreamBody(i)
  PROVE  Safe(server', input', {})
<1> DEFINE r == server.icept[i].requestId
<1>1. Core(server, {}) /\ server \in Heap /\ input \in [Intercepts -> Input]
      /\ Safe(server, input, {})
  BY DEF Survives, Inv, Core
<1>2. server.icept[i].plugins > 0
  BY DEF StreamRequest, StreamHeader, StreamBody, Streaming
<1>3. ASSUME NEW h, Core(h, {}), Safe(h, input, {}), h.icept = server.icept
      PROVE  /\ Core(writeRequestHeader(h, r), {})
             /\ Core(writeRequestBody(h, r), {})
             /\ Safe(writeRequestHeader(h, r), input, {})
             /\ Safe(writeRequestBody(h, r), input, {})
             /\ writeRequestHeader(h, r).icept = server.icept
             /\ writeRequestBody(h, r).icept = server.icept
             /\ \A post \in BOOLEAN : Safe(writeRequestBodyComplete(h, r, post), input, {})
  <2>1. h \in Heap
    BY <1>3 DEF Core
  <2>2. Core(writeRequestHeader(h, r), {}) /\ Core(writeRequestBody(h, r), {})
    BY <1>3, <2>1, WriteRequest, CoreFrame
  <2>3. \A types, endflag :
          /\ Safe(writeRecords(h, r, types, endflag), input, {})
          /\ writeRecords(h, r, types, endflag).icept = server.icept
    BY <1>2, <1>3, SafeWrite
  <2>4. Safe(writeRequestHeader(h, r), input, {})
    BY <2>3, Zenon DEF writeRequestHeader
  <2>5. Safe(writeRequestBody(h, r), input, {})
    BY <2>3, Zenon DEF writeRequestBody
  <2>7. /\ writeRequestHeader(h, r).icept = server.icept
        /\ writeRequestBody(h, r).icept = server.icept
    BY <1>3, <2>1 DEF writeRequestHeader, writeRequestBody, writeRecords, phpWrite, Heap
  <2>6. ASSUME NEW post
        PROVE  Safe(writeRequestBodyComplete(h, r, post), input, {})
    BY <2>3, Zenon DEF writeRequestBodyComplete
  <2> QED BY <2>2, <2>4, <2>5, <2>6, <2>7
<1>4. /\ Core(writeRequestHeader(server, r), {})
      /\ Core(writeRequestBody(server, r), {})
      /\ Safe(writeRequestHeader(server, r), input, {})
      /\ Safe(writeRequestBody(server, r), input, {})
      /\ writeRequestHeader(server, r).icept = server.icept
      /\ writeRequestBody(server, r).icept = server.icept
  BY <1>1, <1>3
<1>5. /\ Safe(writeRequestBodyComplete(writeRequestHeader(server, r), r, FALSE), input, {})
      /\ Safe(writeRequestBodyComplete(writeRequestBody(server, r), r, TRUE), input, {})
  BY <1>3, <1>4
<1>6. \/ server' = writeRequestHeader(server, r)
      \/ server' = writeRequestBody(server, r)
      \/ server' = writeRequestBodyComplete(writeRequestHeader(server, r), r, FALSE)
      \/ server' = writeRequestBodyComplete(writeRequestBody(server, r), r, TRUE)
  BY DEF StreamRequest, StreamHeader, StreamBody
<1>7. Safe(server', input, {})
  BY <1>4, <1>5, <1>6
<1>8. /\ server' \in Heap
      /\ \E x \in Input \ {"new"} : input[i] # "new" /\ input' = [input EXCEPT ![i] = x]
  BY <1>1, StreamFrame
<1>9. Queued(server') \subseteq Intercepts
  BY <1>8 DEF Heap, Queued, Elements
<1>10. PICK x \in Input \ {"new"} : input[i] # "new" /\ input' = [input EXCEPT ![i] = x]
  BY <1>8
<1>11. Safe(server', [input EXCEPT ![i] = x], {})
  BY <1>1, <1>7, <1>9, <1>10, SafeInput
<1> QED BY <1>10, <1>11

\* A transaction ends; its request was added once.
LEMMA TxnCloseSafe ==
  ASSUME Survives, NEW i \in Intercepts, TxnClose(i)
  PROVE  Safe(server', input', {})
<1> DEFINE r == server.icept[i].requestId
           f == IF server.icept[i].outputComplete THEN server
                ELSE removeIntercept(server, r)
           p == Destroyed(f.icept[i])
           d == [f EXCEPT !.icept[i] = Destroyed(@)]
           b == d.crashed \/ server.icept[i].plugins > 1
<1>1. Core(server, {}) /\ Safe(server, input, {})
  BY DEF Survives, Inv
<1>2. server' = [d EXCEPT !.crashed = b] /\ input' = input
  BY DEF TxnClose, destroyIntercept
<1>3. server.icept[i].plugins = 1 /\ i \notin Queued(server)
  BY <1>1, ServedEntry DEF TxnClose, Streaming
<1>4. Core(f, {}) /\ Safe(f, input, {}) /\ i \notin Accepted(f)
  <2>1. CASE server.icept[i].outputComplete
    <3>1. i \notin Accepted(server)
      BY <2>1 DEF Survives, Inv
    <3> QED BY <1>1, <2>1, <3>1
  <2>2. CASE ~server.icept[i].outputComplete /\ ~Mapped(server, r)
    <3>1. f = server
      BY <2>2 DEF removeIntercept
    <3> HIDE DEF f
    <3>2. i \notin MappedIntercepts(server)
      BY <1>1, <2>2, MappedLookup
    <3> QED BY <1>1, <1>3, <3>1, <3>2 DEF Accepted
  <2>3. CASE ~server.icept[i].outputComplete /\ Mapped(server, r)
    <3>1. f = removeIntercept(server, r)
      BY <2>3
    <3> HIDE DEF f
    <3>2. Core(f, {}) /\ i \notin Accepted(f)
      BY <1>1, <2>3, <3>1, CoreRemove, MappedLookup
    <3>3. PICK e \in server.intercept_list : e.id = r
      BY <2>3 DEF Mapped
    <3>4. IsServed(server.conn[e.conn], server.icept[i])
      BY <1>1, <1>3, <3>3, ServedEntry
    <3>5. Safe(server, input, {e.conn})
      BY <1>1 DEF Safe
    <3>6. server.conn[e.conn].vc /\ ~server.conn[e.conn].dialing
      BY <3>4 DEF IsServed
    <3> HIDE DEF r
    <3>7. Safe(removeIntercept(server, e.id), input, {})
      BY <1>1, <3>5, <3>6, SafeRemove
    <3> QED BY <3>1, <3>2, <3>3, <3>7
  <2> QED BY <2>1, <2>2, <2>3
<1> HIDE DEF f
<1>5. /\ p.plugins = f.icept[i].plugins
  <2>1. f.icept[i] \in Intercept
    BY <1>4 DEF Core, Heap
  <2> QED BY <2>1 DEF Destroyed, Intercept
<1>6. d = [f EXCEPT !.icept[i] = p]
  OBVIOUS
<1>7. DOMAIN d = DOMAIN f /\ f \in Heap
  BY <1>4 DEF Core
<1> HIDE DEF p, d
<1>8. Safe(d, input, {})
  BY <1>4, <1>5, <1>6, SafeAlive
<1>9. ~b
  BY <1>3, <1>8 DEF Safe
<1>10. /\ server'.conn = d.conn /\ server'.icept = d.icept /\ ~server'.crashed
       /\ server'.available = d.available /\ server'.pending = d.pending
       /\ server'.intercept_list = d.intercept_list
  BY <1>2, <1>7, <1>9 DEF Heap
<1>11. Safe(server', input, {})
  <2>1. Idle(server') = Idle(d) /\ Queued(server') = Queued(d)
    BY <1>10 DEF Idle, Queued
  <2>2. \A e \in server'.intercept_list : e.conn \in {} \/ Placed(server', e)
    BY <1>8, <1>10 DEF Safe, Placed
  <2>3. /\ \A c \in Idle(server') : IsReady(server'.conn[c])
        /\ \A c \in Conns : server'.conn[c].req_count <= Limit
        /\ \A j \in Intercepts : Once(server'.icept[j], input[j])
        /\ \A j \in Queued(server') :
             /\ server'.icept[j].alive /\ server'.icept[j].plugins = 0
             /\ input[j] # "new"
    BY <1>8, <1>10, <2>1 DEF Safe
  <2> QED BY <1>10, <2>2, <2>3 DEF Safe
<1> QED BY <1>2, <1>11

\* A connection that is being dialled belongs to a request that was not added
\* to its transaction yet.
LEMMA DialledEntry ==
  ASSUME Survives, NEW c \in Conns, server.conn[c].dialing
  PROVE  /\ c \notin Idle(server)
         /\ \A e \in server.intercept_list : e.conn = c =>
              IsDialled(server.conn[c], server.icept[e.intercept])
         /\ \E e \in server.intercept_list :
              e.conn = c /\ InterceptOf(c) = e.intercept
<1>1. Core(server, {}) /\ server \in Heap
  BY DEF Survives, Inv, Core
<1>2. c \notin Idle(server)
  BY DEF Survives, Safe, IsReady
<1>3. c \in server.connections
  BY LifeObjects DEF Survives, Life
<1>4. PICK e \in server.intercept_list : e.conn = c
  BY <1>1, <1>2, <1>3 DEF Core, PoolInv, MappedConns
<1>5. \A x \in server.intercept_list : x.conn = c =>
        IsDialled(server.conn[c], server.icept[x.intercept])
  BY DEF Survives, Safe, Placed, IsServed
<1>6. server.conn[c].requestId = e.id
  BY <1>1, <1>4 DEF Core, MapInv
<1>7. Mapped(server, server.conn[c].requestId)
  BY <1>4, <1>6 DEF Mapped
<1>8. InterceptOf(c) # NULL
  BY <1>1, <1>7, Lookup DEF InterceptOf
<1>9. PICK x \in server.intercept_list : x.conn = c /\ x.intercept = InterceptOf(c)
  BY <1>8, ServingConn DEF Survives
<1> QED BY <1>2, <1>5, <1>9

\* TS_EVENT_NET_CONNECT: the request is added to its transaction.
LEMMA NetConnectSafe ==
  ASSUME Survives, NEW c \in Conns, NetConnect(c)
  PROVE  Safe(server', input', {})
<1> DEFINE h == server
           k == Established(h.conn[c])
           l == InUse(k, InterceptOf(c))
           f == [h EXCEPT !.phpConnCount = @ + 1, !.conn[c] = Established(@)]
           g == [f EXCEPT !.icept[InterceptOf(c)] = Attached(@),
                          !.conn[c] = InUse(@, InterceptOf(c))]
<1>1. Core(h, {}) /\ h \in Heap /\ h.conn[c] \in Connection /\ Safe(h, input, {})
  BY DEF Survives, Inv, Core, Heap
<1>2. /\ h.conn[c].dialing /\ input' = input
      /\ server' = IF InterceptOf(c) = NULL THEN f
                   ELSE createFCGIClient(f, c, InterceptOf(c))
  BY DEF NetConnect
<1>3. PICK e \in h.intercept_list : e.conn = c /\ InterceptOf(c) = e.intercept
  BY <1>2, DialledEntry
<1> DEFINE i == e.intercept
           p == Attached(h.icept[i])
<1>4. /\ i \in Intercepts /\ i # NULL /\ c \notin Idle(h)
      /\ h.conn[c].req_count = 0 /\ h.icept[i].plugins = 0
      /\ i \notin Queued(h) /\ input[i] # "new"
  <2>1. i \in Intercepts /\ i # NULL
    BY <1>1, <1>3, NullAssumption DEF Heap, Entry
  <2>2. i \in MappedIntercepts(h)
    BY <1>3 DEF MappedIntercepts
  <2>3. i \notin Queued(h) /\ input[i] # "new"
    BY <1>1, <2>2 DEF Core, QueueInv, Survives, Inv, Accepted
  <2> QED BY <1>2, <1>3, <2>1, <2>3, DialledEntry DEF IsDialled
<1>5. server' = g
  <2>1. f.conn[c].state = "READY"
    BY <1>1 DEF Established, Heap, Connection
  <2> QED BY <1>2, <1>3, <1>4, <2>1 DEF createFCGIClient
<1>6. /\ l.vc /\ ~l.dialing /\ l.state = "INUSE" /\ l.fcgi = i /\ l.req_count = 1
  BY <1>1, <1>3, <1>4 DEF InUse, Established, Connection
<1>7. /\ p.plugins = 1 /\ p.alive = h.icept[i].alive
  <2>1. h.icept[i] \in Intercept
    BY <1>1, <1>4 DEF Heap
  <2> QED BY <1>4, <2>1 DEF Attached, Intercept
<1> HIDE DEF k, l, p, i
<1>8. /\ \A d \in Conns : server'.conn[d] = IF d = c THEN l ELSE h.conn[d]
      /\ \A j \in Intercepts : server'.icept[j] = IF j = i THEN p ELSE h.icept[j]
      /\ server'.available = h.available /\ server'.pending = h.pending
      /\ server'.intercept_list = h.intercept_list /\ server'.crashed = h.crashed
  <2>1. /\ \A d \in Conns : f.conn[d] = IF d = c THEN k ELSE h.conn[d]
        /\ DOMAIN f.conn = Conns
        /\ f.icept = h.icept /\ f.available = h.available /\ f.pending = h.pending
        /\ f.intercept_list = h.intercept_list /\ f.crashed = h.crashed
        /\ DOMAIN f = DOMAIN h
    BY <1>1 DEF Heap, k
  <2> HIDE DEF f
  <2> QED BY <1>1, <1>3, <1>4, <1>5, <2>1 DEF Heap, l, p, i
<1>9. /\ Idle(server') = Idle(h) /\ Queued(server') = Queued(h)
      /\ Idle(h) \subseteq Conns /\ Queued(h) \subseteq Intercepts
      /\ \A x \in h.intercept_list : x.conn \in Conns /\ x.intercept \in Intercepts
  BY <1>1, <1>8 DEF Idle, Queued, Elements, Heap, Entry
<1>10. \A x \in server'.intercept_list : x.conn \in {} \/ Placed(server', x)
  <2>1. \A x \in h.intercept_list : x.conn = c <=> x.intercept = i
    BY <1>1, <1>3 DEF Core, MapInv, Heap, Entry, i
  <2>2. \A x \in h.intercept_list : x.conn = c => Placed(server', x)
    BY <1>4, <1>6, <1>7, <1>8, <2>1 DEF Placed, IsServed
  <2>3. \A x \in h.intercept_list : x.conn # c => Placed(server', x)
    BY <1>1, <1>8, <1>9, <2>1 DEF Safe, Placed
  <2> QED BY <1>8, <2>2, <2>3
<1>11. \A d \in Idle(server') : IsReady(server'.conn[d])
  BY <1>1, <1>4, <1>8, <1>9 DEF Safe
<1>12. \A d \in Conns : server'.conn[d].req_count <= Limit
  BY <1>1, <1>6, <1>8, LimitType DEF Safe
<1>13. \A j \in Intercepts : Once(server'.icept[j], input[j])
  <2>1. Once(p, input[i])
    BY <1>1, <1>4, <1>7 DEF Safe, Once
  <2> QED BY <1>1, <1>8, <2>1 DEF Safe
<1>14. \A j \in Queued(server') :
         /\ server'.icept[j].alive /\ server'.icept[j].plugins = 0
         /\ input[j] # "new"
  BY <1>1, <1>4, <1>8, <1>9 DEF Safe
<1>15. ~server'.crashed
  BY <1>1, <1>8 DEF Safe
<1>16. Safe(server', input, {})
  BY <1>10, <1>11, <1>12, <1>13, <1>14, <1>15 DEF Safe
<1> QED BY <1>2, <1>16

\* TS_EVENT_NET_CONNECT_FAILED: the request is connected anew.
LEMMA NetConnectFailedSafe ==
  ASSUME Survives, NEW c \in Conns, NetConnectFailed(c)
  PROVE  Safe(server', input', {})
<1> DEFINE h == server
           k == Refused(h.conn[c])
           n == h.phpConnCount + 1
           f == [h EXCEPT !.phpConnCount = n, !.conn[c] = k]
<1>1. /\ Inv(h, input) /\ h \in Heap /\ h.phpConnCount \in Int
      /\ h.conn[c] \in Connection /\ Safe(h, input, {})
  BY DEF Survives, Inv, Core, Heap
<1>2. /\ h.conn[c].dialing /\ input' = input
      /\ server' = connectionClosed(reConnect(f, h.conn[c].requestId), c)
  BY DEF NetConnectFailed
<1>3. /\ c \notin Idle(h)
      /\ \A e \in h.intercept_list : e.conn = c =>
           h.conn[c].req_count = 0 /\ h.icept[e.intercept].plugins = 0
      /\ \E e \in h.intercept_list : e.conn = c
  BY <1>2, DialledEntry DEF IsDialled
<1>4. /\ k \in Connection /\ k.requestId = h.conn[c].requestId
      /\ ~k.dialing /\ k.req_count <= Limit
  <2>1. k \in Connection /\ k.requestId = h.conn[c].requestId
    BY <1>1, ConnectionSetters, ConnectionFrame
  <2>2. h.conn[c].req_count <= Limit
    BY <1>1 DEF Safe
  <2> QED BY <1>1, <2>1, <2>2 DEF Refused, Connection
<1>5. n \in Int
  BY <1>1
<1> HIDE DEF k, n
<1>6. f \in Heap /\ SameCore(h, f)
  BY <1>1, <1>4, <1>5 DEF Heap, SameCore
<1>7. /\ f.conn = [h.conn EXCEPT ![c] = k] /\ f.icept = h.icept
      /\ SameLists(h, f) /\ f.crashed = h.crashed /\ f.conn[c] = k
      /\ f.intercept_list = h.intercept_list /\ Idle(f) = Idle(h)
  BY <1>1 DEF Heap, SameLists, SamePool, Idle
<1> HIDE DEF f
<1>8. Safe(f, input, {c})
  <2>1. \A j \in Intercepts : SamePast(h.icept[j], f.icept[j])
    BY <1>7 DEF SamePast
  <2>2. ~f.crashed /\ c \in Conns \ Idle(h)
    BY <1>1, <1>3, <1>7 DEF Safe
  <2>3. Safe(f, input, {} \cup {c})
    BY <1>1, <1>4, <1>7, <2>1, <2>2, SafeFree
  <2>4. {} \cup {c} = {c}
    OBVIOUS
  <2> QED BY <2>3, <2>4
<1>9. Inv(f, input)
  BY <1>1, <1>6, KeptCore
<1>10. /\ ~f.conn[c].dialing /\ c \notin Idle(f)
       /\ f.conn[c].requestId = h.conn[c].requestId
       /\ \A e \in f.intercept_list : e.conn = c => f.icept[e.intercept].plugins = 0
  BY <1>3, <1>4, <1>7
<1>11. Safe(connectionClosed(reConnect(f, f.conn[c].requestId), c), input, {})
  BY <1>8, <1>9, <1>10, SafeRetry
<1> QED BY <1>2, <1>10, <1>11 DEF f, k, n

\* The request that a connection which reads or writes serves.
LEMMA UpEntry ==
  ASSUME Survives, NEW c \in Conns,
         server.conn[c].readOpen \/ server.conn[c].writeOpen
  PROVE  /\ server.conn[c].vc /\ ~server.conn[c].dialing
         /\ \A e \in server.intercept_list : e.conn = c =>
              IsServed(server.conn[c], server.icept[e.intercept])
<1>1. Life(server, {}, 0) /\ Safe(server, input, {})
  BY DEF Survives
<1>2. server.conn[c].vc
  BY <1>1 DEF Life, Closed
<1>3. c \in server.connections
  BY <1>1, <1>2, LifeObjects DEF Life
<1>4. ~server.conn[c].dialing
  BY <1>1, <1>2, <1>3 DEF Life
<1>5. \A e \in server.intercept_list : e.conn = c =>
        IsServed(server.conn[c], server.icept[e.intercept])
  BY <1>1, <1>4 DEF Safe, Placed, IsDialled
<1> QED BY <1>2, <1>4, <1>5

\* The response on connection c ended.
Ended(h, c) == [h EXCEPT !.conn[c] = setState(@, "COMPLETE")]

\* interceptTransferData finds the FastCGI request of the connection.
LEMMA SafeTransfer ==
  ASSUME NEW h \in Heap, NEW in, Safe(h, in, {}), NEW c \in Conns \ Idle(h),
         h.conn[c].fcgi # NULL, NEW i \in Intercepts,
         NEW cut \in 1 .. Len(h.conn[c].readBuf)
  PROVE  LET g == interceptTransferData(h, c, i, cut).heap
             x == Ended(g, c)
         IN  /\ Safe(g, in, {}) /\ Safe(x, in, {c})
             /\ x.conn[c].vc = h.conn[c].vc /\ x.conn[c].dialing = h.conn[c].dialing
             /\ x.intercept_list = h.intercept_list
<1> DEFINE g == interceptTransferData(h, c, i, cut).heap
           k == [h.conn[c] EXCEPT !.readBuf = <<>>]
           l == setState(k, "COMPLETE")
           x == Ended(g, c)
<1>1. /\ Alike(h.conn[c], k) /\ l.req_count = h.conn[c].req_count
      /\ l.vc = h.conn[c].vc /\ l.dialing = h.conn[c].dialing
  BY DEF Heap, setState, Connection, Alike
<1>2. /\ g.conn = [h.conn EXCEPT ![c] = k] /\ SameLists(h, g)
      /\ ~g.crashed /\ DOMAIN g = DOMAIN h
      /\ \A j \in Intercepts : SamePast(h.icept[j], g.icept[j])
  <2> HIDE DEF k
  <2>1. ~h.crashed
    BY DEF Safe
  <2>2. /\ interceptTransferData(h, c, i, cut).heap.conn = [h.conn EXCEPT ![c] = k]
        /\ SameLists(h, interceptTransferData(h, c, i, cut).heap)
        /\ ~interceptTransferData(h, c, i, cut).heap.crashed
        /\ DOMAIN interceptTransferData(h, c, i, cut).heap = DOMAIN h
    BY <2>1 DEF interceptTransferData, Heap, SameLists, SamePool, k
  <2>3. \E output : interceptTransferData(h, c, i, cut).heap.icept =
                      [h.icept EXCEPT ![i] = Produced(@, output)]
    BY DEF interceptTransferData, Heap
  <2>4. \A output : SamePast(h.icept[i], Produced(h.icept[i], output))
    BY DEF Produced, SamePast, Heap, Intercept
  <2>5. \A j \in Intercepts :
          SamePast(h.icept[j], interceptTransferData(h, c, i, cut).heap.icept[j])
    <3>1. PICK output : interceptTransferData(h, c, i, cut).heap.icept =
                          [h.icept EXCEPT ![i] = Produced(@, output)]
      BY <2>3
    <3>2. \A j \in Intercepts : interceptTransferData(h, c, i, cut).heap.icept[j] =
            IF j = i THEN Produced(h.icept[i], output) ELSE h.icept[j]
      BY <3>1 DEF Heap
    <3> QED BY <2>4, <3>2 DEF SamePast
  <2> QED BY <2>2, <2>5
<1> HIDE DEF g
<1>3. /\ x.conn = [h.conn EXCEPT ![c] = l] /\ x.icept = g.icept
      /\ SameLists(h, x) /\ x.crashed = g.crashed
      /\ x.intercept_list = h.intercept_list /\ x.conn[c] = l
  <2> HIDE DEF k
  <2>1. g.conn[c] = k /\ c \in DOMAIN h.conn
    BY <1>2 DEF Heap
  <2> QED BY <1>2, <2>1 DEF Ended, Heap, SameLists, SamePool
<1> HIDE DEF x, k, l
<1>4. Safe(g, in, {})
  BY <1>1, <1>2, SafeAlike
<1>5. Safe(x, in, {c})
  <2>1. l.req_count <= Limit
    BY <1>1 DEF Safe
  <2>2. Safe(x, in, {} \cup {c})
    BY <1>2, <1>3, <2>1, SafeFree
  <2>3. {} \cup {c} = {c}
    OBVIOUS
  <2> QED BY <2>2, <2>3
<1> QED BY <1>1, <1>3, <1>4, <1>5 DEF g, x

\* TS_EVENT_VCONN_READ_READY.
LEMMA ReadReadySafe ==
  ASSUME Survives, NEW c \in Conns, ReadReady(c)
  PROVE  Safe(server', input', {})
<1> DEFINE k == Drained(server.conn[c])
           f == [server EXCEPT !.conn[c] = Drained(@)]
           i == InterceptOf(c)
           buf == server.conn[c].readBuf
<1>1. /\ Inv(server, input) /\ Core(server, {}) /\ server \in Heap
      /\ server.conn[c] \in Connection /\ Safe(server, input, {})
  BY DEF Survives, Inv, Core, Heap
<1>2. server.conn[c].vc /\ ~server.conn[c].dialing
      /\ \A e \in server.intercept_list : e.conn = c =>
           IsServed(server.conn[c], server.icept[e.intercept])
  BY UpEntry DEF ReadReady
<1>3. /\ Core(f, {}) /\ f \in Heap /\ SameCore(server, f)
      /\ f.conn[c] = k /\ k.readBuf = buf /\ Alike(server.conn[c], k)
      /\ f.conn = [server.conn EXCEPT ![c] = k] /\ f.icept = server.icept
      /\ f.crashed = server.crashed
  <2>1. k \in Connection /\ k.requestId = server.conn[c].requestId /\ k.readBuf = buf
        /\ Alike(server.conn[c], k)
    <3>1. k \in Connection /\ k.requestId = server.conn[c].requestId
      BY <1>1, ConnectionSetters, ConnectionFrame
    <3> QED BY <1>1, <3>1 DEF Drained, Connection, Alike
  <2>2. f = [server EXCEPT !.conn[c] = k]
    OBVIOUS
  <2> HIDE DEF k
  <2>3. f \in Heap /\ SameCore(server, f)
    BY <1>1, <2>1, <2>2, SetConn
  <2>4. /\ f.conn[c] = k /\ f.conn = [server.conn EXCEPT ![c] = k]
        /\ f.icept = server.icept /\ f.crashed = server.crashed
    BY <1>1 DEF Heap, k
  <2> HIDE DEF f
  <2> QED BY <1>1, <2>1, <2>3, <2>4, CoreFrame
<1>4. /\ input' = input
      /\ \/ server' = f
         \/ /\ i # NULL
            /\ \E cut \in 1 .. Len(buf) :
                 LET t == interceptTransferData(f, c, i, cut)
                 IN  server' =
                       IF t.responseStatus
                       THEN setResponseOutputComplete(
                              [t.heap EXCEPT !.conn[c] = setState(@, "COMPLETE")], i)
                       ELSE t.heap
  BY DEF ReadReady
<1>5. i # NULL => /\ i \in Intercepts /\ c \notin Idle(server)
                  /\ \E e \in server.intercept_list : e.conn = c /\ e.intercept = i
  BY <1>1, ServingConn
<1> HIDE DEF f, i, k
<1>6. Safe(f, input, {})
  <2>1. SameLists(server, f)
    BY <1>3 DEF SameCore, SameLists, SamePool
  <2>2. \A j \in Intercepts : SamePast(server.icept[j], f.icept[j])
    BY <1>3 DEF SamePast
  <2>3. ~f.crashed
    BY <1>1, <1>3 DEF Safe
  <2> QED BY <1>1, <1>3, <2>1, <2>2, <2>3, SafeAlike
<1>7. ASSUME i # NULL, NEW cut \in 1 .. Len(buf),
             LET t == interceptTransferData(f, c, i, cut)
             IN  server' =
                   IF t.responseStatus
                   THEN setResponseOutputComplete(
                          [t.heap EXCEPT !.conn[c] = setState(@, "COMPLETE")], i)
                   ELSE t.heap
      PROVE  Safe(server', input, {})
  <2> DEFINE g == interceptTransferData(f, c, i, cut).heap
             x == Ended(g, c)
             y == setState(g.conn[c], "COMPLETE")
  <2>1. server' = g \/ server' = setResponseOutputComplete(x, i)
    BY <1>7 DEF Ended
  <2>2. PICK e \in server.intercept_list : e.conn = c /\ e.intercept = i
    BY <1>5, <1>7
  <2>3. i \in Intercepts /\ c \notin Idle(f) /\ e \in f.intercept_list
    BY <1>3, <1>5, <1>7, Frame DEF SameCore
  <2>4. f.conn[c].fcgi # NULL /\ f.conn[c].vc /\ ~f.conn[c].dialing
    BY <1>2, <1>3, <2>2 DEF IsServed, Alike
  <2>5. /\ Safe(g, input, {}) /\ Safe(x, input, {c})
        /\ x.conn[c].vc = f.conn[c].vc /\ x.conn[c].dialing = f.conn[c].dialing
        /\ x.intercept_list = f.intercept_list
    <3>1. f \in Heap /\ c \in Conns \ Idle(f)
      BY <1>3, <2>3
    <3>2. cut \in 1 .. Len(f.conn[c].readBuf)
      BY <1>3
    <3> QED BY <1>6, <2>3, <2>4, <3>1, <3>2, SafeTransfer
  <2>6. g \in Heap /\ SameCore(f, g)
    BY <1>3, <2>3, TransferData
  <2> HIDE DEF g
  <2>7. y \in Connection /\ y.requestId = g.conn[c].requestId
    <3>1. g.conn[c] \in Connection /\ "COMPLETE" \in State
      BY <2>6 DEF Heap, State
    <3> QED BY <3>1, ConnectionSetters, ConnectionFrame
  <2>8. x = [g EXCEPT !.conn[c] = y]
    BY DEF Ended
  <2> HIDE DEF x, y
  <2>9. x \in Heap /\ SameCore(g, x)
    BY <2>6, <2>7, <2>8, SetConn
  <2>10. SameCore(f, x)
    BY <2>6, <2>9, SameCoreTransitive
  <2>11. Core(x, {})
    BY <1>3, <2>9, <2>10, CoreFrame
  <2>12. /\ e \in x.intercept_list /\ Safe(x, input, {e.conn})
         /\ x.conn[e.conn].vc /\ ~x.conn[e.conn].dialing
    BY <2>2, <2>3, <2>4, <2>5
  <2>13. Safe(setResponseOutputComplete(x, e.intercept), input, {})
    BY <2>11, <2>12, SafeComplete
  <2> QED BY <2>1, <2>2, <2>5, <2>13
<1> QED BY <1>4, <1>6, <1>7

\* TS_EVENT_VCONN_WRITE_READY.
LEMMA WriteReadySafe ==
  ASSUME Survives, NEW c \in Conns, WriteReady(c)
  PROVE  Safe(server', input', {})
<1> DEFINE k == Flushed(server.conn[c])
           l == [k EXCEPT !.readOpen = TRUE]
           f == [server EXCEPT !.conn[c] = Flushed(@)]
<1>1. server \in Heap /\ server.conn[c] \in Connection /\ Safe(server, input, {})
  BY DEF Survives, Inv, Core, Heap
<1>2. Alike(server.conn[c], k) /\ Alike(server.conn[c], l)
  BY <1>1 DEF Flushed, Connection, Alike
<1> HIDE DEF k
<1>3. /\ server'.conn = [server.conn EXCEPT ![c] = k]
         \/ server'.conn = [server.conn EXCEPT ![c] = l]
      /\ SameLists(server, server') /\ server'.icept = server.icept
      /\ server'.crashed = server.crashed /\ input' = input
  <2>1. /\ f.conn = [server.conn EXCEPT ![c] = k] /\ SameLists(server, f)
        /\ f.icept = server.icept /\ f.crashed = server.crashed
        /\ DOMAIN f = DOMAIN server
    BY <1>1 DEF Heap, SameLists, SamePool, k
  <2> HIDE DEF f
  <2>2. f.conn[c] = k /\ c \in DOMAIN server.conn
    BY <1>1, <2>1 DEF Heap
  <2>3. /\ read(f, c).conn = [server.conn EXCEPT ![c] = l]
        /\ SameLists(server, read(f, c)) /\ read(f, c).icept = server.icept
        /\ read(f, c).crashed = server.crashed
    BY <1>1, <2>1, <2>2 DEF read, Heap, SameLists, SamePool
  <2>4. (server' = f \/ server' = read(f, c)) /\ input' = input
    BY DEF WriteReady, f
  <2> QED BY <2>1, <2>3, <2>4
<1> HIDE DEF l
<1>4. \A j \in Intercepts : SamePast(server.icept[j], server'.icept[j])
  BY <1>3 DEF SamePast
<1>5. ~server'.crashed
  BY <1>1, <1>3 DEF Safe
<1>6. Safe(server', input, {})
  BY <1>1, <1>2, <1>3, <1>4, <1>5, SafeAlike
<1> QED BY <1>3, <1>6

\* TS_EVENT_VCONN_EOS and TS_EVENT_ERROR: no request is connected anew, and a
\* transaction fails only where it may.
LEMMA EosSafe ==
  ASSUME Survives, "eos_request" \notin Faults, NEW c \in Conns, Eos(c) \/ Error(c)
  PROVE  Safe(server', input', {})
<1> DEFINE i == InterceptOf(c)
           f == transactionError(server, i)
<1>1. /\ Inv(server, input) /\ Core(server, {}) /\ server \in Heap
      /\ Safe(server, input, {})
  BY DEF Survives, Inv, Core
<1>2. ~server.conn[c].dialing
  BY UpEntry DEF Eos, Error
<1>3. /\ input' = input
      /\ \/ i = NULL /\ server' = connectionClosed(reConnect(server, server.conn[c].requestId), c)
         \/ server' = connectionClosed(server, c)
         \/ i # NULL /\ server' = connectionClosed(f, c)
  BY DEF Eos, Error, EosKind
<1>4. Safe(connectionClosed(server, c), input, {})
  <2>1. Safe(server, input, {c})
    BY <1>1 DEF Safe
  <2> QED BY <1>1, <1>2, <2>1, SafeClosed
<1>5. CASE i = NULL /\ server' = connectionClosed(reConnect(server, server.conn[c].requestId), c)
  <2>1. reConnect(server, server.conn[c].requestId) = server
    BY <1>5 DEF reConnect, InterceptOf
  <2> QED BY <1>3, <1>4, <1>5, <2>1
<1>6. CASE i # NULL /\ server' = connectionClosed(f, c)
  <2>1. i \in Intercepts
    BY <1>1, <1>6, ServingConn
  <2>2. f \in Heap /\ SameCore(server, f) /\ f.conn = server.conn
    BY <1>1, <2>1, TransactionError DEF transactionError, Heap
  <2>3. Safe(f, input, {})
    BY <1>1, <1>6, <2>1, SafeFailed
  <2>4. Core(f, {})
    BY <1>1, <2>2, CoreFrame
  <2>5. ~f.conn[c].dialing
    BY <1>2, <2>2
  <2> HIDE DEF f
  <2>6. Safe(f, input, {c})
    BY <2>3 DEF Safe
  <2>7. Safe(connectionClosed(f, c), input, {})
    BY <2>4, <2>5, <2>6, SafeClosed
  <2> QED BY <1>3, <1>6, <2>7
<1> QED BY <1>3, <1>4, <1>5, <1>6

\* The application answers.
LEMMA AppSafe ==
  ASSUME Survives, NEW c \in Conns, NEW j \in server.conn[c].jobs,
         AppStdout(c, j) \/ AppStderr(c, j) \/ AppEnd(c, j)
  PROVE  Safe(server', input', {})
<1>1. server \in Heap /\ server.conn[c] \in Connection /\ Safe(server, input, {})
  BY DEF Survives, Inv, Core, Heap
<1>2. input' = input
  BY DEF AppStdout, AppStderr, AppEnd, AppOutput, Answer
<1>3. PICK record, left :
        server' = [server EXCEPT !.conn[c] = Answered(@, j, record, left)]
  BY Zenon DEF AppStdout, AppStderr, AppEnd, AppOutput, Answer
<1> DEFINE k == Answered(server.conn[c], j, record, left)
<1>4. Alike(server.conn[c], k)
  BY <1>1 DEF Answered, Connection, Alike
<1>5. /\ server'.conn = [server.conn EXCEPT ![c] = k] /\ SameLists(server, server')
      /\ server'.icept = server.icept /\ server'.crashed = server.crashed
  BY <1>1, <1>3 DEF Heap, SameLists, SamePool
<1> HIDE DEF k
<1>6. \A i \in Intercepts : SamePast(server.icept[i], server'.icept[i])
  BY <1>5 DEF SamePast
<1>7. ~server'.crashed
  BY <1>1, <1>5 DEF Safe
<1>8. Safe(server', input, {})
  BY <1>1, <1>4, <1>5, <1>6, <1>7, SafeAlike
<1> QED BY <1>2, <1>8

-----------------------------------------------------------------------------
(***************************************************************************)
(* NoCrash, IdleUp, AddedOnce and RequestLimit.                            *)
(***************************************************************************)

\* At first nothing is connected and no request was added.
LEMMA InitSafe == Init => Safe(server, input, {})
<1> SUFFICES ASSUME Init PROVE Safe(server, input, {})
  OBVIOUS
<1>1. /\ ~server.crashed /\ server.intercept_list = {}
      /\ server.available = <<>> /\ server.pending = <<>>
      /\ \A c \in Conns : server.conn[c].req_count = 0
      /\ \A i \in Intercepts : server.icept[i].plugins = 0
  BY DEF Init, EmptyHeap, NoConnection, NoIntercept
<1>2. Idle(server) = {} /\ Queued(server) = {}
  BY <1>1 DEF Idle, Queued, Elements
<1>3. \A i \in Intercepts : Once(server.icept[i], input[i])
  BY <1>1 DEF Once
<1> QED BY <1>1, <1>2, <1>3, LimitType DEF Safe

\* One step, by event.
LEMMA NextSafe ==
  ASSUME Survives, "eos_request" \notin Faults, [Next]_vars
  PROVE  Safe(server', input', {})
<1>1. CASE UNCHANGED vars
  <2>1. server' = server /\ input' = input
    BY <1>1 DEF vars
  <2> QED BY <2>1 DEF Survives
<1>2. ASSUME NEW i \in Intercepts, CacheLookupComplete(i)
      PROVE  Safe(server', input', {})
  BY <1>2, CacheLookupCompleteSafe
<1>3. ASSUME NEW i \in Intercepts, StreamRequest(i) \/ StreamHeader(i) \/ StreamBody(i)
      PROVE  Safe(server', input', {})
  BY <1>3, StreamSafe
<1>4. ASSUME NEW i \in Intercepts, TxnClose(i) PROVE Safe(server', input', {})
  BY <1>4, TxnCloseSafe
<1>5. ASSUME NEW c \in Conns, NetConnect(c) PROVE Safe(server', input', {})
  BY <1>5, NetConnectSafe
<1>6. ASSUME NEW c \in Conns, NetConnectFailed(c) PROVE Safe(server', input', {})
  BY <1>6, NetConnectFailedSafe
<1>7. ASSUME NEW c \in Conns, ReadReady(c) PROVE Safe(server', input', {})
  BY <1>7, ReadReadySafe
<1>8. ASSUME NEW c \in Conns, WriteReady(c) PROVE Safe(server', input', {})
  BY <1>8, WriteReadySafe
<1>9. ASSUME NEW c \in Conns, Eos(c) \/ Error(c) PROVE Safe(server', input', {})
  BY <1>9, EosSafe
<1>10. ASSUME NEW c \in Conns, NEW j \in server.conn[c].jobs,
              AppStdout(c, j) \/ AppStderr(c, j) \/ AppEnd(c, j)
       PROVE  Safe(server', input', {})
  BY <1>10, AppSafe
<1> QED BY <1>1, <1>2, <1>3, <1>4, <1>5, <1>6, <1>7, <1>8, <1>9, <1>10, Zenon DEF Next

\* Safe' of the current state is Safe of the next state.
LEMMA SafePrime == Safe(server, input, {})' <=> Safe(server', input', {})
BY DEF Safe, Idle, Queued, Placed, IsDialled, IsServed, IsReady, Once

\* The inductive invariant, when no connection is closed by the application
\* while its request is being written.
SafeInv == LifeInv /\ Safe(server, input, {})

LEMMA SafeInvariance ==
  ASSUME "eos_request" \notin Faults
  PROVE  Spec => []SafeInv
<1>1. Init => SafeInv
  BY InitInv, InvParts, InitLife, InitSafe DEF SafeInv, LifeInv
<1>2. SafeInv /\ [Next]_vars => LifeInv'
  BY NextInv, InvParts, InvPartsNext, NextLife, LifePrime DEF SafeInv, LifeInv
<1>3. SafeInv /\ [Next]_vars => Safe(server, input, {})'
  BY InvParts, NextSafe, SafePrime DEF SafeInv, LifeInv, Survives
<1>4. SafeInv /\ [Next]_vars => SafeInv'
  BY <1>2, <1>3, Zenon DEF SafeInv
<1> QED BY <1>1, <1>4, PTL DEF Spec

\* Whatever else fails, and in whatever order: as long as the application does
\* not close a connection while a request is being written, no handler follows
\* a null pointer, no intercept is used after it was deleted and none is
\* deleted twice.
THEOREM NeverCrashes ==
  ASSUME "eos_request" \notin Faults
  PROVE  Spec => []NoCrash
<1>1. SafeInv => NoCrash
  BY DEF SafeInv, Safe, NoCrash
<1> QED BY <1>1, SafeInvariance, PTL

\* getAvailableConnection: under the same condition an idle connection is
\* established: no abort gives back a connection that is still being dialled.
THEOREM IdleIsUp ==
  ASSUME "eos_request" \notin Faults
  PROVE  Spec => []IdleUp
<1>1. SafeInv => IdleUp
  BY DEF SafeInv, Safe, IsReady, IdleUp
<1> QED BY <1>1, SafeInvariance, PTL

\* createFCGIClient: under the same condition a request is added to its
\* transaction once, however often its connection is refused.
THEOREM IsAddedOnce ==
  ASSUME "eos_request" \notin Faults
  PROVE  Spec => []AddedOnce
<1>1. SafeInv => AddedOnce
  <2> SUFFICES ASSUME SafeInv, NEW i \in Intercepts
               PROVE  server.icept[i].plugins <= 1
    BY DEF AddedOnce
  <2>1. Once(server.icept[i], input[i])
    BY DEF SafeInv, Safe
  <2> QED BY <2>1 DEF Once
<1> QED BY <1>1, SafeInvariance, PTL

\* removeIntercept: under the same condition, and for a max_requests that is
\* not 0, no connection carries more than max_requests requests.
THEOREM RequestsLimited ==
  ASSUME "eos_request" \notin Faults, MaxRequests # 0
  PROVE  Spec => []RequestLimit
<1>1. SafeInv => RequestLimit
  BY DEF SafeInv, Safe, Limit, RequestLimit
<1> QED BY <1>1, SafeInvariance, PTL

-----------------------------------------------------------------------------
(***************************************************************************)
(* FailedLast. An account of each transaction: how often it was resumed    *)
(* and failed, against how often it was added.                             *)
(***************************************************************************)

\* A transaction that was failed has no request in service or in the queue, is
\* not complete and was reenabled once more than it was added; any other as
\* often as it was added.
Final(h, in) ==
  \A i \in Intercepts :
    LET p == h.icept[i]
    IN  /\ p.failed => /\ i \notin Accepted(h) /\ in[i] # "new"
                       /\ ~p.outputComplete
                       /\ p.reenabled = p.plugins + 1
        /\ ~p.failed => p.reenabled = p.plugins

\* connect.
LEMMA AccountsConnect ==
  ASSUME NEW h, NEW D, NEW i \in Intercepts, Core(h, D)
  PROVE  SameAccounts(h, connect(h, i))
<1> DEFINE g == connect(h, i)
<1>1. h \in Heap /\ h.icept[i] \in Intercept
  BY DEF Core, Heap
<1>2. \/ Queues(h, g, i)
      \/ \E c \in Conns : Dials(h, g, i, c) \/ Takes(h, g, i, c)
  BY ConnectEffect
<1> HIDE DEF g
<1>3. ASSUME Queues(h, g, i) PROVE SameAccounts(h, g)
  <2>1. g.icept = h.icept
    BY <1>3 DEF Queues
  <2> QED BY <2>1, AccountsFrame
<1>4. ASSUME NEW c \in Conns, Dials(h, g, i, c) PROVE SameAccounts(h, g)
  <2> DEFINE p == setRequestId(h.icept[i], h.nextId)
  <2>1. g.icept = [h.icept EXCEPT ![i] = p]
    BY <1>4 DEF Dials
  <2>2. SameAccount(h.icept[i], p)
    BY <1>1, AccountSetters
  <2> HIDE DEF p
  <2> QED BY <1>1, <2>1, <2>2, AccountsSet
<1>5. ASSUME NEW c \in Conns, Takes(h, g, i, c) PROVE SameAccounts(h, g)
  <2> DEFINE p == Attached(setRequestId(h.icept[i], h.nextId))
  <2>1. g.icept = [h.icept EXCEPT ![i] = p]
    BY <1>5 DEF Takes
  <2>2. SameAccount(h.icept[i], p)
    BY <1>1, AccountSetters
  <2> HIDE DEF p
  <2> QED BY <1>1, <2>1, <2>2, AccountsSet
<1> QED BY <1>2, <1>3, <1>4, <1>5 DEF g

\* reConnect and connectionClosed.
LEMMA AccountsRetry ==
  ASSUME NEW h, Core(h, {}), NEW c \in Conns
  PROVE  SameAccounts(h, connectionClosed(reConnect(h, h.conn[c].requestId), c))
<1> DEFINE r == h.conn[c].requestId
           f == erase(h, r)
           g == reConnect(h, r)
<1>1. h \in Heap
  BY DEF Core
<1>2. SameAccounts(h, g)
  <2>1. CASE ~Mapped(h, r)
    <3>1. g = h
      BY <1>1, <2>1, Lookup DEF reConnect
    <3> QED BY <3>1, AccountsFrame
  <2>2. CASE Mapped(h, r)
    <3> DEFINE e == EntryOf(h, r)
               i == e.intercept
    <3>1. e \in h.intercept_list /\ e.id = r /\ g = connect(f, i)
      BY <1>1, <2>2, Lookup DEF reConnect
    <3> HIDE DEF e, g
    <3>2. Core(erase(h, e.id), {} \cup {e.conn}) /\ i \in Intercepts
      BY <3>1, CoreErase, Zenon
    <3> HIDE DEF i
    <3>3. Core(f, {} \cup {e.conn})
      BY <3>1, <3>2
    <3>4. f.icept = h.icept
      BY <1>1 DEF erase, Heap
    <3> HIDE DEF f, r
    <3>5. SameAccounts(f, connect(f, i))
      BY <3>2, <3>3, AccountsConnect
    <3>6. SameAccounts(h, f)
      BY <3>4, AccountsFrame
    <3> QED BY <3>1, <3>5, <3>6, AccountsTransitive
  <2> QED BY <2>1, <2>2
<1>3. \E D \in SUBSET {c} : Core(g, D)
  BY CoreReConnect
<1> HIDE DEF g
<1>4. g \in Heap
  BY <1>3 DEF Core
<1>5. connectionClosed(g, c).icept = g.icept
  BY <1>4, ClosedEffect DEF Closes
<1>6. SameAccounts(g, connectionClosed(g, c))
  BY <1>5, AccountsFrame
<1>7. SameAccounts(h, connectionClosed(g, c))
  BY <1>2, <1>6, AccountsTransitive
<1> QED BY <1>7 DEF g

\* removeIntercept.
LEMMA AccountsRemove ==
  ASSUME NEW h, NEW r, Core(h, {})
  PROVE  SameAccounts(h, removeIntercept(h, r))
<1>1. CASE ~Mapped(h, r)
  BY <1>1, AccountsFrame DEF removeIntercept
<1>2. CASE Mapped(h, r)
  <2>1. PICK e \in h.intercept_list : e.id = r
    BY <1>2 DEF Mapped
  <2>2. PICK f : Frees(h, f, e)
    BY RemoveEffect
  <2> DEFINE c == e.conn
             b == GivenBack(f, c)
             i == Head(b.pending)
             d == popFromQueue(b)
  <2>3. /\ c \in Conns /\ Core(f, {c}) /\ f.icept = h.icept
        /\ Core(b, {}) /\ removeIntercept(h, r) = serveNext(b)
    BY <2>1, <2>2, RemoveEffect DEF Frees
  <2> HIDE DEF c
  <2>4. f \in Heap
    BY <2>3 DEF Core
  <2>5. b.icept = f.icept
    <3>1. connectionClosed(f, c).icept = f.icept
      BY <2>3, <2>4, ClosedEffect DEF Closes
    <3>2. reuseConnection(f, c).icept = f.icept
      BY <2>4 DEF reuseConnection, Heap
    <3> QED BY <3>1, <3>2 DEF GivenBack
  <2> HIDE DEF b
  <2>6. SameAccounts(b, serveNext(b))
    <3>1. CASE b.pending = <<>>
      BY <3>1, AccountsFrame DEF serveNext
    <3>2. CASE b.pending # <<>>
      <4>1. i \in Intercepts /\ Core(d, {}) /\ d.icept = b.icept
        BY <2>3, <3>2, CorePop
      <4>2. serveNext(b) = IF b.icept[i].alive THEN connect(d, i)
                           ELSE [d EXCEPT !.crashed = TRUE]
        BY <3>2 DEF serveNext
      <4> HIDE DEF d, i
      <4>3. SameAccounts(d, connect(d, i))
        BY <4>1, AccountsConnect
      <4>4. [d EXCEPT !.crashed = TRUE].icept = d.icept
        BY <4>1 DEF Core, Heap
      <4>5. SameAccounts(d, [d EXCEPT !.crashed = TRUE])
        BY <4>4, AccountsFrame
      <4>6. SameAccounts(b, d)
        BY <4>1, AccountsFrame
      <4> QED BY <4>2, <4>3, <4>5, <4>6, AccountsTransitive
    <3> QED BY <3>1, <3>2
  <2>7. SameAccounts(h, b)
    BY <2>3, <2>5, AccountsFrame
  <2> QED BY <2>3, <2>6, <2>7, AccountsTransitive
<1> QED BY <1>1, <1>2

\* A step that fails no transaction, takes only new requests and completes only
\* requests it has accepted keeps the invariant.
LEMMA FinalKept ==
  ASSUME NEW h \in Heap, NEW in, Final(h, in), NEW g \in Heap, NEW in2,
         SameAccounts(h, g),
         \A j \in Accepted(g) : j \in Accepted(h) \/ in[j] = "new",
         \A j \in Intercepts :
           j \in Accepted(h) \/ g.icept[j].outputComplete = h.icept[j].outputComplete,
         \A j \in Intercepts : in2[j] = "new" => in[j] = "new"
  PROVE  Final(g, in2)
<1> SUFFICES ASSUME NEW i \in Intercepts
             PROVE  LET q == g.icept[i]
                    IN  /\ q.failed => /\ i \notin Accepted(g) /\ in2[i] # "new"
                                       /\ ~q.outputComplete
                                       /\ q.reenabled = q.plugins + 1
                        /\ ~q.failed => q.reenabled = q.plugins
  BY DEF Final
<1> DEFINE p == h.icept[i]
           q == g.icept[i]
<1>1. /\ p.reenabled \in Nat /\ p.plugins \in Nat
      /\ q.reenabled \in Nat /\ q.plugins \in Nat
  BY DEF Heap, Intercept
<1>2. q.failed = p.failed /\ q.reenabled - q.plugins = p.reenabled - p.plugins
  BY DEF SameAccounts, SameAccount
<1>3. /\ p.failed => /\ i \notin Accepted(h) /\ in[i] # "new"
                     /\ ~p.outputComplete
                     /\ p.reenabled = p.plugins + 1
      /\ ~p.failed => p.reenabled = p.plugins
  BY DEF Final
<1>4. i \in Accepted(h) \/ q.outputComplete = p.outputComplete
  OBVIOUS
<1>5. i \in Accepted(g) => i \in Accepted(h) \/ in[i] = "new"
  OBVIOUS
<1>6. in2[i] = "new" => in[i] = "new"
  OBVIOUS
<1> HIDE DEF p, q
<1>7. /\ p.failed => q.reenabled = q.plugins + 1
      /\ ~p.failed => q.reenabled = q.plugins
  BY <1>1, <1>2, <1>3
<1> QED BY <1>2, <1>3, <1>4, <1>5, <1>6, <1>7 DEF q

\* A step that leaves the core and the accounts alone keeps it.
LEMMA FinalFrame ==
  ASSUME NEW h \in Heap, NEW in, Final(h, in), NEW g \in Heap,
         SameCore(h, g), SameAccounts(h, g)
  PROVE  Final(g, in)
<1>1. Accepted(g) = Accepted(h) /\ SameRequests(h, g)
  BY Frame
<1>2. \A j \in Intercepts : g.icept[j].outputComplete = h.icept[j].outputComplete
  BY <1>1 DEF SameRequests
<1> QED BY <1>1, <1>2, FinalKept

-----------------------------------------------------------------------------
(***************************************************************************)
(* The same, event by event.                                               *)
(***************************************************************************)

\* A new request was not failed before.
LEMMA CacheLookupCompleteFinal ==
  ASSUME Inv(server, input), Final(server, input), NEW i \in Intercepts,
         CacheLookupComplete(i)
  PROVE  Final(server', input')
<1> DEFINE p == Constructed(server.icept[i])
           f == [server EXCEPT !.icept[i] = Constructed(@)]
           g == connect(f, i)
<1>1. /\ Core(server, {}) /\ server \in Heap /\ server.icept[i] \in Intercept
      /\ input \in [Intercepts -> Input]
  BY DEF Inv, Core, Heap
<1>2. /\ p \in Intercept /\ p.requestId = server.icept[i].requestId /\ p.alive
      /\ p.outputComplete = server.icept[i].outputComplete
      /\ SameAccount(server.icept[i], p)
  BY <1>1, InterceptSetters, InterceptFrame, AccountSetters
<1>3. f = [server EXCEPT !.icept[i] = p]
  OBVIOUS
<1>4. server' = g /\ input[i] = "new" /\ input' = [input EXCEPT ![i] = "none"]
  BY DEF CacheLookupComplete
<1> HIDE DEF p, f, g
<1>5. /\ Core(f, {})
      /\ Accepted(f) = Accepted(server)
      /\ f.icept = [server.icept EXCEPT ![i] = p]
  BY <1>1, <1>2, <1>3, CoreIntercept
<1>6. SameAccounts(server, f)
  BY <1>1, <1>2, <1>5, AccountsSet
<1>7. /\ f.icept[i].alive
      /\ \A j \in Intercepts : f.icept[j].outputComplete = server.icept[j].outputComplete
  BY <1>1, <1>2, <1>5 DEF Heap
<1>8. i \notin Accepted(f)
  BY <1>4, <1>5 DEF Inv
<1>9. Core(g, {}) /\ Accepted(g) \subseteq Accepted(f) \cup {i} /\ SameRequests(f, g)
  BY <1>5, <1>7, <1>8, CoreConnect DEF g
<1>10. SameAccounts(f, g)
  BY <1>5, AccountsConnect DEF g
<1>11. SameAccounts(server, g)
  BY <1>6, <1>10, AccountsTransitive
<1>12. g \in Heap
  BY <1>9 DEF Core
<1>13. \A j \in Accepted(g) : j \in Accepted(server) \/ input[j] = "new"
  BY <1>4, <1>5, <1>9
<1>14. \A j \in Intercepts : g.icept[j].outputComplete = server.icept[j].outputComplete
  BY <1>7, <1>9 DEF SameRequests
<1>15. \A j \in Intercepts : input'[j] = "new" => input[j] = "new"
  BY <1>1, <1>4
<1>16. Final(g, input')
  BY <1>1, <1>11, <1>12, <1>13, <1>14, <1>15, FinalKept
<1> QED BY <1>4, <1>16

\* The write functions of Server assign to no intercept.
LEMMA WriteIcept ==
  ASSUME NEW h \in Heap, NEW r
  PROVE  /\ writeRequestHeader(h, r).icept = h.icept
         /\ writeRequestBody(h, r).icept = h.icept
         /\ \A post : writeRequestBodyComplete(h, r, post).icept = h.icept
<1>1. ASSUME NEW c, NEW records, NEW endflag
      PROVE  phpWrite(h, c, records, endflag).icept = h.icept
  BY DEF phpWrite, Heap
<1>2. [h EXCEPT !.crashed = TRUE].icept = h.icept
  BY DEF Heap
<1>3. ASSUME NEW types, NEW endflag
      PROVE  writeRecords(h, r, types, endflag).icept = h.icept
  BY <1>1, <1>2 DEF writeRecords
<1> QED BY <1>3 DEF writeRequestHeader, writeRequestBody, writeRequestBodyComplete

\* A request streams in.
LEMMA StreamFinal ==
  ASSUME Inv(server, input), Final(server, input), NEW i \in Intercepts,
         StreamRequest(i) \/ StreamHeader(i) \/ StreamBody(i)
  PROVE  Final(server', input')
<1> DEFINE r == server.icept[i].requestId
           hd == writeRequestHeader(server, r)
           bd == writeRequestBody(server, r)
<1>1. server \in Heap /\ input \in [Intercepts -> Input]
  BY DEF Inv, Core
<1>2. /\ server' \in Heap /\ SameCore(server, server')
      /\ \E x \in Input \ {"new"} : input' = [input EXCEPT ![i] = x]
  BY <1>1, StreamFrame
<1>3. /\ hd \in Heap /\ hd.icept = server.icept
      /\ bd \in Heap /\ bd.icept = server.icept
  BY <1>1, WriteRequest, WriteIcept
<1>4. \/ server' = hd \/ server' = bd
      \/ server' = writeRequestBodyComplete(hd, r, FALSE)
      \/ server' = writeRequestBodyComplete(bd, r, TRUE)
  BY DEF StreamRequest, StreamHeader, StreamBody
<1> HIDE DEF r, hd, bd
<1>5. server'.icept = server.icept
  <2>1. /\ \A post : writeRequestBodyComplete(hd, r, post).icept = hd.icept
        /\ \A post : writeRequestBodyComplete(bd, r, post).icept = bd.icept
    BY <1>3, WriteIcept
  <2> QED BY <1>3, <1>4, <2>1
<1>6. SameAccounts(server, server')
  BY <1>5, AccountsFrame
<1>7. Accepted(server') = Accepted(server) /\ SameRequests(server, server')
  BY <1>2, Frame
<1>8. \A j \in Intercepts :
        server'.icept[j].outputComplete = server.icept[j].outputComplete
  BY <1>7 DEF SameRequests
<1>9. \A j \in Intercepts : input'[j] = "new" => input[j] = "new"
  BY <1>1, <1>2
<1>10. \A j \in Accepted(server') : j \in Accepted(server) \/ input[j] = "new"
  BY <1>7
<1>11. server \in Heap /\ server' \in Heap
  BY <1>1, <1>2
<1>12. \A j \in Intercepts :
         \/ j \in Accepted(server)
         \/ server'.icept[j].outputComplete = server.icept[j].outputComplete
  BY <1>8
<1> QED BY <1>6, <1>9, <1>10, <1>11, <1>12, FinalKept

\* A transaction ends.
LEMMA TxnCloseFinal ==
  ASSUME Inv(server, input), Final(server, input), NEW i \in Intercepts, TxnClose(i)
  PROVE  Final(server', input')
<1> DEFINE r == server.icept[i].requestId
           f == IF server.icept[i].outputComplete THEN server
                ELSE removeIntercept(server, r)
           p == Destroyed(f.icept[i])
           g == destroyIntercept(server, i)
           b == g.crashed \/ server.icept[i].plugins > 1
<1>1. Core(server, {}) /\ server \in Heap
  BY DEF Inv, Core
<1>2. /\ Core(f, {}) /\ Accepted(f) \subseteq Accepted(server)
      /\ SameRequests(server, f) /\ SameAccounts(server, f)
  <2>1. CASE server.icept[i].outputComplete
    <3>1. f = server
      BY <2>1
    <3> QED BY <1>1, <3>1, AccountsFrame DEF SameRequests
  <2>2. CASE ~server.icept[i].outputComplete
    <3>1. f = removeIntercept(server, r)
      BY <2>2
    <3> HIDE DEF f, r
    <3> QED BY <1>1, <3>1, CoreRemove, AccountsRemove
  <2> QED BY <2>1, <2>2
<1>3. g = [f EXCEPT !.icept[i] = p] /\ server' = [g EXCEPT !.crashed = b] /\ input' = input
  BY DEF destroyIntercept, TxnClose
<1> HIDE DEF f, g, b
<1>4. f \in Heap /\ f.icept[i] \in Intercept
  BY <1>2 DEF Core, Heap
<1>5. SameAccount(f.icept[i], p) /\ p.outputComplete = f.icept[i].outputComplete
  BY <1>4, AccountSetters, InterceptFrame
<1> HIDE DEF p
<1>6. /\ server'.icept = [f.icept EXCEPT ![i] = p]
      /\ server'.pending = f.pending /\ server'.intercept_list = f.intercept_list
  <2>1. /\ g.icept = [f.icept EXCEPT ![i] = p] /\ g.pending = f.pending
        /\ g.intercept_list = f.intercept_list /\ DOMAIN g = DOMAIN f
    BY <1>3, <1>4 DEF Heap
  <2> QED BY <1>3, <2>1
<1>7. SameAccounts(server, server')
  <2>1. SameAccounts(f, server')
    BY <1>4, <1>5, <1>6, AccountsSet
  <2> QED BY <1>2, <2>1, AccountsTransitive
<1>8. Accepted(server') = Accepted(f)
  BY <1>6 DEF Accepted, Queued, MappedIntercepts
<1>9. \A j \in Intercepts :
        server'.icept[j].outputComplete = server.icept[j].outputComplete
  BY <1>2, <1>4, <1>5, <1>6 DEF Heap, SameRequests
<1>10. server' \in Heap
  BY TxnCloseInv DEF Inv, Core
<1>11. \A j \in Accepted(server') : j \in Accepted(server) \/ input[j] = "new"
  BY <1>2, <1>8
<1>12. Final(server', input)
  BY <1>1, <1>7, <1>9, <1>10, <1>11, FinalKept
<1> QED BY <1>3, <1>12

\* TS_EVENT_NET_CONNECT.
LEMMA NetConnectFinal ==
  ASSUME Inv(server, input), Final(server, input), NEW c \in Conns, NetConnect(c)
  PROVE  Final(server', input')
<1> DEFINE k == Established(server.conn[c])
           n == server.phpConnCount + 1
           f == [server EXCEPT !.phpConnCount = n, !.conn[c] = k]
           i == InterceptOf(c)
<1>1. /\ server \in Heap /\ server.conn[c] \in Connection
      /\ i # NULL => i \in Intercepts
  BY InterceptOfType
<1>2. k \in Connection /\ k.requestId = server.conn[c].requestId /\ n \in Int
  <2>1. n \in Int
    BY <1>1 DEF Heap
  <2> HIDE DEF n
  <2> QED BY <1>1, <2>1, ConnectionSetters, ConnectionFrame
<1>3. /\ server' = IF i = NULL THEN f ELSE createFCGIClient(f, c, i)
      /\ input' = input
  BY DEF NetConnect
<1> HIDE DEF k, n, i
<1>4. f \in Heap /\ SameCore(server, f) /\ f.icept = server.icept
  BY <1>1, <1>2 DEF Heap, SameCore
<1> HIDE DEF f
<1>5. SameAccounts(server, f)
  BY <1>4, AccountsFrame
<1>6. Final(f, input)
  BY <1>1, <1>4, <1>5, FinalFrame
<1>7. CASE i = NULL
  BY <1>3, <1>6, <1>7
<1>8. CASE i # NULL
  <2> DEFINE g == createFCGIClient(f, c, i)
  <2>1. g \in Heap /\ SameCore(f, g)
    BY <1>1, <1>4, <1>8, CreateFCGIClient
  <2>2. SameAccounts(f, g)
    <3>1. SameAccount(f.icept[i], Attached(f.icept[i])) /\ i \in Intercepts
      BY <1>1, <1>4, <1>8, AccountSetters DEF Heap
    <3>2. g.icept = f.icept \/ g.icept = [f.icept EXCEPT ![i] = Attached(f.icept[i])]
      BY <1>4 DEF createFCGIClient, Heap
    <3> HIDE DEF g
    <3> QED BY <1>4, <3>1, <3>2, AccountsFrame, AccountsSet
  <2> HIDE DEF g
  <2>3. Final(g, input)
    BY <1>4, <1>6, <2>1, <2>2, FinalFrame
  <2>4. server' = g
    BY <1>3, <1>8 DEF g
  <2> QED BY <1>3, <2>3, <2>4
<1> QED BY <1>7, <1>8

\* The request of a connection is connected anew, then the connection closed.
LEMMA RetryFinal ==
  ASSUME NEW h, NEW in, Inv(h, in), Final(h, in), NEW c \in Conns
  PROVE  Final(connectionClosed(reConnect(h, h.conn[c].requestId), c), in)
<1> DEFINE f == reConnect(h, h.conn[c].requestId)
           g == connectionClosed(f, c)
<1>1. Core(h, {}) /\ h \in Heap
  BY DEF Inv, Core
<1>2. SameAccounts(h, g)
  BY <1>1, AccountsRetry
<1>3. /\ \E D \in SUBSET {c} : Core(f, D)
      /\ Accepted(f) \subseteq Accepted(h)
      /\ SameRequests(h, f)
  BY <1>1, CoreReConnect
<1> HIDE DEF f
<1>4. PICK D \in SUBSET {c} : Core(f, D)
  BY <1>3
<1>5. Core(g, {}) /\ Accepted(g) \subseteq Accepted(f) /\ SameRequests(f, g)
  BY <1>4, CoreClosed
<1> HIDE DEF g
<1>6. g \in Heap
  BY <1>5 DEF Core
<1>7. \A j \in Accepted(g) : j \in Accepted(h) \/ in[j] = "new"
  BY <1>3, <1>5
<1>8. \A j \in Intercepts :
        j \in Accepted(h) \/ g.icept[j].outputComplete = h.icept[j].outputComplete
  BY <1>3, <1>5 DEF SameRequests
<1>9. Final(g, in)
  BY <1>1, <1>2, <1>6, <1>7, <1>8, FinalKept
<1> QED BY <1>9 DEF f, g

\* TS_EVENT_NET_CONNECT_FAILED.
LEMMA NetConnectFailedFinal ==
  ASSUME Inv(server, input), Final(server, input), NEW c \in Conns,
         NetConnectFailed(c)
  PROVE  Final(server', input')
<1> DEFINE k == Refused(server.conn[c])
           n == server.phpConnCount + 1
           f == [server EXCEPT !.phpConnCount = n, !.conn[c] = k]
<1>1. server \in Heap /\ server.conn[c] \in Connection
  BY InterceptOfType
<1>2. k \in Connection /\ k.requestId = server.conn[c].requestId /\ n \in Int
  <2>1. n \in Int
    BY <1>1 DEF Heap
  <2> HIDE DEF n
  <2> QED BY <1>1, <2>1, ConnectionSetters, ConnectionFrame
<1>3. /\ server' = connectionClosed(reConnect(f, server.conn[c].requestId), c)
      /\ input' = input
  BY DEF NetConnectFailed
<1> HIDE DEF k, n
<1>4. /\ f \in Heap /\ SameCore(server, f) /\ f.icept = server.icept
      /\ f.conn[c].requestId = server.conn[c].requestId
  BY <1>1, <1>2 DEF Heap, SameCore
<1>5. Inv(f, input)
  BY <1>2, KeptConn
<1> HIDE DEF f
<1>6. SameAccounts(server, f)
  BY <1>4, AccountsFrame
<1>7. Final(f, input)
  BY <1>1, <1>4, <1>6, FinalFrame
<1>8. Final(connectionClosed(reConnect(f, f.conn[c].requestId), c), input)
  BY <1>5, <1>7, RetryFinal
<1> QED BY <1>3, <1>4, <1>8

\* A connection is closed and the request it serves is failed: it was not failed
\* before, and it has no connection any more.
LEMMA ErrorFinal ==
  ASSUME Inv(server, input), Final(server, input), NEW c \in Conns,
         InterceptOf(c) # NULL
  PROVE  Final(connectionClosed(transactionError(server, InterceptOf(c)), c), input)
<1> DEFINE i == InterceptOf(c)
           r == server.conn[c].requestId
           p == Failed(server.icept[i])
           f == transactionError(server, i)
           g == connectionClosed(f, c)
<1>1. /\ server \in Heap /\ i \in Intercepts /\ i \in MappedIntercepts(server)
      /\ Core(server, {}) /\ server.icept[i] \in Intercept
  <2>1. server \in Heap /\ i \in Intercepts /\ i \in MappedIntercepts(server)
    BY InterceptOfType
  <2> HIDE DEF i
  <2> QED BY <2>1 DEF Inv, Heap
<1>2. /\ i \in Accepted(server) /\ i \notin Queued(server) /\ input[i] # "new"
      /\ ~server.icept[i].outputComplete
  BY <1>1 DEF Inv, Core, QueueInv, Accepted
<1>3. server.icept[i].reenabled = server.icept[i].plugins /\ ~server.icept[i].failed
  BY <1>1, <1>2 DEF Final
<1>4. \A e \in server.intercept_list : e.intercept = i => e.id = r
  <2>1. /\ EntryOf(server, r) \in server.intercept_list
        /\ EntryOf(server, r).id = r /\ EntryOf(server, r).intercept = i
    BY <1>1, Lookup DEF InterceptOf
  <2> HIDE DEF i, r
  <2>2. \A e \in server.intercept_list :
          server.icept[i].requestId = e.id <=> i = e.intercept
    BY <1>1 DEF Core, MapInv
  <2> QED BY <2>1, <2>2
<1>5. /\ p.failed /\ p.outputComplete = server.icept[i].outputComplete
      /\ p.plugins = server.icept[i].plugins
      /\ p.reenabled = server.icept[i].reenabled + 1
  <2> HIDE DEF i
  <2> QED BY <1>1 DEF Failed, Intercept
<1>6. /\ f \in Heap /\ f.icept = [server.icept EXCEPT ![i] = p]
      /\ f.pending = server.pending /\ f.intercept_list = server.intercept_list
      /\ f.conn = server.conn
  <2> HIDE DEF i
  <2>1. f \in Heap
    BY <1>1, TransactionError
  <2> QED BY <1>1, <2>1 DEF transactionError, Heap
<1> HIDE DEF f, p, i
<1>7. /\ g.icept = f.icept /\ g.pending = f.pending
      /\ g.intercept_list = {e \in f.intercept_list : e.id # f.conn[c].requestId}
  BY <1>6, ClosedEffect DEF Closes
<1> HIDE DEF g
<1>8. i \notin Accepted(g) /\ Accepted(g) \subseteq Accepted(server)
  BY <1>2, <1>4, <1>6, <1>7 DEF Accepted, Queued, MappedIntercepts
<1>9. \A j \in Intercepts : g.icept[j] = IF j = i THEN p ELSE server.icept[j]
  BY <1>1, <1>6, <1>7 DEF Heap
<1>10. Final(g, input)
  BY <1>1, <1>2, <1>3, <1>5, <1>8, <1>9 DEF Final
<1> QED BY <1>10 DEF g, f, i

\* A connection is closed.
LEMMA CloseFinal ==
  ASSUME NEW h, NEW in, Inv(h, in), Final(h, in), NEW c \in Conns
  PROVE  Final(connectionClosed(h, c), in)
<1> DEFINE g == connectionClosed(h, c)
<1>1. Core(h, {}) /\ h \in Heap /\ {} \in SUBSET {c}
  BY DEF Inv, Core
<1>2. Core(g, {}) /\ Accepted(g) \subseteq Accepted(h) /\ SameRequests(h, g)
  BY <1>1, CoreClosed
<1>3. g.icept = h.icept
  BY <1>1, ClosedEffect DEF Closes
<1> HIDE DEF g
<1>4. SameAccounts(h, g) /\ g \in Heap
  BY <1>2, <1>3, AccountsFrame DEF Core
<1>5. \A j \in Accepted(g) : j \in Accepted(h) \/ in[j] = "new"
  BY <1>2
<1>6. Final(g, in)
  BY <1>1, <1>3, <1>4, <1>5, FinalKept
<1> QED BY <1>6 DEF g

\* TS_EVENT_VCONN_EOS and TS_EVENT_ERROR.
LEMMA EosFinal ==
  ASSUME Inv(server, input), Final(server, input), NEW c \in Conns,
         Eos(c) \/ Error(c)
  PROVE  Final(server', input')
<1> DEFINE i == InterceptOf(c)
           retried == connectionClosed(reConnect(server, server.conn[c].requestId), c)
           closed == connectionClosed(server, c)
           failed == connectionClosed(transactionError(server, i), c)
<1>1. /\ \/ server' = retried
         \/ server' = closed
         \/ i # NULL /\ server' = failed
      /\ input' = input
  BY DEF Eos, Error
<1>2. Final(retried, input) /\ Final(closed, input)
  BY RetryFinal, CloseFinal
<1>3. i # NULL => Final(failed, input)
  BY ErrorFinal
<1> HIDE DEF i, retried, closed, failed
<1> QED BY <1>1, <1>2, <1>3

\* A response is complete: the request was in service, so it was not failed.
LEMMA CompleteFinal ==
  ASSUME NEW h, NEW in, Inv(h, in), Final(h, in), NEW i \in Intercepts,
         i \in MappedIntercepts(h)
  PROVE  Final(setResponseOutputComplete(h, i), in)
<1> DEFINE p == Complete(h.icept[i])
           r == h.icept[i].requestId
           f == [h EXCEPT !.icept[i] = Complete(@)]
           g == removeIntercept(f, r)
<1>1. Core(h, {}) /\ h \in Heap /\ h.icept[i] \in Intercept /\ h.icept[i].alive
  BY DEF Inv, Core, Heap, MappedIntercepts, MapInv
<1>2. /\ p \in Intercept /\ p.requestId = r /\ p.alive
      /\ SameAccount(h.icept[i], p)
  <2>1. p.alive = h.icept[i].alive /\ p.requestId = r
    BY <1>1, InterceptFrame
  <2>2. p \in Intercept /\ SameAccount(h.icept[i], p)
    BY <1>1, InterceptSetters, AccountSetters
  <2> QED BY <1>1, <2>1, <2>2
<1>3. f = [h EXCEPT !.icept[i] = p] /\ p.requestId = h.icept[i].requestId
  BY <1>2
<1>4. setResponseOutputComplete(h, i) = g
  BY DEF setResponseOutputComplete
<1> HIDE DEF p, r, f
<1>5. /\ Core(f, {}) /\ Accepted(f) = Accepted(h)
      /\ f.icept = [h.icept EXCEPT ![i] = p]
  BY <1>1, <1>2, <1>3, CoreIntercept
<1>6. Core(g, {}) /\ Accepted(g) \subseteq Accepted(f) /\ SameRequests(f, g)
  BY <1>5, CoreRemove
<1>7. SameAccounts(f, g)
  BY <1>5, AccountsRemove
<1> HIDE DEF g
<1>8. SameAccounts(h, g)
  <2>1. SameAccounts(h, f)
    BY <1>1, <1>2, <1>5, AccountsSet
  <2> QED BY <1>7, <2>1, AccountsTransitive
<1>9. \A j \in Intercepts :
        j \in Accepted(h) \/ g.icept[j].outputComplete = h.icept[j].outputComplete
  BY <1>1, <1>5, <1>6 DEF Accepted, Heap, SameRequests
<1>10. \A j \in Accepted(g) : j \in Accepted(h) \/ in[j] = "new"
  BY <1>5, <1>6
<1>11. g \in Heap
  BY <1>6 DEF Core
<1>12. Final(g, in)
  BY <1>1, <1>8, <1>9, <1>10, <1>11, FinalKept
<1> QED BY <1>4, <1>12

\* TS_EVENT_VCONN_READ_READY.
LEMMA ReadReadyFinal ==
  ASSUME Inv(server, input), Final(server, input), NEW c \in Conns, ReadReady(c)
  PROVE  Final(server', input')
<1> DEFINE i == InterceptOf(c)
<1>1. /\ server \in Heap
      /\ i # NULL => i \in Intercepts /\ i \in MappedIntercepts(server)
  BY InterceptOfType
<1>2. input' = input
  BY DEF ReadReady
<1>3. \/ /\ server' \in Heap /\ SameCore(server, server')
         /\ SameAccounts(server, server')
      \/ /\ i # NULL
         /\ \E x \in Heap : /\ SameCore(server, x) /\ SameAccounts(server, x)
                            /\ server' = setResponseOutputComplete(x, i)
  BY ReadReadyFrame
<1> HIDE DEF i
<1>4. ASSUME server' \in Heap, SameCore(server, server'), SameAccounts(server, server')
      PROVE  Final(server', input)
  BY <1>1, <1>4, FinalFrame
<1>5. ASSUME i # NULL, NEW x \in Heap, SameCore(server, x), SameAccounts(server, x),
             server' = setResponseOutputComplete(x, i)
      PROVE  Final(server', input)
  <2>1. Inv(x, input) /\ i \in MappedIntercepts(x) /\ i \in Intercepts
    BY <1>1, <1>5, KeptCore, Frame
  <2>2. Final(x, input)
    BY <1>1, <1>5, FinalFrame
  <2>3. Final(setResponseOutputComplete(x, i), input)
    BY <2>1, <2>2, CompleteFinal
  <2> QED BY <1>5, <2>3
<1> QED BY <1>2, <1>3, <1>4, <1>5

\* One connection changes, but not its id.
LEMMA FinalConn ==
  ASSUME NEW h, NEW in, Inv(h, in), Final(h, in), NEW c \in Conns,
         NEW k \in Connection, k.requestId = h.conn[c].requestId
  PROVE  LET g == [h EXCEPT !.conn[c] = k]
         IN  Final(g, in) /\ g \in Heap
<1> DEFINE g == [h EXCEPT !.conn[c] = k]
<1>1. h \in Heap
  BY DEF Inv, Core
<1>2. g \in Heap /\ SameCore(h, g)
  BY <1>1, SetConn
<1>3. g.icept = h.icept
  BY <1>1 DEF Heap
<1> HIDE DEF g
<1>4. SameAccounts(h, g)
  BY <1>3, AccountsFrame
<1>5. Final(g, in)
  BY <1>1, <1>2, <1>4, FinalFrame
<1> QED BY <1>2, <1>5 DEF g

\* TS_EVENT_VCONN_WRITE_READY.
LEMMA WriteReadyFinal ==
  ASSUME Inv(server, input), Final(server, input), NEW c \in Conns, WriteReady(c)
  PROVE  Final(server', input')
<1> DEFINE k == Flushed(server.conn[c])
           f == [server EXCEPT !.conn[c] = k]
<1>1. server.conn[c] \in Connection
  BY InterceptOfType
<1>2. k \in Connection /\ k.requestId = server.conn[c].requestId
  BY <1>1, FlushedType, ConnectionFrame
<1>3. (server' = f \/ server' = read(f, c)) /\ input' = input
  BY DEF WriteReady
<1> HIDE DEF k
<1>4. Final(f, input) /\ f \in Heap
  BY <1>2, FinalConn
<1> HIDE DEF f
<1>5. read(f, c) \in Heap /\ SameCore(f, read(f, c))
  BY <1>4, CreateConnection
<1>6. read(f, c).icept = f.icept
  BY <1>4 DEF read, Heap
<1>7. SameAccounts(f, read(f, c))
  BY <1>6, AccountsFrame
<1>8. Final(read(f, c), input)
  BY <1>4, <1>5, <1>7, FinalFrame
<1> QED BY <1>3, <1>4, <1>8

\* The application's steps touch the buffers and jobs of a connection only.
LEMMA AppFinal ==
  ASSUME Inv(server, input), Final(server, input), NEW c \in Conns,
         NEW j \in server.conn[c].jobs,
         AppStdout(c, j) \/ AppStderr(c, j) \/ AppEnd(c, j)
  PROVE  Final(server', input')
<1>1. server \in Heap /\ server.conn[c] \in Connection
  BY InterceptOfType
<1>2. PICK record, left :
        /\ server' = [server EXCEPT !.conn[c] = Answered(@, j, record, left)]
        /\ input' = input
  BY DEF AppStdout, AppStderr, AppEnd, AppOutput, Answer
<1> DEFINE k == Answered(server.conn[c], j, record, left)
<1>3. k.requestId = server.conn[c].requestId
  BY <1>1, ConnectionFrame
<1>4. server' = [server EXCEPT !.conn[c] = k]
  BY <1>2
<1> HIDE DEF k
<1>5. /\ SameCore(server, server') /\ server'.icept = server.icept
  BY <1>1, <1>3, <1>4 DEF Heap, SameCore
<1>6. SameAccounts(server, server')
  BY <1>5, AccountsFrame
<1>7. server' \in Heap
  BY AppInv DEF Inv, Core
<1>8. Final(server', input)
  BY <1>1, <1>5, <1>6, <1>7, FinalFrame
<1> QED BY <1>2, <1>8

\* At first no transaction was added, resumed or failed.
LEMMA InitFinal == Init => Final(server, input)
<1> SUFFICES ASSUME Init PROVE Final(server, input)
  OBVIOUS
<1>1. \A i \in Intercepts : /\ ~server.icept[i].failed
                            /\ server.icept[i].reenabled = server.icept[i].plugins
  BY DEF Init, EmptyHeap, NoIntercept
<1> QED BY <1>1 DEF Final

\* One step, by event.
LEMMA NextFinal ==
  ASSUME Inv(server, input), Final(server, input), [Next]_vars
  PROVE  Final(server', input')
<1>1. CASE UNCHANGED vars
  BY <1>1, Zenon DEF vars
<1>2. ASSUME NEW i \in Intercepts, CacheLookupComplete(i)
      PROVE  Final(server', input')
  BY <1>2, CacheLookupCompleteFinal
<1>3. ASSUME NEW i \in Intercepts, StreamRequest(i) \/ StreamHeader(i) \/ StreamBody(i)
      PROVE  Final(server', input')
  BY <1>3, StreamFinal
<1>4. ASSUME NEW i \in Intercepts, TxnClose(i) PROVE Final(server', input')
  BY <1>4, TxnCloseFinal
<1>5. ASSUME NEW c \in Conns, NetConnect(c) PROVE Final(server', input')
  BY <1>5, NetConnectFinal
<1>6. ASSUME NEW c \in Conns, NetConnectFailed(c) PROVE Final(server', input')
  BY <1>6, NetConnectFailedFinal
<1>7. ASSUME NEW c \in Conns, ReadReady(c) PROVE Final(server', input')
  BY <1>7, ReadReadyFinal
<1>8. ASSUME NEW c \in Conns, WriteReady(c) PROVE Final(server', input')
  BY <1>8, WriteReadyFinal
<1>9. ASSUME NEW c \in Conns, Eos(c) \/ Error(c) PROVE Final(server', input')
  BY <1>9, EosFinal
<1>10. ASSUME NEW c \in Conns, NEW j \in server.conn[c].jobs,
              AppStdout(c, j) \/ AppStderr(c, j) \/ AppEnd(c, j)
       PROVE  Final(server', input')
  BY <1>10, AppFinal
<1> QED BY <1>1, <1>2, <1>3, <1>4, <1>5, <1>6, <1>7, <1>8, <1>9, <1>10, Zenon DEF Next

\* Final' of the current state is Final of the next state.
LEMMA FinalPrime == Final(server, input)' <=> Final(server', input')
BY DEF Final, Accepted, Queued, MappedIntercepts

\* The inductive invariant.
FinalInv == IInv /\ Final(server, input)

\* Transaction::error: whatever fails, and in whatever order, a transaction that
\* was failed is done with. Its request is not connected, queued or retried, nor
\* resumed, completed or failed again, though other requests, its client and the
\* connection it had go on.
THEOREM FailedIsLast == Spec => []FailedLast
<1>1. Init => FinalInv
  BY InitInv, InvParts, InitFinal DEF FinalInv
<1>2. FinalInv /\ [Next]_vars => FinalInv'
  <2> SUFFICES ASSUME FinalInv, [Next]_vars PROVE FinalInv'
    OBVIOUS
  <2>1. Inv(server, input) /\ Final(server, input)
    BY InvParts DEF FinalInv
  <2>2. Inv(server', input')
    BY <2>1, NextInv
  <2>3. Final(server', input')
    BY <2>1, NextFinal
  <2> QED BY <2>2, <2>3, InvPartsNext, FinalPrime DEF FinalInv
<1>3. FinalInv => FailedLast
  BY DEF FinalInv, Final, FailedLast, NoMore, Accepted
<1> QED BY <1>1, <1>2, <1>3, PTL DEF Spec

=============================================================================
