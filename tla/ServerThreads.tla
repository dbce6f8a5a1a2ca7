--------------------------- MODULE ServerThreads ---------------------------
(***************************************************************************)
(* The threads of the host that run the plugin (ats_fastcgi.cc,            *)
(* server.cc): each sets up a ThreadData of its own, behind a pthread key  *)
(* of its own, and all share Server::_intercept_list and the counter of    *)
(* request ids.                                                            *)
(*                                                                         *)
(* A step of a thread ends where it gives up a mutex or is about to take   *)
(* one. Taking the mutex of _intercept_list, working on the map and giving *)
(* it up again is one step; the mutex of the ids is explicit. What a       *)
(* handler does with its request and connection besides is in FcgiSystem.  *)
(* The host delivers the events of a connection and of a transaction on    *)
(* the thread they were made on.                                           *)
(***************************************************************************)
EXTENDS Integers, Sequences, FiniteSetsExt, Lists

CONSTANTS Threads, Requests, Conns, NULL,
          Home,           \* the thread of each request's transaction
          Keys,           \* the pthread keys there are
          HostKeys,       \* the keys the host took before
          MaxConnections, \* max_connections of the configuration
          PoolShare,      \* the 6 of max_connections / 6
          QueueSize,      \* request_queue_size of the configuration
          Events,         \* the events of connections that may happen
          MaxSetFailures, \* bound on failures of pthread_setspecific
          MaxConnFailures \* bound on connections that fail or are closed

EventKinds == {"connect", "read", "failed", "eos", "abort", "recycle"}

ThreadData == [pool: SUBSET Conns, idle: Seq(Conns), queue: Seq(Requests)]

\* A key the plugin gets is never 0: threadKey would look as if not set up.
ASSUME ThreadsAssumption ==
  /\ IsFiniteSet(Threads) /\ IsFiniteSet(Conns)
  /\ Home \in [Requests -> Threads]
  /\ HostKeys \subseteq Keys /\ Keys \subseteq Nat
  /\ 0 \notin Keys \ HostKeys
  /\ MaxConnections \in Nat /\ PoolShare \in Nat \ {0} /\ QueueSize \in Nat
  /\ Events \subseteq EventKinds
  /\ MaxSetFailures \in Nat /\ MaxConnFailures \in Nat
  /\ NULL \notin Requests \cup Conns \cup Threads /\ NULL \notin ThreadData
  /\ Cardinality(Conns) >= Cardinality(Threads) * (MaxConnections \div PoolShare)

VARIABLES threadKey,   \* the thread_local of that name; 0 before the set-up
          keys,        \* the pthread keys in use in the process
          data,        \* what each thread keeps under each key
          list,        \* _intercept_list
          nextId,      \* UniqueRequesID::_id
          idMutex,     \* the thread that holds _reqId_mutex, or NULL
          conn,        \* _requestId, thread and phase of each connection
          req,         \* _request_id and phase of each request
          th,          \* where each thread is, and its local variables
          failures     \* failures of pthread_setspecific and of connections

vars == <<threadKey, keys, data, list, nextId, idMutex, conn, req, th, failures>>

Idle == [pc |-> "idle", event |-> NULL, req |-> NULL, conn |-> NULL,
         id |-> 0, itr |-> NULL, closing |-> NULL]

NoConn == [requestId |-> 0, thread |-> NULL, phase |-> "none"]

Init ==
  /\ threadKey = [t \in Threads |-> 0]
  /\ keys = HostKeys
  /\ data = [t \in Threads |-> [k \in Keys |-> NULL]]
  /\ list = {}
  /\ nextId = 1
  /\ idMutex = NULL
  /\ conn = [c \in Conns |-> NoConn]
  /\ req = [i \in Requests |-> [id |-> 0, phase |-> "new"]]
  /\ th = [t \in Threads |-> Idle]
  /\ failures = [set |-> 0, conn |-> 0]

At(t, pc) == th[t].pc = pc

Go(t, local) == th' = [th EXCEPT ![t] = local]

\* pthread_getspecific(threadKey)
Data(t) == data[t][threadKey[t]]

NewThreadData == [pool |-> {}, idle |-> <<>>, queue |-> <<>>]

\* Mutant: _maxConn is not a share of max_connections.
PoolLimitWhole == MaxConnections

PoolLimit == MaxConnections \div PoolShare

-----------------------------------------------------------------------------
(***************************************************************************)
(* The cache lookup hook and setupThreadLocalStorage.                      *)
(***************************************************************************)

\* handleReadCacheLookupComplete for a request the plugin takes.
Hook(t, i) ==
  /\ At(t, "idle")
  /\ Home[i] = t
  /\ req[i].phase = "new"
  /\ req' = [req EXCEPT ![i].phase = "open"]
  /\ Go(t, [Idle EXCEPT !.pc = IF threadKey[t] = 0 THEN "setup" ELSE "connect",
                        !.req = i])
  /\ UNCHANGED <<threadKey, keys, data, list, nextId, idMutex, conn, failures>>

\* A fresh copy in the cache, or a path that ".*" does not match as a whole (it
\* has a line break): the transaction is resumed and none of ours.
HookPasses(t, i) ==
  /\ At(t, "idle")
  /\ Home[i] = t
  /\ req[i].phase = "new"
  /\ req' = [req EXCEPT ![i].phase = "passed"]
  /\ UNCHANGED <<threadKey, keys, data, list, nextId, idMutex, conn, th, failures>>

\* Mutant: the key is one variable for all threads.
KeyStoredForAll(t, k) == [u \in Threads |-> k]

\* threadKey is thread_local.
KeyStored(t, k) == [threadKey EXCEPT ![t] = k]

\* pthread_key_create. While no key is free it fails and the loop goes on.
CreateKey(t) ==
  /\ At(t, "setup")
  /\ Keys \ keys # {}
  /\ LET k == Min(Keys \ keys)
     IN  /\ keys' = keys \cup {k}
         /\ threadKey' = KeyStored(t, k)
         /\ data' = [u \in Threads |-> [data[u] EXCEPT ![k] = NULL]]
  /\ Go(t, [th[t] EXCEPT !.pc = "setspecific"])
  /\ UNCHANGED <<list, nextId, idMutex, conn, req, failures>>

\* A ThreadData is stored under the key. The loop of the hook ends.
SetSpecific(t) ==
  /\ At(t, "setspecific")
  /\ data' = [data EXCEPT ![t][threadKey[t]] = NewThreadData]
  /\ Go(t, [th[t] EXCEPT !.pc = "connect"])
  /\ UNCHANGED <<threadKey, keys, list, nextId, idMutex, conn, req, failures>>

\* pthread_setspecific fails: the key is given back and the loop goes on.
SetSpecificFails(t) ==
  /\ At(t, "setspecific")
  /\ failures.set < MaxSetFailures
  /\ failures' = [failures EXCEPT !.set = @ + 1]
  /\ keys' = keys \ {threadKey[t]}
  /\ threadKey' = KeyStored(t, 0)
  /\ Go(t, [th[t] EXCEPT !.pc = "setup"])
  /\ UNCHANGED <<data, list, nextId, idMutex, conn, req>>

-----------------------------------------------------------------------------
(***************************************************************************)
(* Server::connect and initiateBackendConnection.                          *)
(***************************************************************************)

\* Where a thread goes on when connect returns.
Returned(t) ==
  IF th[t].closing = NULL THEN Idle
  ELSE [Idle EXCEPT !.pc = "close", !.conn = th[t].closing]

FreeConns == {c \in Conns : conn[c].phase = "none"}

\* getAvailableConnection has a connection to make, or an idle one to take.
PoolOpen(t) == Data(t) # NULL /\ Cardinality(Data(t).pool) < PoolLimit

PoolIdle(t) == Data(t) # NULL /\ ~PoolOpen(t) /\ Data(t).idle # <<>>

\* A connection is made while the pool is not full.
ConnectAdds(t) ==
  /\ At(t, "connect")
  /\ PoolOpen(t)
  /\ LET c == CHOOSE c \in FreeConns : TRUE
     IN  /\ conn' = [conn EXCEPT ![c] = [NoConn EXCEPT !.thread = t, !.phase = "new"]]
         /\ data' = [data EXCEPT ![t][threadKey[t]].pool = @ \cup {c}]
         /\ Go(t, [th[t] EXCEPT !.pc = "lockid", !.conn = c])
  /\ UNCHANGED <<threadKey, keys, list, nextId, idMutex, req, failures>>

\* The first idle connection of a full pool is taken.
ConnectReuses(t) ==
  /\ At(t, "connect")
  /\ PoolIdle(t)
  /\ data' = [data EXCEPT ![t][threadKey[t]].idle = Tail(@)]
  /\ Go(t, [th[t] EXCEPT !.pc = "lockid", !.conn = Head(Data(t).idle)])
  /\ UNCHANGED <<threadKey, keys, list, nextId, idMutex, conn, req, failures>>

\* addToQueue, which drops the request when the queue is full. A thread without
\* ThreadData does nothing for the request.
ConnectQueues(t) ==
  /\ At(t, "connect")
  /\ ~PoolOpen(t) /\ ~PoolIdle(t)
  /\ CASE Data(t) = NULL -> UNCHANGED <<data, req>>
       [] Data(t) # NULL /\ Len(Data(t).queue) < QueueSize ->
            /\ data' = [data EXCEPT ![t][threadKey[t]].queue = Append(@, th[t].req)]
            /\ UNCHANGED req
       [] OTHER ->
            /\ req' = [req EXCEPT ![th[t].req].phase = "dropped"]
            /\ UNCHANGED data
  /\ Go(t, Returned(t))
  /\ UNCHANGED <<threadKey, keys, list, nextId, idMutex, conn, failures>>

\* Mutant: the mutex of the ids is not waited for.
LockIdAtOnce(t) ==
  /\ At(t, "lockid")
  /\ idMutex' = t
  /\ Go(t, [th[t] EXCEPT !.pc = "bumpid", !.id = nextId])
  /\ UNCHANGED <<threadKey, keys, data, list, nextId, conn, req, failures>>

\* TSMutexLock(_reqId_mutex); getNext reads the counter ...
LockId(t) ==
  /\ At(t, "lockid")
  /\ idMutex = NULL
  /\ idMutex' = t
  /\ Go(t, [th[t] EXCEPT !.pc = "bumpid", !.id = nextId])
  /\ UNCHANGED <<threadKey, keys, data, list, nextId, conn, req, failures>>

\* Mutant: the mutex is not given up.
BumpIdKeepsMutex(t) ==
  /\ At(t, "bumpid")
  /\ nextId' = th[t].id + 1
  /\ Go(t, [th[t] EXCEPT !.pc = "bind"])
  /\ UNCHANGED <<threadKey, keys, data, list, idMutex, conn, req, failures>>

\* ... and writes it back; TSMutexUnlock(_reqId_mutex).
BumpId(t) ==
  /\ At(t, "bumpid")
  /\ nextId' = th[t].id + 1
  /\ idMutex' = NULL
  /\ Go(t, [th[t] EXCEPT !.pc = "bind"])
  /\ UNCHANGED <<threadKey, keys, data, list, conn, req, failures>>

\* Both objects get the id and the map gets the entry. A new connection starts
\* dialling.
Bind(t) ==
  /\ At(t, "bind")
  /\ LET i == th[t].req
         c == th[t].conn
         r == th[t].id
     IN  /\ req' = [req EXCEPT ![i].id = r]
         /\ conn' = [conn EXCEPT ![c].requestId = r,
                                 ![c].phase = IF @ = "up" THEN "up" ELSE "dialing"]
         /\ list' = {e \in list : e.id # r} \cup {[id |-> r, req |-> i, conn |-> c]}
  /\ Go(t, Returned(t))
  /\ UNCHANGED <<threadKey, keys, data, nextId, idMutex, failures>>

-----------------------------------------------------------------------------
(***************************************************************************)
(* handlePHPConnectionEvents: the request of the connection is looked up,  *)
(* then the event takes its course.                                        *)
(***************************************************************************)

\* The phases of a connection in which the host has the event for it: "failed"
\* is a refused connection, or one closed before the request was sent.
Deliverable(event) ==
  CASE event = "connect" -> {"dialing"}
    [] event = "failed"  -> {"dialing", "up"}
    [] event \in {"read", "eos"} -> {"up"}

\* An event of a connection that is due. A connection without a request is lost
\* by an "eos" only: the reConnect of a NET_CONNECT_FAILED or EOS with request id
\* 0 is in FcgiSystem, as are the write functions with the lookup of their
\* connection (getServerConnection).
Deliver(t, c, event) ==
  /\ At(t, "idle")
  /\ conn[c].thread = t
  /\ conn[c].phase \in Deliverable(event)
  /\ event \in {"read", "failed"} => conn[c].requestId # 0
  /\ IF event \in {"failed", "eos"}
     THEN /\ failures.conn < MaxConnFailures
          /\ failures' = [failures EXCEPT !.conn = @ + 1]
     ELSE UNCHANGED failures
  /\ Go(t, [Idle EXCEPT !.pc = "find", !.event = event, !.conn = c])
  /\ UNCHANGED <<threadKey, keys, data, list, nextId, idMutex, conn, req>>

Entries(r) == {e \in list : e.id = r}

\* getIntercept up to its TSMutexUnlock: the iterator points to the entry.
Find(t) ==
  /\ At(t, "find")
  /\ LET found == Entries(conn[th[t].conn].requestId)
     IN  Go(t, [th[t] EXCEPT !.pc = "deref",
                  !.itr = IF found = {} THEN NULL ELSE CHOOSE e \in found : TRUE])
  /\ UNCHANGED <<threadKey, keys, data, list, nextId, idMutex, conn, req, failures>>

\* getIntercept after its TSMutexUnlock: the entry is read.
Found(t) == IF th[t].itr = NULL THEN NULL ELSE th[t].itr.req

DerefConnect(t) ==
  /\ At(t, "deref")
  /\ th[t].event = "connect"
  /\ conn' = [conn EXCEPT ![th[t].conn].phase = "up"]
  /\ Go(t, Idle)
  /\ UNCHANGED <<threadKey, keys, data, list, nextId, idMutex, req, failures>>

\* The end of the response goes on to removeIntercept, a failure to reConnect
\* and connectionClosed, an end of the connection to connectionClosed.
DerefOther(t) ==
  /\ At(t, "deref")
  /\ th[t].event \in {"read", "failed", "eos"}
  /\ Go(t, CASE Found(t) # NULL /\ th[t].event = "read" ->
                  [th[t] EXCEPT !.pc = "remove", !.req = Found(t)]
             [] Found(t) # NULL /\ th[t].event = "failed" ->
                  [th[t] EXCEPT !.pc = "erase", !.req = Found(t)]
             [] Found(t) = NULL /\ th[t].event = "read" -> Idle
             [] OTHER -> [th[t] EXCEPT !.pc = "close", !.req = Found(t)])
  /\ UNCHANGED <<threadKey, keys, data, list, nextId, idMutex, conn, req, failures>>

\* reConnect takes the request out of the map and connects it anew; then the
\* connection is closed.
Erase(t) ==
  /\ At(t, "erase")
  /\ list' = list \ Entries(conn[th[t].conn].requestId)
  /\ Go(t, [Idle EXCEPT !.pc = "connect", !.req = th[t].req, !.closing = th[t].conn])
  /\ UNCHANGED <<threadKey, keys, data, nextId, idMutex, conn, req, failures>>

\* ~ServerIntercept of a request in service whose client went away. (FcgiSystem
\* has the requests that wait.)
Abort(t, i) ==
  /\ At(t, "idle")
  /\ "abort" \in Events
  /\ Home[i] = t
  /\ \E e \in list : e.req = i
  /\ Go(t, [Idle EXCEPT !.pc = "remove", !.req = i])
  /\ UNCHANGED <<threadKey, keys, data, list, nextId, idMutex, conn, req, failures>>

\* removeIntercept up to its TSMutexUnlock.
Remove(t) ==
  /\ At(t, "remove")
  /\ LET found == Entries(req[th[t].req].id)
     IN  /\ list' = list \ found
         /\ Go(t, IF found = {} THEN Idle
                  ELSE [th[t] EXCEPT !.pc = "release",
                          !.conn = (CHOOSE e \in found : TRUE).conn])
  /\ req' = [req EXCEPT ![th[t].req].phase = "over"]
  /\ UNCHANGED <<threadKey, keys, data, nextId, idMutex, conn, failures>>

\* Mutant: the idle list keeps a closed connection.
IdleWithClosed(idle, c) == idle

IdleWithout(idle, c) == ListRemove(idle, c)

\* The head of the queue, if there is one, is connected.
ServeNext(t, queue) ==
  Go(t, IF queue = <<>> THEN Idle
        ELSE [Idle EXCEPT !.pc = "connect", !.req = Head(queue)])

\* reuseConnection, then the queue.
Release(t) ==
  /\ At(t, "release")
  /\ conn' = [conn EXCEPT ![th[t].conn].requestId = 0]
  /\ data' = [data EXCEPT ![t][threadKey[t]] =
                [Data(t) EXCEPT !.idle = Append(@, th[t].conn),
                                !.queue = IF @ = <<>> THEN @ ELSE Tail(@)]]
  /\ ServeNext(t, Data(t).queue)
  /\ UNCHANGED <<threadKey, keys, list, nextId, idMutex, req, failures>>

\* The connection has carried max_requests requests: connectionClosed, which
\* finds no entry for id 0, then the queue. (FcgiSystem counts the requests.)
Recycle(t) ==
  /\ At(t, "release")
  /\ "recycle" \in Events
  /\ conn' = [conn EXCEPT ![th[t].conn] = NoConn]
  /\ data' = [data EXCEPT ![t][threadKey[t]] =
                [pool  |-> @.pool \ {th[t].conn},
                 idle  |-> IdleWithout(@.idle, th[t].conn),
                 queue |-> IF @.queue = <<>> THEN @.queue ELSE Tail(@.queue)]]
  /\ ServeNext(t, Data(t).queue)
  /\ UNCHANGED <<threadKey, keys, list, nextId, idMutex, req, failures>>

\* connectionClosed: the entry and the connection go.
Close(t) ==
  /\ At(t, "close")
  /\ LET c     == th[t].conn
         found == Entries(conn[c].requestId)
     IN  /\ list' = list \ found
         /\ req' = [i \in Requests |->
                      IF \E e \in found : e.req = i
                      THEN [req[i] EXCEPT !.phase = "over"] ELSE req[i]]
         /\ data' = [data EXCEPT ![t][threadKey[t]] =
                       [Data(t) EXCEPT !.pool = @ \ {c},
                                       !.idle = IdleWithout(@, c)]]
         /\ conn' = [conn EXCEPT ![c] = NoConn]
  /\ Go(t, Idle)
  /\ UNCHANGED <<threadKey, keys, nextId, idMutex, failures>>

-----------------------------------------------------------------------------

\* A thread goes on with what it is doing.
Step(t) ==
  \/ CreateKey(t) \/ SetSpecific(t) \/ SetSpecificFails(t)
  \/ ConnectReuses(t) \/ ConnectAdds(t) \/ ConnectQueues(t)
  \/ LockId(t) \/ BumpId(t) \/ Bind(t)
  \/ Find(t) \/ DerefConnect(t) \/ DerefOther(t) \/ Erase(t)
  \/ Remove(t) \/ Release(t) \/ Recycle(t) \/ Close(t)

Next ==
  \E t \in Threads :
    \/ Step(t)
    \/ \E i \in Requests : Hook(t, i) \/ HookPasses(t, i) \/ Abort(t, i)
    \/ \E c \in Conns, event \in Events \ {"abort", "recycle"} : Deliver(t, c, event)

Spec == Init /\ [][Next]_vars

\* Threads run, connections come up and responses end.
Due(t) ==
  Step(t) \/ \E c \in Conns, event \in {"connect", "read"} : Deliver(t, c, event)

FairSpec == Spec /\ \A t \in Threads : WF_vars(Due(t))

-----------------------------------------------------------------------------
(***************************************************************************)
(* Properties.                                                             *)
(***************************************************************************)

Entry == [id: 1 .. nextId - 1, req: Requests, conn: Conns]

IsThreadData(d) ==
  /\ d.pool \subseteq Conns /\ Cardinality(d.pool) <= PoolLimit
  /\ d.idle \in Seq(Conns)
  /\ d.queue \in Seq(Requests) /\ Len(d.queue) <= QueueSize

\* Every variable has its type, pools and queues are within their limits, and
\* the mutex of the ids is held by the one thread that is at the counter.
TypeOK ==
  /\ threadKey \in [Threads -> Keys \cup {0}]
  /\ HostKeys \subseteq keys /\ keys \subseteq Keys
  /\ \A t \in Threads, k \in Keys : data[t][k] # NULL => IsThreadData(data[t][k])
  /\ list \subseteq Entry
  /\ nextId \in Nat \ {0}
  /\ {t \in Threads : At(t, "bumpid")} = {idMutex} \ {NULL}
  /\ \A c \in Conns : conn[c].requestId < nextId

\* The entry that getIntercept found is still in the map when it is read,
\* although the mutex was unlocked before.
EntryAlive ==
  \A t \in Threads : At(t, "deref") /\ th[t].itr # NULL => th[t].itr \in list

Queued(i) ==
  \E t \in Threads, k \in Keys :
    /\ data[t][k] # NULL
    /\ \E n \in DOMAIN data[t][k].queue : data[t][k].queue[n] = i

\* No request gets lost: from the hook to its end it is in the map, in a queue,
\* or in the hands of the thread of its transaction. Server::connect never
\* returns 1, which the hook ignores.
Accounted ==
  \A i \in Requests :
    req[i].phase = "open" =>
      \/ \E e \in list : e.req = i
      \/ Queued(i)
      \/ ~At(Home[i], "idle") /\ th[Home[i]].req = i

\* A request, its connection and the pool of that connection belong to one
\* thread: what removeIntercept and connectionClosed take from thread-local
\* storage is the pool the connection came from.
HomePool ==
  /\ \A e \in list : /\ conn[e.conn].thread = Home[e.req]
                     /\ e.conn \in Data(Home[e.req]).pool
  /\ \A t \in Threads, k \in Keys :
       data[t][k] # NULL =>
         \A n \in DOMAIN data[t][k].idle : data[t][k].idle[n] \in data[t][k].pool

\* With no more threads than max_connections is divided by, the plugin has never
\* more connections than max_connections, whatever the threads do.
TotalLimit ==
  Cardinality(Threads) <= PoolShare =>
    Cardinality({c \in Conns : conn[c].phase # "none"}) <= MaxConnections

\* As long as no connection fails every request comes to an end: no thread waits
\* for a key or a mutex for ever, no request stays in a queue, although clients go
\* away and pthread_setspecific may fail.
AllSettled ==
  \A i \in Requests :
    req[i].phase = "open" ~> req[i].phase \in {"over", "dropped"} \/ failures.conn > 0

=============================================================================
