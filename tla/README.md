# AtsFastcgi in TLA+

AtsFastcgi is a plugin of Apache Traffic Server (ATS) that answers HTTP requests
through a FastCGI application such as php-cgi. This directory holds a TLA+ model
of the plugin, the TLC configurations that check it on small instances, and
TLAPS proofs of the safety properties for instances of any size. Paths below are
relative to `src/src/`.

## 1. The system

A request goes through the plugin like this. The cache lookup hook makes a
`ServerIntercept` and calls `Server::connect`, which takes a connection from the
thread's pool or puts the request in the thread's queue. When the connection is
up, the intercept is added to its transaction, the transaction is resumed, and
ATS streams the request to the intercept, which encodes it as FastCGI records
and writes it to the connection. The write events start the reading side; what
is read is decoded and produced to the client; FCGI_END_REQUEST completes the
response, gives the connection back to the pool and serves the queue.

| component | code | state | operations |
|---|---|---|---|
| Cache lookup hook | `ats_fastcgi.cc` | globals, statistics | `handleReadCacheLookupComplete`, `TSPluginInit` |
| Server | `server.cc/.h` | `_intercept_list`: request id to (intercept, connection); `UniqueRequesID::_id` | `connect`, `reConnect`, `initiateBackendConnection`, `removeIntercept`, `connectionClosed`, the write functions, `handlePHPConnectionEvents` |
| ConnectionPool (one per thread) | `connection_pool.cc` | `_connections`, `_available_connections`, `_maxConn` | `getAvailableConnection`, `reuseConnection`, `connectionClosed` |
| RequestQueue (one per thread) | `request_queue.cc` | `pending_list`, `max_queue_size` | `addToQueue`, `popFromQueue` |
| ServerConnection, InterceptIOChannel | `server_connection.cc` | state, `vc_`, request id and count, `_fcgiRequest`, two channels with buffer, VIO and `readEnable` | `createConnection`, `createFCGIClient`, `releaseFCGIClient`, `read`, `phpWrite` |
| ServerIntercept | `server_intercept.cc` | request id, `outputCompleteState` | `consume`, `handleInputComplete`, `writeResponseChunkToATS`, `setResponseOutputComplete`, destructor |
| FastCGI encoder | `ats_fcgi_client.cc` 44-321 | request headers, output buffer | `GenerateFcgiRequestHeaders`, `createBeginRequest`, `postBodyChunk`, `emptyParam` |
| FastCGI decoder | `ats_fcgi_client.cc` 323-618 | the record in progress, `first_chunk` | `fcgiDecodeRecordChunk` and what it calls |
| Threads | `server.cc` 171-196, `server.h` 37-73 | a pthread key and a `ThreadData` (pool, queue) per thread; the map, the ids and their mutexes are shared | `setupThreadLocalStorage`, and all of Server in parallel |
| Configuration | `fcgi_config.cc/.h` | settings, parameters | `initConfig`, `initFcgiParam` |
| Plugin start | `ats_fastcgi.cc` 107-202 | globals, ids of statistics | `TSPluginInit` |
| Profiler | `Profiler.h` | profiles, `record_enabled_` | `SubmitProfile`, `Clear`, `set_record_enabled`, ProfileTaker |
| configuru, scripts | `configuru.hpp`, `bin/` | | no effect on requests |

How they interact: events of a connection (connected, refused, readable,
writable, closed, error) arrive in `handlePHPConnectionEvents`, which knows the
connection and finds the request by looking the connection's request id up in
`_intercept_list`. The client's side calls the intercept, which finds its
connection by looking its own id up in the same map. Nothing else ties a
request to a connection, and no object is reference counted, so the whole plugin
relies on the map, the pool and the queue being consistent after every event.

What is hard here: the order of events of different connections and clients is
open; connections are refused, closed while idle, while a request is written or
while its response is read; clients go away at any time; a request may be retried
on another connection while the first one still is in the pool; the queue is
served from one place only; a response arrives cut into arbitrary blocks; and
several threads share the map. What makes each part correct:

* pool: a connection is idle once or serves one request, at most `_maxConn` exist,
  an idle one is up, reset and has nothing left to read;
* map: an event reaches the request its connection serves, or none, never a
  deleted one;
* queue: first come first served, no request lost, twice in it, or left waiting
  when nothing can serve it;
* requests: not connected, queued, resumed or failed again once they were failed;
  answered with the whole of their own response, in the end;
* decoder: independent of where blocks end, and inside the block;
* encoder: an application that parses the bytes gets the request back, and no
  byte goes past the buffer;
* threads: no thread uses an entry of the map that another has erased, no
  request gets lost between them, all end;
* configuration: a setting has the value of its last line, a parameter that of its
  first, and a counter counts its own events;
* profiler: nothing submitted is lost.

`PROJECT.json` lists the hazards at their lines, with the properties that are
about each.

## 2. Modules

| module | models | |
|---|---|---|
| `ServerConnection` | server_connection.h/.cc | connection objects and channels |
| `RequestQueue` | request_queue.h/.cc | the queue |
| `ConnectionPool` | connection_pool.h/.cc | the pool; extends ServerConnection |
| `Server` | server.h/.cc, server_intercept.cc | map and assignment; extends pool and queue |
| `FcgiSystem` | handlePHPConnectionEvents, the hook, the callbacks of intercepts | composes all of these with clients and application; one action per event |
| `RequestService` | what connect, reConnect, removeIntercept and connectionClosed promise | abstract specification: slots and a bounded queue |
| `ServiceRefinement` | | FcgiSystem implements RequestService: serving is the map, waiting the queue |
| `MCFcgiSystem` | | symmetry for TLC |
| `FcgiDecoder`, `MCFcgiDecoder` | ats_fcgi_client.cc 323-618 | the decoder, byte by byte; responses for TLC |
| `FcgiEncoder`, `MCFcgiEncoder` | ats_fcgi_client.cc 20-321, fcgi_protocol.h | the encoder and an application that parses what it sends; requests for TLC |
| `ServerThreads`, `MCServerThreads` | server.cc and ats_fastcgi.cc on several threads | set-up, map, ids and mutexes, with the steps of a thread between its critical sections |
| `FcgiConfig` | fcgi_config.h/.cc | the configuration, line by line |
| `PluginInit`, `MCPluginInit` | TSPluginInit, and the constructors that read the settings | start of the plugin; extends FcgiConfig; files for TLC |
| `Profiler`, `MCProfiler` | Profiler.h | takers in several threads |
| `Lists` | std::list and std::queue | lists without duplicates, used by the pool, the queue and the threads |
| `ListProofs` | | lemmas about these lists; the least number of a set of numbers |
| `ServerProofs` | | pool, map and queue of FcgiSystem, its connections, the statistic, crashes; extends FcgiSystem and ListProofs |
| `ServiceProofs` | | what a connection carries; FcgiSystem implements RequestService; extends ServiceRefinement and ServerProofs |
| `ThreadsProofs` | | the invariants of ServerThreads |
| `ProfilerProofs` | | the invariants of Profiler |
| `DecoderProofs` | | the decoder on any responses; extends FcgiDecoder and ListProofs |
| `EncoderProofs` | | the encoder and its application on any requests; extends FcgiEncoder and ListProofs |
| `ConfigProofs` | | settings, counters and first request for any files; extends PluginInit and ListProofs |

**The heap.** The plugin's objects form one record, `server`: connection objects
by address, intercepts by request, the two lists of the pool, the queue, the map,
the id counter and the statistic `phpConnCount`. Each C++ function that changes
objects is an operator from heaps to heaps with the function's name, and a
handler that calls several is their composition in the code's order. This
matters: `NetConnectFailed` is `connectionClosed(reConnect(...))`, in this order.

**Atomicity.** An ATS event handler runs to its end before the next event of the
same thread, so a handler is one action. Which event comes next, of which
connection or client, is open.

**The surroundings.** `input[i]` says what the client of request i has sent.
ATS streams only to an intercept that was added to its transaction; the header
of a request with a body and the body itself arrive in separate events, and the
end of the input in the event of the last data. A transaction that ends deletes
the intercept as often as it was added. A connection's far end has jobs: a job
starts with FCGI_BEGIN_REQUEST, learns of the end of its input, may send output
records (numbered, so that order and loss show) and ends with FCGI_END_REQUEST,
possibly before it has read its input.

**Pointers.** `crashed` records the use of a null pointer (`_fcgiRequest`, `vc_`)
or of a deleted intercept, and a second deletion; a crashed process does nothing
more. `NULL` is the null pointer. Addresses of connections are taken by CHOOSE and
reused at once when free, which is the worst case for stale pointers.

**Failures** are chosen by the constant `Faults`:

| fault | event |
|---|---|
| `connect_failed` | TS_EVENT_NET_CONNECT_FAILED |
| `eos_idle` | EOS on a connection that serves no request |
| `eos_request` | EOS while the request is being written (`readEnable` off) |
| `eos_response` | EOS after the request was written |
| `error` | TS_EVENT_ERROR |
| `abort` | the client goes away |
| `stderr` | the application writes FCGI_STDERR |

**The decoder** has the bytes of a response on `wire` and the positions `beg` and
`end` of `beg_buf` and `end_buf`. One step takes a byte of a record header or
one pass through the rest of `fcgiProcessRecord`. The MIME parser that decides on
the status line is ATS's: a first record that holds the end of the response
header gives a status line; for one that does not, both outcomes are possible.

**The encoder** builds its buffer from items of known length: a record header, the
body of FCGI_BEGIN_REQUEST, a byte of a length, a string. Strings are sequences of
parts that have a length and no characters; that is all the encoding depends on.
`written` is the furthest byte touched, since `createBeginRequest` serializes into the
space behind `pBuffInc`. The application is a fold over what was sent: it parses
records, streams, lengths and pairs by the FastCGI rules, not by the encoder's code.

**Threads.** A step of a thread goes from one critical section to the next. Work on
the map under its mutex is one step; the mutex of the ids is explicit, and
`getNext` is a read and a write, so that it is the mutex that makes ids unique.
`getIntercept` is two steps, `Find` under the mutex and the read of the entry after
it. A thread that is at work does not take another event. Keys are numbers, key 0 is
the host's own, and a key that is created has no value in any thread. The requests'
contents, counts and responses are not in this module: when a connection has
carried its last request is open (`Release` or `Recycle`). A client that goes away
while its request waits is in FcgiSystem only.

**Configuration.** A line is its words: first word, name (a sequence of parts, since
names are matched by their beginning), type, value with the number strtoll makes of
it. `reading` says which file the loop is in; `lines` and `included` keep what was
read, for the properties. `FirstRequest` is what Server::connect makes of the limits on
a fresh pool. A uint has `UintRange` values; only that a negative quotient wraps to a
large number matters.

**RequestService** knows requests only: those in service, at most `Slots`, and the
queue. `Finish` hands a slot to the head of the queue, `Fail` (a connection that goes
away) does not, and `Retry` puts a request at the end of the queue when the slot of
its failed connection is the last. The refinement mapping takes the slots for
`_maxConn`: a request is accepted exactly when fewer are in service, because idle
connections and room in the pool together are what is left of `_maxConn`.

## 3. Runs

| run | instance | shows |
|---|---|---|
| `all_faults` | 3 requests, 2 connections, queue of 1; all faults but stderr | types, PoolConsistent, MapConsistent, QueueConsistent, IdleReset, StatExact, FailedLast, ImplementsService |
| `survivable` | 3 requests, 1 connection, queue of 2; all faults but eos_request | NoCrash, IdleUp, AddedOnce, RequestLimit |
| `responses` | 3 requests, 2 connections; all faults but abort and stderr; two output records each | IdleQuiet, ResponseIntegrity |
| `served` | 3 requests, 1 connection, queue of 2; eos_idle, abort; with fairness | NoStranded, NoOvertaking, AllAnswered, ImplementsIdeal (RequestService without failures, with its fairness) |
| `encoder` | GET, HEAD and POST; names and values of 127, 128, 300 bytes, a header that fills the buffer, bodies of 1, 255, 256 and 65535 bytes in one chunk; ids 1, 255, 256, 65535, 65537 | RequestArrives, BodyArrives, WithinBuffer |
| `threads` | 2 threads, 2 requests on one and 1 on the other, 1 connection each, queue of 1; all events; with fairness | EntryAlive, Accounted, HomePool, TotalLimit, AllSettled |
| `config` | files of up to 4 lines from 12 kinds (max_connections of 5, 6 and -6, host name, address, includes, and lines that are wrong), included files from 9 kinds, all arguments; one statistic of six left from before, any other may fail to be created | LastWins, FirstWins, FirstServed, CountsOwn |
| `profiler` | 2 threads, 3 takers, 4 switches | NoneLost, FewLate |
| `decoder` | contents of 0, 2 and 256 bytes (and one more with the end of the header), paddings 0-2, blocks of 2 to 255 bytes in any order | WithinBlock, InSync, DecodesStream |
| `stranded` | 1 request, 1 connection; connect_failed | **violated**: NoStranded |
| `padding` | paddings up to 2, blocks of 1 or 9 bytes | **violated**: WithinBlock |
| `body_chunks` | a body in two chunks | **violated**: BodyArrives |

Bounds. `MaxConnections` is 10 or 13, which is 1 or 2 connections per thread
(`/ 6`), so the pool reaches its limit, and `MaxRequests` is 2, so connections are
both reused and retired. Three requests on two connections or on one make one
or two wait, so the queue, its limit and its order come into play; one of them has
a body, so a request can be aborted or lose its connection between header and
body. `MaxId` bounds the request ids and with them the retries: with three
requests, 4 allows a retry after every request had its id, 5 two; in `responses`
3 allows one while the third request is still to come. It guards only
the failures that lead to a retry, never an action of the plugin that has
no choice. `MaxOut` bounds the output records of one response; two are enough to
show loss and reordering, and the properties that do not look at responses
run with none or one. A read buffer is cut into at most two blocks, which is what tells
"the status of the last block wins" apart from "the status of any block"; the
decoder's run has many blocks. Lengths of 256 are there for the high byte of
the length. Symmetry is used on requests, and on the threads and takers of
`profiler`, where the run has no liveness property; connections are not symmetric
because CHOOSE picks them. All runs may
stop: when all transactions are over and no idle connection can be lost any more,
nothing is left to do, so deadlock is not checked.

In `threads` the 6 of `max_connections / 6` is the constant `PoolShare`, 2 for two
threads, so that TotalLimit is tight. One connection per thread makes the second
request of the first thread wait, a retry meet a full queue, and a released
connection go to the next request; the second thread is there for ids and the map.
One refused or lost connection (`MaxConnFailures`) and one failure of pthread_setspecific
(`MaxSetFailures`) bring in the retries. In `config` four lines are
enough for a setting, another one, an include and a line in the included file,
in any order, and one count for all counters together tells whose statistic
it lands in. In `encoder` the lengths stand at the places where one byte or two more
are needed, and one header fills the buffer to its last byte. Three takers in two
threads let one thread take two profiles while another submits.

Fairness. `FairSpec` asks for weak fairness of `Due`, the disjunction of what the
event loop, a client that sends its request, and an application that has read its
input owe: no single event is promised, only that the loop does not stop while
one of them is due. This is enough because each of them uses up what made it due:
a buffer is flushed, a connect answered, a record read, a job ended. Failures are
never owed, and neither are new requests. In ServerThreads the fairness is per thread:
each goes on with what it is doing, and takes a connect or the end of a response
that is due. RequestService asks for weak fairness of `Finish` for each request in
service, which `served` shows to follow from the event loop's.

Each property has a mutant, a plausible slip in the code it is about, under which
TLC finds the property violated; the mutants stand before the definitions they
replace and are marked.

### What limits the properties

Every property is checked under a set of faults that leaves out what breaks it:

* `eos_request` breaks NoCrash and AddedOnce, and together with `abort` IdleUp and
  RequestLimit too. A request whose connection closes while it is being written is
  given a new connection although its intercept is already with the
  transaction. If that connection is idle in the pool it is added a second
  time; if it has to be dialled, the body that streams in meanwhile finds no
  `_fcgiRequest`; and if the client goes away, a connection that is still being
  dialled becomes idle, READY with a null `vc_`.
* `abort` and `stderr` break IdleQuiet and ResponseIntegrity: the connection goes
  back to the pool while the application still answers on it, and there is no
  FCGI_ABORT_REQUEST, nor does the decoder look at the request id of a record.
* `eos_response` and `error` fail a transaction that was resumed before, so that it is
  reenabled twice. That is what the code does; FailedLast says that it is the last of
  it. When requests wait, these faults break NoStranded and AllAnswered: the
  connection goes without anybody serving the queue.
* A request that finds the queue full is dropped (`request_queue.cc:51` has a
  TODO); its transaction is never resumed. AllAnswered speaks of accepted requests.
* A buffer of BUF_SIZE holds the parameters of a request only if they fit; WithinBuffer
  is checked up to the last byte, and nothing in the code looks.
* CountsOwn speaks of a start that went through. When a statistic cannot be registered
  TSPluginInit returns with the hook already on, and the counters after it are
  id 0, a statistic of the host.
* FirstServed speaks of `max_connections` of 6 and more (or negative, which wraps);
  below, no connection is ever made.
* With pthread key 0 free, the first thread would get it, take it for no key, and make
  a new pool and a new queue at the next request, with requests left in the old one.
  The runs have key 0 taken, as TS creates keys before it loads plugins.
* LastWins is about whole names, and about every setting but `enabled`. Names of settings are compared over the length of the
  name given (`fcgi_config.cc:175`), so `host.max` sets the first setting that begins
  like this. A line that ends after CONFIG leads to `strlen` of a null pointer (`:172`),
  the action `CrashAtConfigLine`; the setting `enabled` is true for every value
  (`:680`, a pointer converted to bool); and the lines of the shipped
  `config/fastcgi.config` have no type, which `initFcgiParam` asks for (`:373`), so that
  none of them is stored.
* RequestArrives is checked for ids on both sides of the wrap at 65536, which itself becomes 0,
  the id of management records (`ats_fcgi_client.cc:312`).
* `SubmitProfile` looks at `record_enabled_` before it locks (`Profiler.h:132`), so
  profiles can be stored after recording was switched off and the profiles were
  cleared; FewLate bounds how many. The plugin does not take profiles yet.
* AllSettled holds as long as no connection is refused or lost: after that, requests
  may wait in the queue for ever, as in `stranded`.
* ImplementsService is about each step that does not crash; `eos_request` and `abort`
  together can crash, see above.

### Findings

* `stranded`. On TS_EVENT_NET_CONNECT_FAILED the code says "Try reconnection
  with new connection." (`server.cc:70`), but `reConnect` is called before
  `connectionClosed` takes the refused connection off the pool. At the pool's
  limit there is no place for a new connection yet, so the request goes to the
  queue, and the place that becomes free next is offered to nobody. With the
  default of 10 connections, one per thread, a single refused connection
  leaves its request waiting until some other request comes and ends.
* `padding`. When a block ends inside a record's padding, `fcgiProcessContent`
  notes "Have to still skip all or some of padding" (`ats_fcgi_client.cc:410`) and
  skips all that is left on the next block without regard to its end (387-390). If
  that block is shorter than the rest of the padding, `beg_buf` passes `end_buf`
  and the loop's only exit test, equality, is missed.
* `body_chunks`. `postBodyChunk` closes each chunk with an empty FCGI_STDIN
  (`ats_fcgi_client.cc:257`), which in the specification that `fcgi_protocol.h` points
  to is the end of the stream. A body the host delivers in two chunks has its
  second half after the end.

## 4. Proofs

`ServerProofs` proves for FcgiSystem, for every value of the constants:

* `TypeCorrect`: `Spec => []TypeOK`
* `PoolCorrect`: `Spec => []PoolConsistent`
* `MapCorrect`: `Spec => []MapConsistent`
* `QueueCorrect`: `Spec => []QueueConsistent`

that is, for any number of requests, any `max_connections`, `max_requests` and queue
size, any set of faults and any number of retries.

Assumptions: NULL is not a request or a connection (`NullAssumption`); the limits are
natural numbers, and the addresses of connections are finite in number and suffice
for the pool's limit, so that `new` succeeds (`PoolAssumption`); `QueueAssumption` and
`SystemAssumption` type the other constants. TLC evaluates all of them, and those of the
other modules.

The inductive invariant `IInv` is the conjunction of the four, and none of them
is inductive alone. A connection may be put on the idle list only because no entry
of the map has it (map); an entry may be erased by the id in a connection only
because no other connection has that id (map again, with ids below the counter, so
that a fresh id is fresh); a request may be connected only because it is neither
mapped nor queued already (queue), and that holds for a new request because
`input` is "new", and after a completed response because completion takes it off
both.

Inside a handler the invariant is broken for a while: between `reConnect` and
`connectionClosed` a connection is in the pool, but neither idle nor in service. So
the lemmas use `Core(h, D)`, the invariant of heap h in which the connections in D
are detached in this way. `CoreErase` detaches one, `CoreInitiate`, `CorePoolClosed`
and `CoreReuse` give it a place again, `CoreConnect`, `CoreReConnect`, `CoreClosed`
and `CoreRemove` compose them, and every event starts and ends with D empty. Functions that
touch nothing of this (writes, reads, output, the application) share one frame
argument, `SameCore`. Then there is one lemma per event, and `NextInv` puts them
together.

### Connections

`ServerProofs` also proves for FcgiSystem, again for every value of the constants,

* `IdleIsReset`: `Spec => []IdleReset`
* `StatIsExact`: `Spec => []StatExact`

from `Life(h, N, n)`, which is joined to `IInv` (`LifeInv`): each connection of the pool
is either up or being dialled, objects outside the pool are as `new` made them, only a
connection that is up has open channels, and `phpConnCount` is the number of those that
are up. The last two are broken inside `TS_EVENT_NET_CONNECT_FAILED`, which counts the
refused connection before `connectionClosed` counts it out: N holds the connections
that were refused just now and n how many of them are counted. StatExact is not
inductive without the rest: `connectionClosed` subtracts one, and that is right only
because no connection is closed that is neither up nor in N.

`FailedIsLast`: `Spec => []FailedLast` holds for any faults too. Its invariant
`Final(h, in)`, joined to `IInv` (`FinalInv`), is an account of each transaction: one that
was not failed was reenabled once for each time it was added; one that was failed was
reenabled once more, is neither in service nor waiting nor complete, and is not new.
Adding and resuming go together and leave the account as it is, as does everything else
(`SameAccounts`) but `transactionError`, which is called for a request in service whose
connection is closed next, so the request leaves the map in the same handler. The
induction needs MapConsistent and QueueConsistent: no other connection has the id of the
failed request, and it is not in the queue, so no later event finds it.

and, under conditions on `Faults`,

| theorem | property | as long as there is no |
|---|---|---|
| `NeverCrashes` | NoCrash | `eos_request` |
| `IdleIsUp` | IdleUp | `eos_request` |
| `IsAddedOnce` | AddedOnce | `eos_request` |
| `RequestsLimited` | RequestLimit | `eos_request`; and `max_requests` is not 0 |
| `IdleIsQuiet` | IdleQuiet | `abort`, `stderr` |
| `ResponsesIntact` | ResponseIntegrity | `abort`, `stderr` |

the last two in `ServiceProofs`. These conditions are not for the sake of the proof: section 3 says how each property
fails without them. They are the weakest that can be put in terms of `Faults`, except
that IdleUp and RequestLimit need `abort` as well as `eos_request` to fail.
The invariant of the first four is `Safe(h, in, X)`. A request in the map is either *dialled*, when its
connection waits for the answer of the application and the request was not added
to its transaction, or *served*, when the connection is up, is in use and has a
`_fcgiRequest`, and the request was added once; X holds the connections on their way
from one to the other. From this follow the pointers a handler finds (what streams in
belongs to an added request, so to a connection that is up), that a retried request was
not added before (only a dialled connection can be refused), and that an aborted
request gives back a connection that is up. `eos_request` is what breaks it: it dials
for a request that was added. For `max_requests` 0 the invariant holds with the limit 1.

IdleQuiet and ResponseIntegrity are about what a connection carries. Their invariant is
`Tied(h, in, X)`, joined to `IInv` alone (`TiedInv`), with X the connections on their way
from one request to the next:

* a connection without a request is `Quiet`: no job at the application, nothing to read,
  no FCGI_BEGIN_REQUEST on its way;
* the connection of a request `Carries` that request alone. It is `Quiet`, or
  the application has not seen the request (`Asked`), or has one job, which is for it
  (`Answering`), or has ended it (`Over`); and what was decoded, followed by what is in
  the read buffer, is what the application has sent for it (`Faithful`);
* a request that waits (`Waiting`) may have a part of a response, but no end of one and no
  error page, and one that has not come has nothing (`Fresh`).

Quiet is the connection of a request whose header has not streamed in, and that of a
request which began on a connection that was lost (`eos_request`). The rest of that one
is written to the new connection, but its FCGI_BEGIN_REQUEST is not written again, so the
application answers a request at most once.

`connect`, `removeIntercept`, `connectionClosed`, the retry and the write functions each
keep it (`TiedConnect`, `TiedRemove`, `TiedClosed`, `TiedRetry`, `TiedWrite`), and so does
every event. The step that matters is a read (`TiedTransfer`): a buffer that comes in
one block or two is decoded to all of its records, and only the end of the response
gives the connection back, with nothing behind it. `abort` and `stderr`
give it back while the application still has the job.

### Refinement

`ServiceProofs` proves

* `ServiceImplemented`: `Spec => ImplementsService`, for every value of the constants;
* `IdealImplemented`: `Spec => Ideal!Spec`, the safety part of ImplementsIdeal;
* `NoneStranded`: `Spec => []NoStranded`, for `maxConn # 0`;
* `NoneOvertaken`: `Spec => NoOvertaking`;

the last three when `Faults` has none of `connect_failed`, `eos_request`, `eos_response`
and `error` (`Reliable`), the failures that take away the connection of a request: after
each of them a place of the pool is free and nobody in the queue is told, which is the
finding of `stranded`. `maxConn # 0` is `max_connections` of at least 6; below, no
connection is ever made.

The refinement says which functions of Server do what to map and queue: `connect` takes a
request into service if fewer than `_maxConn` connections are in service or detached,
and else sends it to the queue (`ConnectService`), `removeIntercept` hands the
slot on (`RemoveService`), `connectionClosed` frees it (`ClosedService`), and a retry
does neither unless every slot was taken (`RetryService`). The argument is a count:
entries of the map tie requests and connections in service one to one
(`MappedCardinality`), and a connection is available exactly if in-service and detached
connections together are fewer than `_maxConn` (`Slots`). Then each event is one step of
RequestService (`NextStep`), up to the step that uses a dead intercept.
NoStranded and NoOvertaking are not inductive. Their invariant is `Full`: requests wait
only while every slot is taken. A request that arrives then cannot find a slot, and
one that ends leaves its slot to the head of the queue; NoCrash comes from `SafeInv`.

### Threads

`ThreadsProofs` proves for ServerThreads, for any finite number of threads and
connections, any requests, any keys and any limits,

* `TypeCorrect`: `Spec => []TypeOK`
* `EntriesAlive`: `Spec => []EntryAlive`
* `NoneLost`: `Spec => []Accounted`
* `PoolsApart`: `Spec => []HomePool`
* `ConnectionsLimited`: `Spec => []TotalLimit`

Assumptions (`ThreadsAssumption`): threads and connections are finite; each request has
the thread its transaction runs on; NULL is nothing else; and key 0, if it exists, is
the host's, which is the assumption section 3 explains. TotalLimit itself speaks of no
more threads than the divisor of `max_connections`. The invariant `IInv`
has shared parts, which say that the mutex of the ids is held by the thread at its
second half, that ids are below the counter and used once, and that keys belong to one
thread, and the part `Local(t)` of each thread t: its pool has its connections,
its queue its requests, the entries of the map with its connections have its requests,
and what it holds in its hands between two critical sections is neither idle, mapped nor
waiting. An entry that t found can only be erased by t, which is why the read after
the unlock is safe. A step of t leaves alone what `Local(u)` speaks of, for every other
thread u (`Frame`, from `Elsewhere(t)`), so each action is proved for its own thread only.
`ConnectionsLimited` adds the pools up: the threads can be numbered
(`Numbering`), and the connections of n threads are at most n times the
limit of one (`PoolSum`).

### Profiler

`ProfilerProofs` proves for Profiler, for any finite number of threads and any takers and
switches, `MutexCorrect` (TypeOK), `ProfilesKept` (NoneLost) and `LateBounded` (FewLate).
The invariant says that at most one thread is in `SubmitProfile` behind the lock,
that the end of the list that it took is still the end when it writes, and that the
list has each profile of `kept` once, by comparing length and cardinality. For FewLate the threads
that have looked at `record_enabled_` are counted together with the profiles that came in
since `Clear`: each such thread stores one profile and is then no longer counted.

### Decoder

`DecoderProofs` proves for FcgiDecoder, for any set of responses with any number of
records of any lengths, cut into blocks at any places,

* `DecoderTypes`: `Spec => []TypeOK`
* `NeverOverrun`: `Spec => []WithinBlock`
* `StaysInSync`: `Spec => []InSync`
* `DecodesEveryStream`: `Spec => []DecodesStream`

the last three for responses that are `WellFormed`, and DecodesStream for those
whose FCGI_END_REQUEST has a body of 8 bytes (`EndsWithBytes`), as FastCGI prescribes.
WellFormed says two things of a response. `PaddingFits`: no record has more padding than the
shortest block has bytes. The code does not see to that, and without it the theorems are
false, which is the finding of `padding`. `OnlyLastEnds`: FCGI_END_REQUEST or FCGI_STDERR is
the last record and no other is; the decoder reports the end there and drops the
rest of the block.

What the application sends and what the output should be are both
`FlattenSeq` of sequences, which is defined by recursion. Its steps are proved first
(`FlatteningExists` and the lemmas after it), each by the least number at
which it would fail (`LeastNumber` in ListProofs). From this, `Layout` cuts `wire` into
records: where record k starts, its header, content and padding.
The invariant `DInv` has a common part, the types and `wire`; `InRecord(k)`,
where in record k the decoder is, what of header and content it has and that
`offset` counts the content and padding behind it; `AtEnd`, after the last record; and
`Sent(k)`, that the output is what records 1 to k - 1 delivered after at most
one status line. WithinBlock is not inductive: a block that starts in the padding has
to hold what is left of it, so `DInv` says where in the padding a block ended.

### Encoder

`EncoderProofs` proves for FcgiEncoder, for any requests with any fields, chunks and
ids, and strings of any lengths,

* `EncoderTypes`: `Spec => []TypeOK`
* `FitsBuffer`: `Spec => []WithinBuffer`
* `RequestsArrive`: `Spec => []RequestArrives`
* `BodiesArrive`: `Spec => []BodyArrives`

Assumption (`EncoderAssumption`): strings have lengths, no parameter has an empty name,
and the only string of length 0 is the one without parts. The last three theorems
are for requests that

* `FitBuffer`: have encoded parameters of at most what the constructor allocates, less
  32 bytes for three headers and the body of FCGI_BEGIN_REQUEST, and chunks of at
  most that less 16 bytes for two headers (WithinBuffer);
* `FitRecords`: have parameters and chunks of less than 65536 bytes, since the length of
  a record has two bytes and no record is ever split (RequestArrives, BodyArrives);
* `OneChunkBodies`: have a body in one chunk that is not empty, if they are POST, and
  none if not (BodyArrives). Of the others, a body in two chunks is the finding of
  `body_chunks`; the input of a POST without a chunk is never ended, and that of
  another method with one, or of a POST with an empty one, is ended twice.

The code checks none of them; the requests of `encoder` satisfy all three, some of them to
the last byte.

The sizes, the encoding and the application's side are folds, and a fold is defined
by a recursive function on sets. So the module first proves that such a function exists
and what the fold is for one more element, for each of them. From then on a
statement about a sequence is proved by the shortest prefix for which it fails,
and one about the map of parameters by the smallest set of names (`ContentSteps`).
`LengthDecoded` is the arithmetic: one byte below 128, and four bytes
for any length below 2^31, both of which the application reads back. `PairDecoded`
puts two lengths and two strings together, either of which takes one item or, if it is
empty, none, and `ContentDecoded` all pairs of the map, in whatever order it is
walked. The records are the other layer: `Between` says that the application is between
two records of this request and what it has of each stream, and `TellRecord` and
`TellEnd` add a record with content and an empty one. The inductive invariant is
`Shape`, which ties `params` and `capacity` to the request and says that `sent` is made
of items, and `Arrived`, which says in terms of `Between` what the application has; without
it RequestArrives is not inductive, as it does not say that the record before is complete.
For WithinBuffer the point is that the loop of `createBeginRequest` that only measures
writes each pair behind the body of FCGI_BEGIN_REQUEST, and that the longest pair is no longer
than all of them together (`ContentOfRequest`).

### Configuration

`ConfigProofs` proves for FcgiConfig and PluginInit, for files of any lines, in any number
and order, and for any statistics of the host,

* `InitTypes`: `Spec => []TypeOK`
* `CountersAreOwn`: `Spec => []CountsOwn`
* `LastLineWins`: `Spec => []LastWins`
* `FirstLineWins`: `Spec => []FirstWins`
* `FirstIsServed`: `Spec => []FirstServed`

The last three are for files that are `Documented`: a line that begins with part of a
directive or of a setting's name has the whole of it. The code compares as many
characters as the line has, so a name that is cut short is taken for the first setting that
begins so. FirstIsServed also asks that the numbers in the file are below 6 times
the range of a uint, since a quotient above that range would wrap, possibly to 0.

A file grows by a line at a time. The last line (or the first) that names a setting
changes only if the new line names it, and then the code stores its value under that
setting and no other (`NamedIsComplete`, `CompleteIsNamed`). `InitInv` holds the types
(`ConfigTyped`, TypeOK), that the settings in use are those that were read (`Kept`), and,
for the counters, that those registered so far have statistics of their names, each its
own (`StatsOK`); CountsOwn is part of it and speaks of the moment when all are registered.

### Only model-checked

* Liveness: `AllAnswered`, `AllSettled` and the fairness in `ImplementsIdeal`, which are
  out of the prover's reach.

Every invariant that a passing run checks has its theorem.

## 5. Plan

Done: all modules above with their runs, and the proofs of section 4.

## 6. Not modelled

* `configuru.hpp` is a vendored JSON library that the plugin includes and does not
  call; the scripts and PHP pages are samples.
* The MIME parser and printer of the host: which status line a response gets
  (`ats_fcgi_client.cc` 443-592) is one status, or none when the first record has
  not all of the header.
* Characters: names, values and paths have lengths and parts, and `isspace` and `strtok`
  are the split of a line into words.
* Failures of allocation, of `TSIOBufferWrite` and of `TSVConnRead/Write` returning
  null; `TSVConnClosedGet` being true while the connection still is with the plugin.
* `TS_EVENT_VCONN_READ_COMPLETE`, which cannot occur since the read asks for
  INT64_MAX bytes; code that nothing reaches (`checkAvailability`,
  `InterceptIOChannel::write`, `print_bytes`, the setters of the configuration, the branch of
  `initConfig` that inherits).
* Statistics other than `phpConnCount` while requests run; what is registered at the
  start is in PluginInit.
* A transaction without a handle in the hook (`ats_fastcgi.cc:72`), which the host never
  passes.
* The application that keeps a connection busy with a request whose client went away:
  jobs of one connection are answered in any order. A body is one chunk in FcgiSystem;
  several are in FcgiEncoder.
* The host's VConnection: after TS_EVENT_ERROR it is aborted (`server.cc:135`) while `vc_`
  stays, so that the destructor closes it again (`server_connection.cc:114`).
* In ServerThreads, the write functions with their `getServerConnection`, and a
  connection without a request that is refused or closed before its write was
  flushed (`server.cc:69-75`, `117-126`), whose reConnect finds nothing; both are in FcgiSystem.
* A response header that is there to its end and does not parse
  (`ats_fcgi_client.cc:552-555`), which gives no status line.
* A connection whose events arrive on another thread: the host keeps the events
  of a connection on the thread that opened it.
