---------------------------- MODULE ServiceProofs ----------------------------
(***************************************************************************)
(* Proofs about what the clients get. First their responses: what holds as *)
(* long as no client goes away and the application writes no FCGI_STDERR   *)
(* (IdleQuiet, ResponseIntegrity). Then the order of service: FcgiSystem   *)
(* implements RequestService, by what the functions of Server do to the    *)
(* requests in service and to the queue, and then, event by event, which   *)
(* step of RequestService that is.                                         *)
(***************************************************************************)
EXTENDS ServiceRefinement, ServerProofs

-----------------------------------------------------------------------------
(***************************************************************************)
(* What a connection carries. As long as the client of a request does not  *)
(* go away and the application writes no errors, a connection without a    *)
(* request has no job at the far end and nothing to read, and the          *)
(* connection of a request carries that request alone, or nothing: the     *)
(* beginning of a request is written once, on the connection it has then.  *)
(* In each case the response that was decoded, followed by what is still   *)
(* to be read, is what the application has sent.                           *)
(***************************************************************************)

\* The response ended with sequence s.
Ends(s) == s # <<>> /\ s[Len(s)].type = "END"

\* No request is on its way to the application on connection k.
Unasked(k) == \A n \in DOMAIN k.writeBuf : k.writeBuf[n].type # "BEGIN"

\* Nothing of any request is left on connection k but input nobody waits for.
Quiet(k) == k.jobs = {} /\ k.readBuf = <<>> /\ Unasked(k)

\* The application has not seen request i yet.
Asked(k, i) ==
  /\ k.jobs = {} /\ k.readBuf = <<>>
  /\ \E n \in DOMAIN k.writeBuf : k.writeBuf[n] = [type |-> "BEGIN", req |-> i]
  /\ \A n \in DOMAIN k.writeBuf : k.writeBuf[n].type = "BEGIN" => k.writeBuf[n].req = i

\* The application works on request i alone and has sent n output records.
WorksOn(jobs, i, n) == \E eof \in BOOLEAN : jobs = {[req |-> i, eof |-> eof, sent |-> n]}

\* It works on request i and has sent s.
Answering(k, i, s) == Unasked(k) /\ ~Ends(s) /\ WorksOn(k.jobs, i, Len(s))

\* It has sent s, which is all.
Over(k, s) == Unasked(k) /\ Ends(s) /\ k.jobs = {}

\* Connection k carries request i with intercept p and input x: what was
\* decoded and what is still in its buffer are the response so far. Nothing of
\* the request is there before its header streams in, or if the connection on
\* which it began was lost.
Carries(k, i, p, x) ==
  LET s == p.response \o k.readBuf
  IN  /\ ~p.failed /\ ~Ends(p.response)
      /\ Faithful(i, s)
      /\ k.fcgi \in {NULL, i}
      /\ \/ Quiet(k) /\ x # "new" /\ (x = "none" => s = <<>>)
         \/ /\ x \in {"header", "done"}
            /\ \/ Asked(k, i) /\ s = <<>>
               \/ Answering(k, i, s)
               \/ Over(k, s)

\* A new request has nothing of a response and no error page.
Fresh(p) == p.response = <<>> /\ ~p.failed

\* Intercept p, with input x, may be given a connection.
Waiting(p, x) ==
  ~p.failed /\ ~Ends(p.response) /\ x # "new" /\ (x = "none" => p.response = <<>>)

\* What is true of the response of request i, whether it is in service or not.
Settled(i, p) ==
  Faithful(i, p.response) /\ (p.outputComplete <=> Ends(p.response))

\* The invariant of heap h and input in, while the connections in X change
\* from one request to another.
Tied(h, in, X) ==
  /\ \A c \in Conns \ (MappedConns(h) \cup X) : Quiet(h.conn[c])
  /\ \A e \in h.intercept_list :
       e.conn \in X \/ Carries(h.conn[e.conn], e.intercept,
                               h.icept[e.intercept], in[e.intercept])
  /\ \A i \in Queued(h) : Waiting(h.icept[i], in[i])
  /\ \A i \in Intercepts : in[i] = "new" => Fresh(h.icept[i])
  /\ \A i \in Intercepts : Settled(i, h.icept[i])

\* Intercepts p and q have the same of a response.
SameAnswer(p, q) ==
  /\ q.response = p.response /\ q.failed = p.failed
  /\ q.outputComplete = p.outputComplete

\* Connections k and l carry the same.
SameContent(k, l) ==
  /\ l.jobs = k.jobs /\ l.readBuf = k.readBuf /\ l.writeBuf = k.writeBuf
  /\ l.fcgi = k.fcgi

\* What is carried does not depend on the state of the connection, and a
\* request of which nothing is written may go on streaming in.
LEMMA CarriesKept ==
  ASSUME NEW k, NEW l, l.jobs = k.jobs, l.readBuf = k.readBuf, l.writeBuf = k.writeBuf,
         NEW i, l.fcgi \in {NULL, i}, NEW p, NEW q, SameAnswer(p, q), NEW x, NEW y,
         y = x \/ y \in {"header", "done"}, Carries(k, i, p, x)
  PROVE  Carries(l, i, q, y)
<1> DEFINE s == p.response \o k.readBuf
           t == q.response \o l.readBuf
<1>1. s = t
  BY DEF SameAnswer
<1>2. Asked(k, i) => Asked(l, i)
  BY DEF Asked
<1>3. Answering(k, i, s) => Answering(l, i, t)
  BY <1>1 DEF Answering, Unasked
<1>4. Over(k, s) => Over(l, t)
  BY <1>1 DEF Over, Unasked
<1>5. Quiet(k) => Quiet(l)
  BY DEF Quiet, Unasked
<1>6. /\ ~p.failed /\ ~Ends(p.response) /\ Faithful(i, s)
      /\ \/ Quiet(k) /\ x # "new" /\ (x = "none" => s = <<>>)
         \/ /\ x \in {"header", "done"}
            /\ \/ Asked(k, i) /\ s = <<>>
               \/ Answering(k, i, s)
               \/ Over(k, s)
  BY DEF Carries
<1>7. ~q.failed /\ ~Ends(q.response) /\ Faithful(i, t)
  BY <1>1, <1>6 DEF SameAnswer
<1> HIDE DEF s, t
<1>8. \/ Quiet(l) /\ y # "new" /\ (y = "none" => t = <<>>)
      \/ /\ y \in {"header", "done"}
         /\ \/ Asked(l, i) /\ t = <<>>
            \/ Answering(l, i, t)
            \/ Over(l, t)
  BY <1>1, <1>2, <1>3, <1>4, <1>5, <1>6
<1> QED BY <1>7, <1>8 DEF Carries, t

\* The same content tells the same.
LEMMA ContentKept ==
  ASSUME NEW k, NEW l, SameContent(k, l)
  PROVE  /\ Quiet(k) => Quiet(l)
         /\ \A i, p, q, x : SameAnswer(p, q) /\ Carries(k, i, p, x) => Carries(l, i, q, x)
<1>1. Quiet(k) => Quiet(l)
  BY DEF SameContent, Quiet, Unasked
<1>2. ASSUME NEW i, NEW p, NEW q, NEW x, SameAnswer(p, q), Carries(k, i, p, x)
      PROVE  Carries(l, i, q, x)
  <2>1. /\ l.jobs = k.jobs /\ l.readBuf = k.readBuf /\ l.writeBuf = k.writeBuf
        /\ l.fcgi \in {NULL, i}
    BY <1>2 DEF SameContent, Carries
  <2> QED BY <1>2, <2>1, CarriesKept
<1> QED BY <1>1, <1>2

\* h becomes g and in becomes new in a step that concerns only connection c
\* and request i.
Touches(h, in, g, new, c, i) ==
  /\ \A d \in Conns \ {c} : SameContent(h.conn[d], g.conn[d])
  /\ \A j \in Intercepts \ {i} : SameAnswer(h.icept[j], g.icept[j]) /\ new[j] = in[j]
  /\ g.intercept_list \subseteq h.intercept_list
  /\ \A e \in h.intercept_list : e \in g.intercept_list \/ e.conn = c
  /\ \A e \in g.intercept_list : e.intercept = i => e.conn = c
  /\ Queued(g) \subseteq Queued(h)
  /\ i \in Queued(g) => Waiting(g.icept[i], new[i])
  /\ i \in Intercepts => Settled(i, g.icept[i]) /\ new[i] # "new"

\* What is not concerned is as before.
LEMMA TiedStep ==
  ASSUME NEW h \in Heap, NEW in, NEW X, Tied(h, in, X), NEW g, NEW new, NEW c, NEW i,
         Touches(h, in, g, new, c, i)
  PROVE  Tied(g, new, X \cup {c})
<1> USE DEF Touches
<1>1. /\ \A e \in h.intercept_list : e.conn \in Conns /\ e.intercept \in Intercepts
      /\ Queued(h) \subseteq Intercepts
  BY DEF Heap, Entry, Queued, Elements
<1>2. ASSUME NEW d \in Conns \ (MappedConns(g) \cup (X \cup {c}))
      PROVE  Quiet(g.conn[d])
  <2>1. d \notin MappedConns(h)
    BY DEF MappedConns
  <2>2. Quiet(h.conn[d]) /\ d # c
    BY <2>1 DEF Tied
  <2> QED BY <2>2, ContentKept
<1>3. ASSUME NEW e \in g.intercept_list, e.conn \notin X \cup {c}
      PROVE  Carries(g.conn[e.conn], e.intercept, g.icept[e.intercept], new[e.intercept])
  <2>1. e.conn \in Conns \ {c} /\ e.intercept \in Intercepts \ {i} /\ e \in h.intercept_list
    BY <1>1, <1>3
  <2>2. Carries(h.conn[e.conn], e.intercept, h.icept[e.intercept], in[e.intercept])
    BY <1>3, <2>1 DEF Tied
  <2>3. /\ SameContent(h.conn[e.conn], g.conn[e.conn])
        /\ SameAnswer(h.icept[e.intercept], g.icept[e.intercept])
        /\ new[e.intercept] = in[e.intercept]
    BY <2>1
  <2> QED BY <2>2, <2>3, ContentKept
<1>4. ASSUME NEW j \in Queued(g)
      PROVE  Waiting(g.icept[j], new[j])
  <2>1. CASE j = i
    BY <2>1
  <2>2. CASE j # i
    <3>1. j \in Intercepts \ {i} /\ j \in Queued(h)
      BY <1>1, <2>2
    <3> QED BY <3>1 DEF Tied, Waiting, SameAnswer
  <2> QED BY <2>1, <2>2
<1>5. ASSUME NEW j \in Intercepts, new[j] = "new"
      PROVE  Fresh(g.icept[j])
  <2>1. j # i
    BY <1>5
  <2> QED BY <1>5, <2>1 DEF Tied, Fresh, SameAnswer
<1>6. ASSUME NEW j \in Intercepts
      PROVE  Settled(j, g.icept[j])
  <2>1. CASE j = i
    BY <2>1
  <2>2. CASE j # i
    BY <2>2 DEF Tied, Settled, SameAnswer
  <2> QED BY <2>1, <2>2
<1> QED BY <1>2, <1>3, <1>4, <1>5, <1>6 DEF Tied

\* Connection c is with the others again.
LEMMA TiedFilled ==
  ASSUME NEW h, NEW in, NEW c, Tied(h, in, {} \cup {c}),
         c \in Conns \ MappedConns(h) => Quiet(h.conn[c]),
         \A e \in h.intercept_list : e.conn = c =>
           Carries(h.conn[c], e.intercept, h.icept[e.intercept], in[e.intercept])
  PROVE  Tied(h, in, {})
<1>1. \A d \in Conns \ (MappedConns(h) \cup {}) : Quiet(h.conn[d])
  BY DEF Tied
<1>2. \A e \in h.intercept_list : e.conn \in {} \/
        Carries(h.conn[e.conn], e.intercept, h.icept[e.intercept], in[e.intercept])
  BY DEF Tied
<1> QED BY <1>1, <1>2 DEF Tied

\* Steps that change nothing that is carried.
LEMMA TiedFrame ==
  ASSUME NEW h \in Heap, NEW in, NEW X, Tied(h, in, X), NEW g,
         g.intercept_list = h.intercept_list, g.pending = h.pending,
         \A d \in Conns : SameContent(h.conn[d], g.conn[d]),
         \A j \in Intercepts : SameAnswer(h.icept[j], g.icept[j])
  PROVE  Tied(g, in, X)
<1>1. /\ \A e \in h.intercept_list : e.conn \in Conns /\ e.intercept \in Intercepts
      /\ Queued(h) \subseteq Intercepts
  BY DEF Heap, Entry, Queued, Elements
<1>2. MappedConns(g) = MappedConns(h) /\ Queued(g) = Queued(h)
  BY DEF MappedConns, Queued
<1>3. \A d \in Conns \ (MappedConns(g) \cup X) : Quiet(g.conn[d])
  BY <1>2, ContentKept DEF Tied
<1>4. ASSUME NEW e \in g.intercept_list, e.conn \notin X
      PROVE  Carries(g.conn[e.conn], e.intercept, g.icept[e.intercept], in[e.intercept])
  <2>1. Carries(h.conn[e.conn], e.intercept, h.icept[e.intercept], in[e.intercept])
    BY <1>4 DEF Tied
  <2>2. /\ SameContent(h.conn[e.conn], g.conn[e.conn])
        /\ SameAnswer(h.icept[e.intercept], g.icept[e.intercept])
    BY <1>1
  <2> QED BY <2>1, <2>2, ContentKept
<1>5. /\ \A j \in Queued(g) : Waiting(g.icept[j], in[j])
      /\ \A j \in Intercepts : in[j] = "new" => Fresh(g.icept[j])
      /\ \A j \in Intercepts : Settled(j, g.icept[j])
  BY <1>1, <1>2 DEF Tied, Fresh, Waiting, Settled, SameAnswer
<1> QED BY <1>3, <1>4, <1>5 DEF Tied

\* A new connection carries nothing.
LEMMA QuietObjects ==
  /\ Quiet(NoConnection)
  /\ \A r : Quiet(Dialling(r)) /\ Dialling(r).fcgi = NULL
BY DEF NoConnection, NewConnection, Dialling, Quiet, Unasked

\* Request i is bound to connection c, which carries nothing.
LEMMA TiedBound ==
  ASSUME NEW h \in Heap, NEW in, NEW X, Tied(h, in, X), NEW g,
         NEW c \in Conns \ (MappedConns(h) \cup X), NEW i \in Intercepts, i \notin Accepted(h),
         Waiting(h.icept[i], in[i]), h.icept[i] \in Intercept,
         NEW k, Quiet(k), k.fcgi \in {NULL, i},
         NEW p, SameAnswer(h.icept[i], p),
         g.conn = [h.conn EXCEPT ![c] = k], g.icept = [h.icept EXCEPT ![i] = p],
         Bound(h, g, i, c), g.pending = h.pending
  PROVE  Tied(g, in, X)
<1>1. /\ \A e \in h.intercept_list : e.conn \in Conns /\ e.intercept \in Intercepts
      /\ Queued(h) \subseteq Intercepts
  BY DEF Heap, Entry, Queued, Elements
<1>2. /\ \A d \in Conns : g.conn[d] = IF d = c THEN k ELSE h.conn[d]
      /\ \A j \in Intercepts : g.icept[j] = IF j = i THEN p ELSE h.icept[j]
      /\ Queued(g) = Queued(h)
  BY DEF Heap, Queued
<1>3. /\ \A e \in h.intercept_list : e.conn # c /\ e.intercept # i
      /\ i \notin Queued(h)
  BY DEF Accepted, MappedConns, MappedIntercepts
<1>4. \A j \in Intercepts : SameAnswer(h.icept[j], g.icept[j])
  BY <1>2 DEF SameAnswer
<1>5. ASSUME NEW d \in Conns \ (MappedConns(g) \cup X)
      PROVE  Quiet(g.conn[d])
  <2>1. d # c /\ d \notin MappedConns(h)
    <3> DEFINE b == [id |-> h.nextId, intercept |-> i, conn |-> c]
    <3>1. b \in g.intercept_list /\ b.conn = c
      BY DEF Bound
    <3>2. \A e \in g.intercept_list : e.conn # d
      BY DEF MappedConns
    <3>3. \A e \in h.intercept_list : e.conn # d
      BY <3>2 DEF Bound
    <3> HIDE DEF b
    <3>4. d # c
      BY <3>1, <3>2
    <3> QED BY <3>3, <3>4 DEF MappedConns
  <2> QED BY <1>2, <2>1 DEF Tied
<1>6. Carries(k, i, p, in[i])
  <2>1. /\ p.response = h.icept[i].response /\ ~p.failed /\ ~Ends(p.response)
        /\ in[i] # "new" /\ (in[i] = "none" => p.response = <<>>) /\ k.readBuf = <<>>
    BY DEF SameAnswer, Waiting, Quiet
  <2>2. p.response \o k.readBuf = p.response
    BY <2>1 DEF Intercept
  <2>3. Faithful(i, p.response)
    BY <2>1 DEF Tied, Settled
  <2> QED BY <2>1, <2>2, <2>3 DEF Carries
<1>7. ASSUME NEW e \in g.intercept_list, e.conn \notin X
      PROVE  Carries(g.conn[e.conn], e.intercept, g.icept[e.intercept], in[e.intercept])
  <2>1. CASE e \in h.intercept_list
    <3>1. Carries(h.conn[e.conn], e.intercept, h.icept[e.intercept], in[e.intercept])
      BY <1>7, <2>1 DEF Tied
    <3>2. /\ g.conn[e.conn] = h.conn[e.conn]
          /\ g.icept[e.intercept] = h.icept[e.intercept]
      BY <1>1, <1>2, <1>3, <2>1
    <3> QED BY <3>1, <3>2
  <2>2. CASE e.conn = c /\ e.intercept = i
    BY <1>2, <1>6, <2>2
  <2> QED BY <2>1, <2>2 DEF Bound
<1>8. /\ \A j \in Queued(g) : Waiting(g.icept[j], in[j])
      /\ \A j \in Intercepts : in[j] = "new" => Fresh(g.icept[j])
      /\ \A j \in Intercepts : Settled(j, g.icept[j])
  BY <1>1, <1>2, <1>4 DEF Tied, Fresh, Waiting, Settled, SameAnswer
<1> QED BY <1>5, <1>7, <1>8 DEF Tied

\* A request is connected: the connection is new or was idle.
LEMMA TiedConnect ==
  ASSUME NEW h, NEW D, Core(h, D), NEW in, Tied(h, in, D),
         NEW i \in Intercepts, i \notin Accepted(h), Waiting(h.icept[i], in[i])
  PROVE  Tied(connect(h, i), in, D)
<1> DEFINE g == connect(h, i)
<1>1. /\ h \in Heap /\ h.available \in Seq(Conns) /\ h.pending \in Seq(Intercepts)
      /\ Idle(h) \cap MappedConns(h) = {} /\ MappedConns(h) \subseteq h.connections
      /\ D \subseteq h.connections /\ D \cap Idle(h) = {}
      /\ h.icept[i] \in Intercept
  BY DEF Core, Heap, PoolInv
<1>2. \/ Queues(h, g, i)
      \/ \E c \in Conns : Dials(h, g, i, c) \/ Takes(h, g, i, c)
  BY ConnectEffect
<1> HIDE DEF g
<1>3. ASSUME Queues(h, g, i)
      PROVE  Tied(g, in, D)
  <2>1. /\ g.conn = h.conn /\ g.icept = h.icept
        /\ g.intercept_list = h.intercept_list
    BY <1>3 DEF Queues
  <2>2. Queued(g) \subseteq Queued(h) \cup {i}
    <3>1. g.pending \in {h.pending, Append(h.pending, i)}
      BY <1>3 DEF Queues
    <3>2. Injective(h.pending) /\ i \notin Elements(h.pending)
      BY DEF Core, QueueInv, Accepted, Queued
    <3>3. Elements(Append(h.pending, i)) = Elements(h.pending) \cup {i}
      BY <1>1, <3>2, ListAppend
    <3> QED BY <3>1, <3>3 DEF Queued
  <2>3. MappedConns(g) = MappedConns(h)
    BY <2>1 DEF MappedConns
  <2>4. \A j \in Queued(g) : Waiting(g.icept[j], in[j])
    BY <2>1, <2>2 DEF Tied
  <2>5. /\ \A d \in Conns \ (MappedConns(g) \cup D) : Quiet(g.conn[d])
        /\ \A j \in Intercepts : in[j] = "new" => Fresh(g.icept[j])
        /\ \A j \in Intercepts : Settled(j, g.icept[j])
    BY <2>1, <2>3 DEF Tied
  <2>6. \A e \in g.intercept_list : e.conn \in D \/
          Carries(g.conn[e.conn], e.intercept, g.icept[e.intercept], in[e.intercept])
    BY <2>1 DEF Tied
  <2> QED BY <2>4, <2>5, <2>6 DEF Tied
<1>4. ASSUME NEW c \in Conns, Dials(h, g, i, c)
      PROVE  Tied(g, in, D)
  <2> DEFINE k == Dialling(h.nextId)
             p == setRequestId(h.icept[i], h.nextId)
  <2>1. /\ c \in Conns \ (MappedConns(h) \cup D) /\ g.conn = [h.conn EXCEPT ![c] = k]
        /\ g.icept = [h.icept EXCEPT ![i] = p]
        /\ g.pending = h.pending /\ Bound(h, g, i, c)
    BY <1>1, <1>4 DEF Dials
  <2>2. SameAnswer(h.icept[i], p)
    BY <1>1 DEF setRequestId, SameAnswer, Intercept
  <2>3. Quiet(k) /\ k.fcgi \in {NULL, i}
    BY QuietObjects
  <2> HIDE DEF k, p
  <2> QED BY <1>1, <2>1, <2>2, <2>3, TiedBound
<1>5. ASSUME NEW c \in Conns, Takes(h, g, i, c)
      PROVE  Tied(g, in, D)
  <2> DEFINE k == Resumed(h.conn[c], h.nextId, i)
             p == Attached(setRequestId(h.icept[i], h.nextId))
  <2>1. /\ g.conn = [h.conn EXCEPT ![c] = k]
        /\ g.icept = [h.icept EXCEPT ![i] = p]
        /\ g.pending = h.pending /\ Bound(h, g, i, c)
        /\ h.available # <<>> /\ c = Head(h.available)
    BY <1>5 DEF Takes
  <2>2. SameAnswer(h.icept[i], p)
    BY <1>1 DEF setRequestId, Attached, SameAnswer, Intercept
  <2>3. c \in Conns \ (MappedConns(h) \cup D)
    <3>1. c \in Idle(h)
      BY <1>1, <2>1 DEF Idle, Elements
    <3> QED BY <1>1, <3>1
  <2>4. Quiet(h.conn[c])
    BY <2>3 DEF Tied
  <2>5. Quiet(k) /\ k.fcgi = i
    <3>1. h.conn[c] \in Connection
      BY <1>1 DEF Heap
    <3>2. /\ k.jobs = h.conn[c].jobs /\ k.readBuf = h.conn[c].readBuf
          /\ k.writeBuf = h.conn[c].writeBuf /\ k.fcgi = i
      BY <3>1 DEF Resumed, InUse, setRequestId, setState, Connection
    <3> HIDE DEF k
    <3> QED BY <2>4, <3>2 DEF Quiet, Unasked
  <2> HIDE DEF k, p
  <2> QED BY <1>1, <2>1, <2>2, <2>3, <2>5, TiedBound
<1> QED BY <1>2, <1>3, <1>4, <1>5 DEF g

\* The head of the queue is served.
LEMMA TiedServeNext ==
  ASSUME NEW h, Core(h, {}), NEW in, Tied(h, in, {})
  PROVE  Tied(serveNext(h), in, {})
<1> DEFINE i == Head(h.pending)
           f == popFromQueue(h)
           b == [f EXCEPT !.crashed = TRUE]
<1>1. CASE h.pending = <<>>
  BY <1>1 DEF serveNext
<1>2. CASE h.pending # <<>>
  <2>1. /\ i \in Intercepts /\ i \in Queued(h) /\ i \notin Accepted(f)
        /\ Queued(f) = Queued(h) \ {i} /\ Core(f, {})
        /\ f.intercept_list = h.intercept_list
        /\ f.conn = h.conn /\ f.icept = h.icept
    BY <1>2, CorePop
  <2>2. serveNext(h) = IF h.icept[i].alive THEN connect(f, i) ELSE b
    BY <1>2 DEF serveNext
  <2> HIDE DEF f, i
  <2>3. f \in Heap
    BY <2>1 DEF Core
  <2>4. /\ b.conn = f.conn /\ b.icept = f.icept /\ b.pending = f.pending
        /\ b.intercept_list = f.intercept_list
    BY <2>3 DEF Heap
  <2> HIDE DEF b
  <2>5. Waiting(f.icept[i], in[i])
    BY <2>1 DEF Tied
  <2>6. Tied(f, in, {})
    <3>1. MappedConns(f) = MappedConns(h)
      BY <2>1 DEF MappedConns
    <3> QED BY <2>1, <3>1 DEF Tied
  <2>7. Tied(connect(f, i), in, {})
    BY <2>1, <2>5, <2>6, TiedConnect
  <2>8. Tied(b, in, {})
    <3>1. MappedConns(b) = MappedConns(f) /\ Queued(b) = Queued(f)
      BY <2>4 DEF MappedConns, Queued
    <3> QED BY <2>4, <2>6, <3>1 DEF Tied
  <2> QED BY <2>2, <2>7, <2>8
<1> QED BY <1>1, <1>2

\* A connection is closed, and its request is no longer in service.
LEMMA TiedClosed ==
  ASSUME NEW h, NEW c \in Conns, NEW D \in SUBSET {c}, Core(h, D),
         NEW in, Tied(h, in, {} \cup {c})
  PROVE  Tied(connectionClosed(h, c), in, {})
<1> DEFINE g == connectionClosed(h, c)
<1>1. /\ h \in Heap /\ \A e \in h.intercept_list : e.conn \in Conns
  BY DEF Core, Heap, Entry
<1>2. Closes(h, g, c)
  BY <1>1, ClosedEffect
<1> HIDE DEF g
<1>3. /\ \A d \in Conns : g.conn[d] = IF d = c THEN NoConnection ELSE h.conn[d]
      /\ g.icept = h.icept /\ Queued(g) = Queued(h)
      /\ g.intercept_list = {e \in h.intercept_list : e.id # h.conn[c].requestId}
  BY <1>1, <1>2 DEF Closes, Heap, Queued
<1>4. /\ \A e \in g.intercept_list : e \in h.intercept_list /\ e.conn # c
      /\ \A e \in h.intercept_list : e \in g.intercept_list \/ e.conn = c
  BY <1>1, <1>3 DEF Core, MapInv
<1>5. ASSUME NEW d \in Conns \ (MappedConns(g) \cup {})
      PROVE  Quiet(g.conn[d])
  <2>1. CASE d = c
    BY <1>3, <2>1, QuietObjects
  <2>2. CASE d # c
    <3>1. d \notin MappedConns(h)
      BY <1>4, <2>2 DEF MappedConns
    <3> QED BY <1>3, <2>2, <3>1 DEF Tied
  <2> QED BY <2>1, <2>2
<1>6. ASSUME NEW e \in g.intercept_list
      PROVE  Carries(g.conn[e.conn], e.intercept, g.icept[e.intercept], in[e.intercept])
  <2>1. e \in h.intercept_list /\ e.conn \in Conns \ {c}
    BY <1>1, <1>4
  <2> QED BY <1>3, <2>1 DEF Tied
<1>7. /\ \A j \in Queued(g) : Waiting(g.icept[j], in[j])
      /\ \A j \in Intercepts : in[j] = "new" => Fresh(g.icept[j])
      /\ \A j \in Intercepts : Settled(j, g.icept[j])
  BY <1>3 DEF Tied
<1>8. Tied(g, in, {})
  BY <1>5, <1>6, <1>7 DEF Tied
<1> QED BY <1>8 DEF g

\* A connection that carries nothing becomes idle.
LEMMA TiedReuse ==
  ASSUME NEW h, NEW c \in Conns, Core(h, {c}), NEW in, Tied(h, in, {} \cup {c}),
         Quiet(h.conn[c])
  PROVE  Tied(reuseConnection(h, c), in, {})
<1> DEFINE g == reuseConnection(h, c)
           k == Reusable(h.conn[c])
<1>1. /\ h \in Heap /\ h.conn[c] \in Connection /\ c \notin MappedConns(h)
  BY DEF Core, Heap, PoolInv
<1>2. SameContent(h.conn[c], k)
  BY <1>1 DEF Reusable, Connection, SameContent
<1>3. g = [h EXCEPT !.conn[c] = k, !.available = Append(@, c)]
  BY DEF reuseConnection
<1> HIDE DEF k, g
<1>4. /\ \A d \in Conns : g.conn[d] = IF d = c THEN k ELSE h.conn[d]
      /\ g.icept = h.icept /\ g.pending = h.pending
      /\ g.intercept_list = h.intercept_list
  BY <1>1, <1>3 DEF Heap
<1>5. \A d \in Conns : SameContent(h.conn[d], g.conn[d])
  BY <1>2, <1>4 DEF SameContent
<1>6. Tied(h, in, {})
  <2>1. \A e \in h.intercept_list : e.conn # c
    BY <1>1 DEF MappedConns
  <2> QED BY <2>1, TiedFilled
<1>7. \A j \in Intercepts : SameAnswer(h.icept[j], g.icept[j])
  BY <1>4 DEF SameAnswer
<1>8. Tied(g, in, {})
  BY <1>1, <1>4, <1>5, <1>6, <1>7, TiedFrame
<1> QED BY <1>8 DEF g

\* What holds of all connections holds without one.
LEMMA TiedWeaken ==
  ASSUME NEW h, NEW in, NEW c, Tied(h, in, {})
  PROVE  Tied(h, in, {} \cup {c})
<1>1. /\ \A d \in Conns \ (MappedConns(h) \cup ({} \cup {c})) : Quiet(h.conn[d])
      /\ \A e \in h.intercept_list :
           \/ e.conn \in {} \cup {c}
           \/ Carries(h.conn[e.conn], e.intercept, h.icept[e.intercept], in[e.intercept])
  BY DEF Tied
<1>2. /\ \A j \in Queued(h) : Waiting(h.icept[j], in[j])
      /\ \A j \in Intercepts : in[j] = "new" => Fresh(h.icept[j])
      /\ \A j \in Intercepts : Settled(j, h.icept[j])
  BY DEF Tied
<1> QED BY <1>1, <1>2, Zenon DEF Tied

\* The request of entry e is taken off the map.
LEMMA TiedErased ==
  ASSUME NEW h, Core(h, {}), NEW e \in h.intercept_list,
         NEW in, Tied(h, in, {} \cup {e.conn}), NEW f, NEW k,
         f.conn = [h.conn EXCEPT ![e.conn] = k], f.icept = h.icept,
         f.pending = h.pending,
         f.intercept_list = {x \in h.intercept_list : x.id # e.id}
  PROVE  Tied(f, in, {} \cup {e.conn})
<1> DEFINE c == e.conn
<1>1. h \in Heap /\ c \in Conns /\ \A x \in h.intercept_list : x.conn \in Conns
  BY DEF Core, Heap, Entry
<1>2. \A x \in h.intercept_list : x \in f.intercept_list \/ x.conn = c
  BY <1>1 DEF Core, MapInv
<1>3. /\ \A d \in Conns \ {c} : SameContent(h.conn[d], f.conn[d])
      /\ \A j \in Intercepts : SameAnswer(h.icept[j], f.icept[j])
      /\ Queued(f) = Queued(h) /\ Queued(h) \subseteq Intercepts
  BY <1>1 DEF Heap, SameContent, SameAnswer, Queued, Elements
<1>4. NULL \notin Intercepts /\ \A x \in h.intercept_list : x.intercept \in Intercepts
  BY <1>1, NullAssumption DEF Heap, Entry
<1> HIDE DEF c
<1>5. Tied(f, in, ({} \cup {c}) \cup {c})
  <2> DEFINE X == {} \cup {c}
  <2>1. Tied(h, in, X)
    BY DEF c
  <2> HIDE DEF X
  <2>2. \A j \in Intercepts \ {NULL} :
          SameAnswer(h.icept[j], f.icept[j]) /\ in[j] = in[j]
    BY <1>3
  <2>3. /\ f.intercept_list \subseteq h.intercept_list
        /\ \A x \in f.intercept_list : x.intercept = NULL => x.conn = c
        /\ Queued(f) \subseteq Queued(h)
        /\ NULL \in Queued(f) => Waiting(f.icept[NULL], in[NULL])
    BY <1>3, <1>4
  <2>4. NULL \in Intercepts => Settled(NULL, f.icept[NULL]) /\ in[NULL] # "new"
    BY <1>4
  <2>5. Tied(f, in, X \cup {c})
    <3>1. Touches(h, in, f, in, c, NULL)
      BY <1>2, <1>3, <2>2, <2>3, <2>4 DEF Touches
    <3> QED BY <1>1, <2>1, <3>1, TiedStep
  <2> QED BY <2>5 DEF X
<1>6. ({} \cup {c}) \cup {c} = {} \cup {c}
  OBVIOUS
<1>7. Tied(f, in, {} \cup {c})
  BY <1>5, <1>6
<1> QED BY <1>7 DEF c

\* A request ends whose connection carries nothing any more.
LEMMA TiedRemove ==
  ASSUME NEW h, Core(h, {}), NEW in, NEW e \in h.intercept_list,
         Tied(h, in, {} \cup {e.conn}), Quiet(h.conn[e.conn])
  PROVE  Tied(removeIntercept(h, e.id), in, {})
<1> DEFINE c == e.conn
           k == Freed(h.conn[c])
<1>1. PICK f : Frees(h, f, e)
  BY RemoveEffect
<1>2. /\ c \in Conns /\ h \in Heap /\ h.conn[c] \in Connection
  BY RemoveEffect DEF Core, Heap
<1>3. /\ Core(f, {c}) /\ f.conn = [h.conn EXCEPT ![c] = k]
      /\ Core(GivenBack(f, c), {})
      /\ f.icept = h.icept /\ f.pending = h.pending
      /\ f.intercept_list = {x \in h.intercept_list : x.id # e.id}
      /\ removeIntercept(h, e.id) = serveNext(GivenBack(f, c))
  BY <1>1 DEF Frees, Changes
<1>4. Quiet(k)
  <2>1. k.jobs = h.conn[c].jobs /\ k.readBuf = h.conn[c].readBuf
        /\ k.writeBuf = h.conn[c].writeBuf
    BY <1>2 DEF Freed, setRequestId, Released, Connection
  <2> HIDE DEF k
  <2> QED BY <2>1 DEF Quiet, Unasked
<1> HIDE DEF k
<1>5. Tied(f, in, {} \cup {e.conn})
  BY <1>3, TiedErased
<1>6. Tied(f, in, {} \cup {c})
  BY <1>5
<1>7. Quiet(f.conn[c])
  BY <1>2, <1>3, <1>4 DEF Heap
<1> HIDE DEF c
<1>8. Tied(GivenBack(f, c), in, {})
  <2>1. Tied(reuseConnection(f, c), in, {})
    BY <1>2, <1>3, <1>6, <1>7, TiedReuse
  <2>2. Tied(connectionClosed(f, c), in, {})
    <3>1. {c} \in SUBSET {c}
      OBVIOUS
    <3> QED BY <1>2, <1>3, <1>6, <3>1, TiedClosed
  <2> QED BY <2>1, <2>2 DEF GivenBack
<1> QED BY <1>3, <1>8, TiedServeNext

\* A request in service may be given another connection.
LEMMA CarriesWaits ==
  ASSUME NEW k \in Connection, NEW i, NEW p \in Intercept, NEW x, Carries(k, i, p, x)
  PROVE  Waiting(p, x)
<1>1. /\ ~p.failed /\ ~Ends(p.response) /\ x # "new"
      /\ x = "none" => p.response \o k.readBuf = <<>>
  BY DEF Carries
<1>2. p.response \in Seq(ResponseRecord) /\ k.readBuf \in Seq(ResponseRecord)
  BY DEF Intercept, Connection
<1>3. p.response \o k.readBuf = <<>> => p.response = <<>>
  BY <1>2
<1> QED BY <1>1, <1>3 DEF Waiting

\* The request of a connection that is refused or lost is connected anew.
LEMMA TiedRetry ==
  ASSUME NEW h, NEW in, Core(h, {}), Tied(h, in, {}), NEW c \in Conns
  PROVE  Tied(connectionClosed(reConnect(h, h.conn[c].requestId), c), in, {})
<1> DEFINE r == h.conn[c].requestId
           f == erase(h, r)
           g == reConnect(h, r)
<1>1. h \in Heap
  BY DEF Core
<1>2. PICK D \in SUBSET {c} : Core(g, D)
  BY CoreReConnect
<1>3. Tied(g, in, {} \cup {c})
  <2>1. CASE ~Mapped(h, r)
    <3>1. g = h
      BY <1>1, <2>1, Lookup DEF reConnect
    <3> QED BY <3>1, TiedWeaken
  <2>2. CASE Mapped(h, r)
    <3> DEFINE e == EntryOf(h, r)
               i == e.intercept
    <3>1. e \in h.intercept_list /\ e.id = r /\ g = connect(f, i)
      BY <1>1, <2>2, Lookup DEF reConnect
    <3> HIDE DEF e, g
    <3>2. e.conn = c
      BY <3>1 DEF Core, MapInv
    <3>3. /\ Core(erase(h, e.id), {} \cup {e.conn}) /\ i \in Intercepts
          /\ MappedIntercepts(erase(h, e.id)) = MappedIntercepts(h) \ {i}
          /\ Queued(erase(h, e.id)) = Queued(h)
      BY <3>1, CoreErase, Zenon
    <3>4. i \in MappedIntercepts(h) /\ i \notin Queued(h)
      BY <1>1, <3>1 DEF MappedIntercepts, Core, QueueInv
    <3>5. Carries(h.conn[c], i, h.icept[i], in[i])
      BY <3>1, <3>2 DEF Tied
    <3>6. h.icept[i] \in Intercept /\ h.conn[c] \in Connection
      BY <1>1, <3>3 DEF Heap
    <3> HIDE DEF i
    <3>7. Waiting(h.icept[i], in[i])
      BY <3>5, <3>6, CarriesWaits
    <3>8. Core(f, {c}) /\ i \notin Accepted(f)
      <4>1. {} \cup {c} = {c}
        OBVIOUS
      <4> HIDE DEF r
      <4>2. /\ Core(f, {} \cup {c})
            /\ MappedIntercepts(f) = MappedIntercepts(h) \ {i}
            /\ Queued(f) = Queued(h)
        BY <3>1, <3>2, <3>3
      <4> QED BY <3>4, <4>1, <4>2 DEF Accepted
    <3>9. /\ f.conn = h.conn /\ f.icept = h.icept /\ f.pending = h.pending
          /\ f.intercept_list = {x \in h.intercept_list : x.id # e.id}
      BY <1>1, <3>1 DEF erase, Heap
    <3> HIDE DEF f, r
    <3>10. Tied(f, in, {} \cup {c})
      <4>1. Tied(h, in, {} \cup {e.conn})
        BY TiedWeaken
      <4>2. f.conn = [h.conn EXCEPT ![e.conn] = h.conn[c]]
        BY <1>1, <3>2, <3>9 DEF Heap
      <4>3. Tied(f, in, {} \cup {e.conn})
        BY <3>1, <3>9, <4>1, <4>2, TiedErased
      <4> QED BY <3>2, <4>3
    <3>11. {} \cup {c} = {c}
      OBVIOUS
    <3>12. Waiting(f.icept[i], in[i])
      BY <3>7, <3>9
    <3>13. Tied(connect(f, i), in, {c})
      BY <3>3, <3>8, <3>10, <3>11, <3>12, TiedConnect DEF i
    <3> QED BY <3>1, <3>11, <3>13 DEF i
  <2> QED BY <2>1, <2>2
<1> HIDE DEF g
<1>4. Tied(connectionClosed(g, c), in, {})
  BY <1>2, <1>3, TiedClosed
<1> QED BY <1>4 DEF g, r

\* The types of the records that are written.
RequestType == {"BEGIN", "STDIN", "EOF"}

\* What is written to the connection of a request: its beginning first, and
\* then anything but a beginning.
LEMMA CarriesWritten ==
  ASSUME NEW k \in Connection, NEW i \in Intercepts, k.fcgi = i, NEW p \in Intercept,
         NEW x, Carries(k, i, p, x),
         NEW types \in Seq(RequestType), NEW endflag,
         \/ x = "none" /\ types = <<"BEGIN">>
         \/ x \in {"header", "done"} /\ \A n \in DOMAIN types : types[n] # "BEGIN",
         NEW y \in {"header", "done"}
  PROVE  LET records == [n \in DOMAIN types |-> [type |-> types[n], req |-> k.fcgi]]
         IN  Carries(Written(k, records, endflag), i, p, y)
<1> DEFINE records == [n \in DOMAIN types |-> [type |-> types[n], req |-> k.fcgi]]
           l == Written(k, records, endflag)
           s == p.response \o k.readBuf
           t == p.response \o l.readBuf
           old == k.writeBuf
           new == l.writeBuf
<1>1. /\ l.jobs = k.jobs /\ l.readBuf = k.readBuf /\ l.fcgi = k.fcgi
      /\ new = old \o records
  BY DEF Written, Connection
<1>2. /\ ~p.failed /\ ~Ends(p.response) /\ Faithful(i, s)
      /\ \/ Quiet(k) /\ (x = "none" => s = <<>>)
         \/ /\ x \in {"header", "done"}
            /\ \/ Asked(k, i) /\ s = <<>>
               \/ Answering(k, i, s)
               \/ Over(k, s)
  BY DEF Carries
<1>3. \A n \in DOMAIN types : records[n] = [type |-> types[n], req |-> i]
  BY <1>2
<1>4. old \in Seq(RequestRecord) /\ DOMAIN records = 1 .. Len(types) /\ Len(types) \in Nat
  BY DEF Connection
<1>5. records \in Seq([type : RequestType, req : {i}]) /\ Len(records) = Len(types)
  <2>1. ASSUME NEW n \in DOMAIN types
        PROVE  records[n] \in [type : RequestType, req : {i}]
    <3> HIDE DEF records
    <3>1. records[n] = [type |-> types[n], req |-> i]
      BY <1>3
    <3>2. types[n] \in RequestType
      OBVIOUS
    <3> QED BY <3>1, <3>2
  <2>2. records = [n \in 1 .. Len(types) |-> records[n]]
    BY <1>4
  <2> DEFINE R == [type : RequestType, req : {i}]
  <2>3. \A n \in 1 .. Len(types) : records[n] \in R
    BY <1>4, <2>1
  <2> HIDE DEF records, R
  <2> QED BY <1>4, <2>2, <2>3 DEF R
<1> HIDE DEF records, l
<1>6. /\ \A n \in DOMAIN old : n \in DOMAIN new /\ new[n] = old[n]
      /\ \A n \in DOMAIN types : new[n + Len(old)] = records[n] /\ n + Len(old) \in DOMAIN new
  BY <1>1, <1>4, <1>5
<1>10. ASSUME NEW n \in DOMAIN new, n \notin DOMAIN old
       PROVE  new[n].req = i /\ \E m \in DOMAIN types : new[n].type = types[m]
  <2>1. PICK m \in DOMAIN types : new[n] = records[m]
    <3>1. n - Len(old) \in DOMAIN types /\ new[n] = records[n - Len(old)]
      BY <1>1, <1>4, <1>5, <1>10
    <3> QED BY <3>1
  <2>2. new[n] = [type |-> types[m], req |-> i]
    BY <1>3, <2>1
  <2> HIDE DEF new
  <2>3. new[n].req = i /\ new[n].type = types[m]
    BY <2>2
  <2> QED BY <2>3
<1>7. t = s
  BY <1>1
<1>8. CASE x = "none"
  <2>1. types = <<"BEGIN">> /\ Quiet(k) /\ s = <<>>
    BY <1>2, <1>8
  <2>2. 1 \in DOMAIN types /\ types[1] = "BEGIN" /\ \A n \in DOMAIN types : n = 1
    BY <2>1
  <2>3. \E n \in DOMAIN new : new[n] = [type |-> "BEGIN", req |-> i]
    BY <1>3, <1>6, <2>2
  <2>4. \A n \in DOMAIN new : new[n].type = "BEGIN" => new[n].req = i
    <3>1. \A n \in DOMAIN old : old[n].type # "BEGIN"
      BY <2>1 DEF Quiet, Unasked
    <3> QED BY <1>6, <1>10, <3>1
  <2>5. Asked(l, i)
    BY <1>1, <2>1, <2>3, <2>4 DEF Asked, Quiet
  <2> HIDE DEF s, t
  <2>6. /\ ~p.failed /\ ~Ends(p.response) /\ Faithful(i, t) /\ l.fcgi = i
        /\ Asked(l, i) /\ t = <<>>
    BY <1>1, <1>2, <1>7, <2>1, <2>5
  <2> QED BY <2>6 DEF Carries, t, l, records
<1>9. CASE x # "none"
  <2>1. \A n \in DOMAIN types : types[n] # "BEGIN"
    BY <1>9
  <2>2. \A n \in DOMAIN new : new[n].type = "BEGIN" => n \in DOMAIN old /\ new[n] = old[n]
    BY <1>6, <1>10, <2>1
  <2>3. (Unasked(k) => Unasked(l)) /\ (Quiet(k) => Quiet(l))
    BY <1>1, <2>2 DEF Unasked, Quiet
  <2>4. Asked(k, i) => Asked(l, i)
    BY <1>1, <1>6, <2>2 DEF Asked
  <2> HIDE DEF s, t
  <2>5. Answering(k, i, s) => Answering(l, i, t)
    BY <1>1, <1>7, <2>3 DEF Answering
  <2>6. Over(k, s) => Over(l, t)
    BY <1>1, <1>7, <2>3 DEF Over
  <2>7. /\ ~p.failed /\ ~Ends(p.response) /\ Faithful(i, t) /\ l.fcgi = i
        /\ \/ Quiet(l)
           \/ Asked(l, i) /\ t = <<>>
           \/ Answering(l, i, t)
           \/ Over(l, t)
    BY <1>1, <1>2, <1>7, <1>9, <2>3, <2>4, <2>5, <2>6
  <2> QED BY <2>7 DEF Carries, t, l, records
<1> QED BY <1>8, <1>9

\* A request streams in: its connection carries it on, if there is one. A
\* request that waits again after its connection was lost streams to nobody.
LEMMA TiedWrite ==
  ASSUME NEW h, Core(h, {}), NEW in \in [Intercepts -> Input], Tied(h, in, {}),
         NEW i \in Intercepts,
         NEW types \in Seq(RequestType), NEW endflag,
         \/ in[i] = "none" /\ types = <<"BEGIN">>
         \/ in[i] \in {"header", "done"} /\ \A n \in DOMAIN types : types[n] # "BEGIN",
         NEW y \in {"header", "done"}
  PROVE  Tied(writeRecords(h, h.icept[i].requestId, types, endflag),
              [in EXCEPT ![i] = y], {})
<1> DEFINE r == h.icept[i].requestId
           c == getServerConnection(h, r)
           g == writeRecords(h, r, types, endflag)
           new == [in EXCEPT ![i] = y]
<1>1. /\ h \in Heap
      /\ \A e \in h.intercept_list : e.conn \in Conns /\ e.intercept \in Intercepts
  BY DEF Core, Heap, Entry
<1>2. new[i] = y /\ \A j \in Intercepts \ {i} : new[j] = in[j]
  OBVIOUS
<1>3. Settled(i, h.icept[i]) /\ (i \in Queued(h) => Waiting(h.icept[i], y))
  BY DEF Tied, Waiting
<1>4. \A e \in h.intercept_list : e.id = r <=> e.intercept = i
  BY <1>1 DEF Core, MapInv
<1> HIDE DEF new
<1>5. CASE c = NULL
  <2>1. g = h
    BY <1>5 DEF writeRecords
  <2>2. \A e \in h.intercept_list : e.intercept # i
    <3> SUFFICES ASSUME NEW e \in h.intercept_list, e.intercept = i
                 PROVE  FALSE
      OBVIOUS
    <3>1. Mapped(h, r)
      BY <1>4 DEF Mapped
    <3>2. EntryOf(h, r) \in h.intercept_list /\ c = EntryOf(h, r).conn
      BY <1>1, <3>1, Lookup
    <3> QED BY <1>1, <1>5, <3>2, NullAssumption
  <2> HIDE DEF g, c
  <2>3. Tied(h, new, {} \cup {NULL})
    <3>1. \A d \in Conns \ {NULL} : SameContent(h.conn[d], h.conn[d])
      BY DEF SameContent
    <3>2. \A j \in Intercepts \ {i} :
            SameAnswer(h.icept[j], h.icept[j]) /\ new[j] = in[j]
      BY <1>2 DEF SameAnswer
    <3>3. /\ \A e \in h.intercept_list : e \in h.intercept_list \/ e.conn = NULL
          /\ \A e \in h.intercept_list : e.intercept = i => e.conn = NULL
          /\ i \in Intercepts => Settled(i, h.icept[i]) /\ new[i] # "new"
          /\ i \in Queued(h) => Waiting(h.icept[i], new[i])
          /\ h.intercept_list \subseteq h.intercept_list /\ Queued(h) \subseteq Queued(h)
      BY <1>2, <1>3, <2>2
    <3>4. Touches(h, in, h, new, NULL, i)
      BY <3>1, <3>2, <3>3 DEF Touches
    <3> QED BY <1>1, <3>4, TiedStep
  <2>4. Tied(h, new, {})
    <3>1. NULL \notin Conns /\ \A e \in h.intercept_list : e.conn # NULL
      BY <1>1, NullAssumption
    <3> QED BY <2>3, <3>1, TiedFilled
  <2> QED BY <2>1, <2>4 DEF g, new
<1>6. CASE c # NULL
  <2>1. PICK e \in h.intercept_list : e.id = r /\ c = e.conn
    BY <1>1, <1>6, Lookup
  <2>2. e.intercept = i /\ c \in Conns /\ i \notin Queued(h)
    BY <1>1, <1>4, <2>1 DEF Core, QueueInv, MappedIntercepts
  <2> DEFINE records == [n \in DOMAIN types |-> [type |-> types[n], req |-> h.conn[c].fcgi]]
             b == [h EXCEPT !.crashed = TRUE]
             w == [h EXCEPT !.conn[c] = Written(@, records, endflag)]
  <2>3. h.conn[c] \in Connection /\ h.icept[i] \in Intercept
    BY <1>1, <2>2 DEF Heap
  <2>4. g = b \/ (h.conn[c].fcgi # NULL /\ g = w)
    <3>1. phpWrite(h, c, records, endflag) \in {b, w}
      BY DEF phpWrite
    <3> HIDE DEF w, b, c, records
    <3>2. g = b \/ (h.conn[c].fcgi # NULL /\ g = phpWrite(h, c, records, endflag))
      BY <1>6 DEF writeRecords, c, records, b
    <3> QED BY <3>1, <3>2
  <2>5. Carries(h.conn[c], i, h.icept[i], in[i])
    BY <2>1, <2>2 DEF Tied
  <2>6. Carries(h.conn[c], i, h.icept[i], y)
    <3>1. h.conn[c].fcgi \in {NULL, i}
      BY <2>5 DEF Carries
    <3>2. SameAnswer(h.icept[i], h.icept[i])
      BY DEF SameAnswer
    <3> QED BY <2>5, <3>1, <3>2, CarriesKept
  <2>7. h.conn[c].fcgi # NULL =>
          Carries(Written(h.conn[c], records, endflag), i, h.icept[i], y)
    <3> SUFFICES ASSUME h.conn[c].fcgi # NULL
                 PROVE  Carries(Written(h.conn[c], records, endflag), i, h.icept[i], y)
      OBVIOUS
    <3>1. h.conn[c].fcgi = i
      BY <2>5 DEF Carries
    <3> DEFINE z == h.conn[c]
               p == h.icept[i]
               x == in[i]
    <3>2. /\ z \in Connection /\ z.fcgi = i /\ p \in Intercept /\ Carries(z, i, p, x)
          /\ \/ x = "none" /\ types = <<"BEGIN">>
             \/ x \in {"header", "done"} /\ \A n \in DOMAIN types : types[n] # "BEGIN"
      BY <2>3, <2>5, <3>1
    <3>3. records = [n \in DOMAIN types |-> [type |-> types[n], req |-> z.fcgi]]
      OBVIOUS
    <3> HIDE DEF z, p, x, records
    <3>4. Carries(Written(z, records, endflag), i, p, y)
      BY <3>2, <3>3, CarriesWritten
    <3> QED BY <3>4 DEF z, p
  <2> HIDE DEF c, g, r
  <2> HIDE DEF records
  <2>8. /\ \/ g.conn[c] = h.conn[c]
           \/ /\ h.conn[c].fcgi # NULL
              /\ g.conn[c] = Written(h.conn[c], records, endflag)
        /\ \A d \in Conns \ {c} : g.conn[d] = h.conn[d]
        /\ g.icept = h.icept
        /\ g.intercept_list = h.intercept_list /\ g.pending = h.pending
    BY <1>1, <2>2, <2>4 DEF Heap
  <2> HIDE DEF w, b
  <2>9. \A x \in h.intercept_list : x.conn = c <=> x.intercept = i
    <3>1. \A x \in h.intercept_list : x.conn = c => x.id = r
      BY <2>1, <2>2 DEF Core, MapInv
    <3>2. \A x \in h.intercept_list : x.id = r => x.conn = c
      BY <1>1, <2>1, <2>2 DEF Core, MapInv
    <3> QED BY <1>4, <3>1, <3>2 DEF r
  <2>10. Tied(g, new, {} \cup {c})
    <3>1. /\ \A j \in Intercepts \ {i} :
               SameAnswer(h.icept[j], g.icept[j]) /\ new[j] = in[j]
          /\ \A d \in Conns \ {c} : SameContent(h.conn[d], g.conn[d])
          /\ Queued(g) = Queued(h)
      BY <1>2, <2>8 DEF SameAnswer, SameContent, Queued
    <3>2. /\ g.intercept_list \subseteq h.intercept_list
          /\ \A x \in h.intercept_list : x \in g.intercept_list \/ x.conn = c
          /\ \A x \in g.intercept_list : x.intercept = i => x.conn = c
          /\ Queued(g) \subseteq Queued(h) /\ (i \in Queued(g) => Waiting(g.icept[i], new[i]))
          /\ i \in Intercepts => Settled(i, g.icept[i]) /\ new[i] # "new"
      BY <1>1, <1>2, <1>3, <2>2, <2>8, <2>9, <3>1
    <3>3. Touches(h, in, g, new, c, i)
      BY <3>1, <3>2 DEF Touches
    <3> QED BY <1>1, <3>3, TiedStep
  <2>11. Tied(g, new, {})
    <3>1. c \notin Conns \ MappedConns(g)
      BY <2>1, <2>8 DEF MappedConns
    <3>2. \A x \in g.intercept_list : x.conn = c =>
            Carries(g.conn[c], x.intercept, g.icept[x.intercept], new[x.intercept])
      BY <1>2, <2>6, <2>7, <2>8, <2>9
    <3> QED BY <2>10, <3>1, <3>2, TiedFilled
  <2> QED BY <2>11 DEF g, r, new
<1> QED BY <1>5, <1>6

-----------------------------------------------------------------------------
(***************************************************************************)
(* The application, and what is read from it.                              *)
(***************************************************************************)

\* Records without FCGI_BEGIN_REQUEST start nothing.
LEMMA ReceiveOn ==
  ASSUME NEW records, \A n \in DOMAIN records : records[n].type # "BEGIN"
  PROVE  /\ AppReceive({}, records) = {}
         /\ \A jobs, i, n : WorksOn(jobs, i, n) => WorksOn(AppReceive(jobs, records), i, n)
<1> DEFINE Has(type, j) == \E n \in DOMAIN records : records[n] = [type |-> type, req |-> j]
           started == {j \in Intercepts : Has("BEGIN", j)}
           New == [req: started, eof: {FALSE}, sent: {0}]
<1>1. started = {}
  OBVIOUS
<1>2. New = {}
  <2> SUFFICES ASSUME NEW x \in New
               PROVE  FALSE
    OBVIOUS
  <2>1. x.req \in started
    OBVIOUS
  <2> QED BY <1>1, <2>1
<1> HIDE DEF New
<1>3. AppReceive({}, records) = {}
  BY <1>2 DEF AppReceive, New
<1>4. ASSUME NEW jobs, NEW i, NEW n, WorksOn(jobs, i, n)
      PROVE  WorksOn(AppReceive(jobs, records), i, n)
  <2>1. PICK eof \in BOOLEAN : jobs = {[req |-> i, eof |-> eof, sent |-> n]}
    BY <1>4 DEF WorksOn
  <2> DEFINE job == [req |-> i, eof |-> eof, sent |-> n]
  <2>2. AppReceive({job}, records) = {[job EXCEPT !.eof = @ \/ Has("EOF", job.req)]}
    BY <1>2 DEF AppReceive, New
  <2>3. [job EXCEPT !.eof = @ \/ Has("EOF", job.req)] =
          [req |-> i, eof |-> eof \/ Has("EOF", i), sent |-> n]
    OBVIOUS
  <2>4. (eof \/ Has("EOF", i)) \in BOOLEAN
    OBVIOUS
  <2> QED BY <2>1, <2>2, <2>3, <2>4 DEF WorksOn
<1> QED BY <1>3, <1>4

\* The records of one request start its job.
LEMMA ReceiveFirst ==
  ASSUME NEW i \in Intercepts, NEW records \in Seq(RequestRecord),
         \E n \in DOMAIN records : records[n] = [type |-> "BEGIN", req |-> i],
         \A n \in DOMAIN records : records[n].type = "BEGIN" => records[n].req = i
  PROVE  WorksOn(AppReceive({}, records), i, 0)
<1> DEFINE Has(type, j) == \E n \in DOMAIN records : records[n] = [type |-> type, req |-> j]
           started == {j \in Intercepts : Has("BEGIN", j)}
           New == [req: started, eof: {FALSE}, sent: {0}]
           job == [req |-> i, eof |-> FALSE, sent |-> 0]
<1>1. started = {i}
  OBVIOUS
<1>2. New = {job}
  <2>1. job \in New
    BY <1>1
  <2>2. ASSUME NEW x \in New
        PROVE  x = job
    <3>1. x.req = i /\ x.eof = FALSE /\ x.sent = 0
      BY <1>1
    <3> QED BY <3>1
  <2> HIDE DEF New, job
  <2> QED BY <2>1, <2>2
<1>3. AppReceive({}, records) = {[j EXCEPT !.eof = @ \/ Has("EOF", j.req)] : j \in {} \cup New}
  BY DEF AppReceive
<1> HIDE DEF New
<1>4. AppReceive({}, records) = {[job EXCEPT !.eof = @ \/ Has("EOF", job.req)]}
  BY <1>2, <1>3
<1>5. [job EXCEPT !.eof = @ \/ Has("EOF", job.req)] =
        [req |-> i, eof |-> FALSE \/ Has("EOF", i), sent |-> 0]
  OBVIOUS
<1>6. (FALSE \/ Has("EOF", i)) \in BOOLEAN
  OBVIOUS
<1> QED BY <1>4, <1>5, <1>6 DEF WorksOn

\* The application takes in what was written.
LEMMA CarriesFlushed ==
  ASSUME NEW k \in Connection
  PROVE  /\ Quiet(k) => Quiet(Flushed(k))
         /\ \A i \in Intercepts : \A p, x : Carries(k, i, p, x) => Carries(Flushed(k), i, p, x)
<1> DEFINE l == Flushed(k)
<1>1. /\ l.jobs = AppReceive(k.jobs, k.writeBuf) /\ l.writeBuf = <<>>
      /\ l.readBuf = k.readBuf /\ l.fcgi = k.fcgi
      /\ k.writeBuf \in Seq(RequestRecord)
  BY DEF Flushed, Connection
<1> HIDE DEF l
<1>2. Unasked(l)
  BY <1>1 DEF Unasked
<1>3. Quiet(k) => Quiet(l)
  <2>1. Quiet(k) => AppReceive({}, k.writeBuf) = {}
    BY ReceiveOn DEF Quiet, Unasked
  <2> QED BY <1>1, <1>2, <2>1 DEF Quiet
<1>4. ASSUME NEW i \in Intercepts, NEW p, NEW x, Carries(k, i, p, x)
      PROVE  Carries(l, i, p, x)
  <2> DEFINE s == p.response \o k.readBuf
  <2>1. p.response \o l.readBuf = s
    BY <1>1
  <2>2. Asked(k, i) /\ s = <<>> => Answering(l, i, s)
    <3> SUFFICES ASSUME Asked(k, i), s = <<>>
                 PROVE  Answering(l, i, s)
      OBVIOUS
    <3>1. WorksOn(AppReceive({}, k.writeBuf), i, 0)
      BY <1>1, ReceiveFirst DEF Asked
    <3>2. WorksOn(l.jobs, i, 0)
      BY <1>1, <3>1 DEF Asked
    <3>3. ~Ends(s) /\ Len(s) = 0
      BY DEF Ends
    <3> HIDE DEF s
    <3> QED BY <1>2, <3>2, <3>3 DEF Answering
  <2>3. Answering(k, i, s) => Answering(l, i, s)
    <3> HIDE DEF s
    <3> SUFFICES ASSUME Answering(k, i, s)
                 PROVE  Answering(l, i, s)
      OBVIOUS
    <3>1. \A n \in DOMAIN k.writeBuf : k.writeBuf[n].type # "BEGIN"
      BY DEF Answering, Unasked
    <3>2. WorksOn(k.jobs, i, Len(s)) => WorksOn(AppReceive(k.jobs, k.writeBuf), i, Len(s))
      BY <3>1, ReceiveOn
    <3> QED BY <1>1, <1>2, <3>2 DEF Answering
  <2>4. Over(k, s) => Over(l, s)
    <3>1. Over(k, s) => AppReceive({}, k.writeBuf) = {}
      BY ReceiveOn DEF Over, Unasked
    <3> QED BY <1>1, <1>2, <3>1 DEF Over
  <2>5. /\ ~p.failed /\ ~Ends(p.response) /\ Faithful(i, s)
        /\ k.fcgi \in {NULL, i}
        /\ \/ Quiet(k) /\ x # "new" /\ (x = "none" => s = <<>>)
           \/ /\ x \in {"header", "done"}
              /\ \/ Asked(k, i) /\ s = <<>>
                 \/ Answering(k, i, s)
                 \/ Over(k, s)
    BY <1>4 DEF Carries
  <2> HIDE DEF s
  <2>6. /\ ~p.failed /\ ~Ends(p.response) /\ Faithful(i, s)
        /\ l.fcgi \in {NULL, i}
        /\ \/ Quiet(l) /\ x # "new" /\ (x = "none" => s = <<>>)
           \/ /\ x \in {"header", "done"}
              /\ Answering(l, i, s) \/ Over(l, s)
    BY <1>1, <1>3, <2>2, <2>3, <2>4, <2>5
  <2> QED BY <2>1, <2>6 DEF Carries
<1> QED BY <1>3, <1>4 DEF l

\* A response goes on with the next output or ends.
LEMMA FaithfulAppend ==
  ASSUME NEW i, NEW s \in Seq(ResponseRecord), Faithful(i, s), ~Ends(s)
  PROVE  LET out == Append(s, [type |-> "STDOUT", req |-> i, n |-> Len(s) + 1])
             end == Append(s, [type |-> "END", req |-> i, n |-> Len(s)])
         IN  Faithful(i, out) /\ ~Ends(out) /\ Faithful(i, end) /\ Ends(end)
<1>1. \A k \in DOMAIN s : s[k] = [type |-> "STDOUT", req |-> i, n |-> k]
  BY DEF Faithful, Ends
<1> DEFINE out == Append(s, [type |-> "STDOUT", req |-> i, n |-> Len(s) + 1])
           end == Append(s, [type |-> "END", req |-> i, n |-> Len(s)])
<1>2. /\ Len(out) = Len(s) + 1 /\ DOMAIN out = 1 .. Len(s) + 1
      /\ Len(end) = Len(s) + 1 /\ DOMAIN end = 1 .. Len(s) + 1
      /\ Len(s) \in Nat /\ DOMAIN s = 1 .. Len(s)
  OBVIOUS
<1>3. /\ out[Len(s) + 1] = [type |-> "STDOUT", req |-> i, n |-> Len(s) + 1]
      /\ end[Len(s) + 1] = [type |-> "END", req |-> i, n |-> Len(s)]
      /\ \A k \in 1 .. Len(s) : out[k] = s[k] /\ end[k] = s[k]
  OBVIOUS
<1> HIDE DEF out, end
<1>4. Faithful(i, out)
  <2>1. \A k \in DOMAIN out : out[k] = [type |-> "STDOUT", req |-> i, n |-> k]
    BY <1>1, <1>2, <1>3
  <2> QED BY <2>1 DEF Faithful
<1>5. Faithful(i, end)
  <2>1. \A k \in DOMAIN end : \/ end[k] = [type |-> "STDOUT", req |-> i, n |-> k]
                              \/ k = Len(s) + 1
    BY <1>1, <1>2, <1>3
  <2> QED BY <1>2, <1>3, <2>1 DEF Faithful
<1>6. ~Ends(out) /\ Ends(end)
  BY <1>2, <1>3 DEF Ends
<1> QED BY <1>4, <1>5, <1>6 DEF out, end

\* What is appended to the second of two sequences is appended to both.
LEMMA JoinAppend ==
  ASSUME NEW R, NEW a \in Seq(R), NEW b \in Seq(R), NEW r \in R
  PROVE  a \o b \in Seq(R) /\ a \o Append(b, r) = Append(a \o b, r)
OBVIOUS

\* The application answers the request of a connection.
LEMMA CarriesAnswered ==
  ASSUME NEW k \in Connection, NEW i, NEW p \in Intercept, NEW x, Carries(k, i, p, x),
         NEW j \in k.jobs, NEW record, NEW left,
         \/ /\ record = [type |-> "STDOUT", req |-> j.req, n |-> j.sent + 1]
            /\ left = {[j EXCEPT !.sent = @ + 1]}
         \/ record = [type |-> "END", req |-> j.req, n |-> j.sent] /\ left = {}
  PROVE  Carries(Answered(k, j, record, left), i, p, x)
<1> DEFINE s == p.response \o k.readBuf
           l == Answered(k, j, record, left)
           t == p.response \o l.readBuf
<1>1. /\ Faithful(i, s) /\ ~p.failed /\ ~Ends(p.response) /\ k.fcgi \in {NULL, i}
      /\ x \in {"header", "done"} /\ Answering(k, i, s)
  BY DEF Carries, Quiet, Asked, Over
<1>2. /\ l.jobs = (k.jobs \ {j}) \cup left /\ l.writeBuf = k.writeBuf
      /\ l.readBuf = Append(k.readBuf, record) /\ l.fcgi = k.fcgi
  BY DEF Answered, Connection
<1>3. s \in Seq(ResponseRecord) /\ t = Append(s, record)
  <2>1. p.response \in Seq(ResponseRecord) /\ k.readBuf \in Seq(ResponseRecord)
    BY DEF Intercept, Connection
  <2>2. record \in ResponseRecord
    <3>1. j \in Job
      BY DEF Connection
    <3> QED BY <3>1 DEF Job, ResponseRecord
  <2> HIDE DEF l
  <2>3. l.readBuf = Append(k.readBuf, record)
    BY <1>2
  <2> DEFINE a == p.response
             b == k.readBuf
             R == ResponseRecord
  <2>4. a \in Seq(R) /\ b \in Seq(R) /\ record \in R
    BY <2>1, <2>2
  <2>5. s = a \o b /\ t = a \o Append(b, record)
    BY <2>3
  <2> HIDE DEF a, b, R, s, t
  <2>6. a \o b \in Seq(R) /\ a \o Append(b, record) = Append(a \o b, record)
    BY <2>4, JoinAppend
  <2>7. s \in Seq(R) /\ t = Append(s, record)
    BY <2>5, <2>6
  <2> QED BY <2>7 DEF R
<1> HIDE DEF s, t, l
<1>4. PICK eof \in BOOLEAN : k.jobs = {[req |-> i, eof |-> eof, sent |-> Len(s)]}
  BY <1>1 DEF Answering, WorksOn
<1>5. j = [req |-> i, eof |-> eof, sent |-> Len(s)] /\ k.jobs \ {j} = {}
  BY <1>4
<1>6. j.req = i /\ j.sent = Len(s)
  BY <1>5
<1>7. ~Ends(s) /\ Unasked(l)
  BY <1>1, <1>2 DEF Answering, Unasked
<1>8. CASE record = [type |-> "STDOUT", req |-> j.req, n |-> j.sent + 1]
           /\ left = {[j EXCEPT !.sent = @ + 1]}
  <2>1. Faithful(i, t) /\ ~Ends(t)
    BY <1>1, <1>3, <1>6, <1>7, <1>8, FaithfulAppend
  <2>2. Len(t) = Len(s) + 1
    BY <1>3
  <2>3. left = {[req |-> i, eof |-> eof, sent |-> Len(t)]}
    BY <1>5, <1>8, <2>2
  <2>4. Answering(l, i, t)
    BY <1>2, <1>5, <1>7, <2>1, <2>3 DEF Answering, WorksOn
  <2>5. /\ ~p.failed /\ ~Ends(p.response) /\ Faithful(i, t)
        /\ l.fcgi \in {NULL, i}
        /\ x \in {"header", "done"} /\ Answering(l, i, t)
    BY <1>1, <1>2, <2>1, <2>4
  <2> QED BY <2>5 DEF Carries, t, l
<1>9. CASE record = [type |-> "END", req |-> j.req, n |-> j.sent] /\ left = {}
  <2>1. Faithful(i, t) /\ Ends(t)
    BY <1>1, <1>3, <1>6, <1>7, <1>9, FaithfulAppend
  <2>2. Over(l, t)
    BY <1>2, <1>5, <1>7, <1>9, <2>1 DEF Over
  <2>3. /\ ~p.failed /\ ~Ends(p.response) /\ Faithful(i, t)
        /\ l.fcgi \in {NULL, i}
        /\ x \in {"header", "done"} /\ Over(l, t)
    BY <1>1, <1>2, <2>1, <2>2
  <2> QED BY <2>3 DEF Carries, t, l
<1> QED BY <1>8, <1>9

\* A block that can only stop at its end is decoded as a whole.
LEMMA DecodedBlock ==
  ASSUME NEW R, NEW block \in Seq(R), \A m \in StopsAt(block) : m = Len(block)
  PROVE  Decoded(block) = block
<1>1. CASE StopsAt(block) = {}
  BY <1>1 DEF Decoded
<1>2. CASE StopsAt(block) # {}
  <2> DEFINE First(k) == \A m \in StopsAt(block) : k <= m
             k == CHOOSE n \in StopsAt(block) : First(n)
  <2>1. Len(block) \in StopsAt(block) /\ Len(block) \in Nat
    BY <1>2
  <2>2. First(Len(block))
    BY <2>1
  <2>3. k \in StopsAt(block)
    <3> HIDE DEF First
    <3> QED BY <2>1, <2>2
  <2>4. k = Len(block)
    <3> HIDE DEF k
    <3> QED BY <2>3
  <2>5. Decoded(block) = SubSeq(block, 1, k)
    BY <1>2, Zenon DEF Decoded
  <2> HIDE DEF k
  <2>6. SubSeq(block, 1, Len(block)) = block
    OBVIOUS
  <2> QED BY <2>4, <2>5, <2>6
<1> QED BY <1>1, <1>2

\* A buffer that can only stop at its end is decoded as a whole, in whatever
\* two blocks it comes, and the status is that of its last record.
LEMMA DecodedWhole ==
  ASSUME NEW R, NEW buf \in Seq(R), \A m \in StopsAt(buf) : m = Len(buf),
         NEW cut \in 1 .. Len(buf)
  PROVE  LET first  == SubSeq(buf, 1, cut)
             second == SubSeq(buf, cut + 1, Len(buf))
         IN  /\ Decoded(first) \o Decoded(second) = buf
             /\ StopsAt(IF second = <<>> THEN first ELSE second) # {}
                  <=> Len(buf) \in StopsAt(buf)
<1> DEFINE first  == SubSeq(buf, 1, cut)
           second == SubSeq(buf, cut + 1, Len(buf))
           last   == IF second = <<>> THEN first ELSE second
<1>1. Len(buf) \in Nat /\ cut \in Nat /\ 1 <= cut /\ cut <= Len(buf)
      /\ DOMAIN buf = 1 .. Len(buf)
  OBVIOUS
<1>2. /\ first \in Seq(R) /\ Len(first) = cut /\ DOMAIN first = 1 .. cut
      /\ second \in Seq(R) /\ Len(second) = Len(buf) - cut
      /\ DOMAIN second = 1 .. Len(buf) - cut
  OBVIOUS
<1>3. /\ \A n \in 1 .. cut : first[n] = buf[n]
      /\ \A n \in 1 .. Len(buf) - cut : second[n] = buf[cut + n]
  OBVIOUS
<1>4. first \o second = buf
  OBVIOUS
<1> HIDE DEF first, second
<1>5. second = <<>> <=> cut = Len(buf)
  <2>1. second = <<>> <=> Len(second) = 0
    BY <1>2
  <2>2. Len(second) = Len(buf) - cut
    BY <1>2
  <2> DEFINE m == Len(second)
             l == Len(buf)
  <2>3. m = l - cut /\ l \in Nat /\ cut \in Nat /\ (second = <<>> <=> m = 0)
    BY <1>1, <2>1, <2>2
  <2> HIDE DEF m, l
  <2>4. second = <<>> <=> cut = l
    BY <2>3
  <2> QED BY <2>4 DEF l
<1>6. /\ \A n \in 1 .. cut : n \in StopsAt(first) <=> n \in StopsAt(buf)
      /\ \A n \in 1 .. Len(buf) - cut : n \in StopsAt(second) <=> cut + n \in StopsAt(buf)
      /\ StopsAt(first) \subseteq 1 .. cut
      /\ StopsAt(second) \subseteq 1 .. Len(buf) - cut
      /\ StopsAt(buf) \subseteq 1 .. Len(buf)
  BY <1>1, <1>2, <1>3 DEF StopsAt
<1>7. Decoded(first) = first
  <2>1. \A m \in StopsAt(first) : m = Len(first)
    BY <1>1, <1>2, <1>6
  <2> QED BY <1>2, <2>1, DecodedBlock
<1>8. Decoded(second) = second
  <2>1. \A m \in StopsAt(second) : m = Len(second)
    <3> SUFFICES ASSUME NEW m \in StopsAt(second)
                 PROVE  m = Len(second)
      OBVIOUS
    <3> DEFINE l == Len(buf)
               n == Len(second)
    <3>1. /\ m \in 1 .. l - cut /\ l \in Nat /\ cut \in Nat /\ n = l - cut
      BY <1>1, <1>2, <1>6
    <3>2. cut + m \in StopsAt(buf)
      BY <1>6, <3>1
    <3>3. cut + m = l
      BY <3>2
    <3> HIDE DEF l, n
    <3>4. m = n
      BY <3>1, <3>3
    <3> QED BY <3>4 DEF n
  <2> QED BY <1>2, <2>1, DecodedBlock
<1>9. StopsAt(last) # {} <=> Len(buf) \in StopsAt(buf)
  <2>1. CASE cut = Len(buf)
    <3>1. last = first
      BY <1>5, <2>1
    <3>2. StopsAt(first) # {} <=> Len(buf) \in StopsAt(buf)
      BY <1>1, <1>6, <2>1
    <3> QED BY <3>1, <3>2
  <2>2. CASE cut # Len(buf)
    <3>1. last = second
      BY <1>5, <2>2
    <3>2. StopsAt(second) # {} => Len(buf) \in StopsAt(buf)
      BY <1>1, <1>6
    <3>3. Len(buf) \in StopsAt(buf) => StopsAt(second) # {}
      <4> DEFINE l == Len(buf)
                 n == l - cut
      <4>1. l \in Nat /\ cut \in Nat /\ cut <= l /\ cut # l
        BY <1>1, <2>2
      <4>2. \A k \in 1 .. l - cut : k \in StopsAt(second) <=> cut + k \in StopsAt(buf)
        BY <1>6
      <4> HIDE DEF l
      <4>3. n \in 1 .. l - cut /\ cut + n = l
        BY <4>1
      <4> HIDE DEF n
      <4>4. l \in StopsAt(buf) => n \in StopsAt(second)
        BY <4>2, <4>3
      <4> QED BY <4>4 DEF l
    <3> QED BY <3>1, <3>2, <3>3
  <2> QED BY <2>1, <2>2
<1>10. Decoded(first) \o Decoded(second) = buf
  BY <1>4, <1>7, <1>8
<1> HIDE DEF last
<1> QED BY <1>9, <1>10 DEF first, second, last

\* The rest of a response can only stop at its end, and does if it ends there.
LEMMA RestStops ==
  ASSUME NEW R, NEW a \in Seq(R), NEW b \in Seq(R), b # <<>>, NEW i, Faithful(i, a \o b)
  PROVE  /\ \A m \in StopsAt(b) : m = Len(b)
         /\ Len(b) \in StopsAt(b) <=> Ends(a \o b)
<1> DEFINE s == a \o b
<1>1. /\ s \in Seq(R) /\ Len(s) = Len(a) + Len(b) /\ DOMAIN s = 1 .. Len(a) + Len(b)
      /\ Len(a) \in Nat /\ Len(b) \in Nat /\ Len(b) # 0 /\ DOMAIN b = 1 .. Len(b)
  OBVIOUS
<1>2. \A m \in 1 .. Len(b) : s[Len(a) + m] = b[m]
  OBVIOUS
<1>3. Faithful(i, s)
  OBVIOUS
<1> HIDE DEF s
<1>4. \A n \in DOMAIN s : s[n].type = "STDOUT" \/ (s[n].type = "END" /\ n = Len(s))
  <2> SUFFICES ASSUME NEW n \in DOMAIN s
               PROVE  s[n].type = "STDOUT" \/ (s[n].type = "END" /\ n = Len(s))
    OBVIOUS
  <2> DEFINE r == s[n]
             last == n = Len(s)
  <2>1. \/ r = [type |-> "STDOUT", req |-> i, n |-> n]
        \/ r = [type |-> "END", req |-> i, n |-> n - 1] /\ last
    BY <1>3 DEF Faithful
  <2> HIDE DEF r, last
  <2>2. r = [type |-> "STDOUT", req |-> i, n |-> n] => r.type = "STDOUT"
    OBVIOUS
  <2>3. r = [type |-> "END", req |-> i, n |-> n - 1] => r.type = "END"
    OBVIOUS
  <2> QED BY <2>1, <2>2, <2>3 DEF r, last
<1> DEFINE m1 == Len(a)
           m2 == Len(b)
<1>5. m1 \in Nat /\ m2 \in Nat /\ m2 # 0 /\ Len(s) = m1 + m2
      /\ DOMAIN s = 1 .. m1 + m2 /\ DOMAIN b = 1 .. m2
      /\ \A m \in 1 .. m2 : s[m1 + m] = b[m]
  BY <1>1, <1>2
<1> HIDE DEF m1, m2
<1>6. \A m \in 1 .. m2 : b[m].type = "STDOUT" \/ (b[m].type = "END" /\ m = m2)
  <2> SUFFICES ASSUME NEW m \in 1 .. m2
               PROVE  b[m].type = "STDOUT" \/ (b[m].type = "END" /\ m = m2)
    OBVIOUS
  <2>1. m1 + m \in DOMAIN s /\ b[m] = s[m1 + m]
    BY <1>5
  <2> QED BY <1>4, <1>5, <2>1
<1>7. \A m \in StopsAt(b) : m = m2
  BY <1>5, <1>6 DEF StopsAt
<1>8. m2 \in StopsAt(b) <=> b[m2].type = "END"
  BY <1>5, <1>6 DEF StopsAt
<1>9. Ends(s) <=> b[m2].type = "END"
  <2>1. s # <<>>
    <3>1. 1 \in DOMAIN s
      BY <1>5
    <3> QED BY <3>1
  <2>2. s[Len(s)] = b[m2]
    BY <1>5
  <2> QED BY <2>1, <2>2 DEF Ends
<1> QED BY <1>7, <1>8, <1>9 DEF m2, s

\* What is read is decoded for the request that the connection carries. When
\* its end is decoded, the connection carries nothing any more.
LEMMA CarriesTransferred ==
  ASSUME NEW k \in Connection, NEW i, NEW p \in Intercept, NEW x, Carries(k, i, p, x),
         NEW cut \in 1 .. Len(k.readBuf)
  PROVE  LET first  == SubSeq(k.readBuf, 1, cut)
             second == SubSeq(k.readBuf, cut + 1, Len(k.readBuf))
             l      == [k EXCEPT !.readBuf = <<>>]
             q      == Produced(p, Decoded(first) \o Decoded(second))
         IN  IF StopsAt(IF second = <<>> THEN first ELSE second) # {}
             THEN Quiet(l) /\ Faithful(i, q.response) /\ Ends(q.response)
             ELSE Carries(l, i, q, x) /\ Faithful(i, q.response) /\ ~Ends(q.response)
<1> DEFINE buf    == k.readBuf
           first  == SubSeq(buf, 1, cut)
           second == SubSeq(buf, cut + 1, Len(buf))
           stops  == StopsAt(IF second = <<>> THEN first ELSE second) # {}
           out    == Decoded(first) \o Decoded(second)
           l      == [k EXCEPT !.readBuf = <<>>]
           q      == Produced(p, out)
           s      == p.response \o buf
<1>1. /\ buf \in Seq(ResponseRecord) /\ buf # <<>> /\ p.response \in Seq(ResponseRecord)
      /\ cut \in 1 .. Len(buf)
  BY DEF Connection, Intercept
<1>2. /\ l.jobs = k.jobs /\ l.readBuf = <<>> /\ l.writeBuf = k.writeBuf
      /\ l.fcgi = k.fcgi
  BY DEF Connection
<1>3. q.response = p.response \o out /\ q.failed = p.failed
  BY DEF Produced, Intercept
<1> HIDE DEF l, q
<1>4. /\ ~p.failed /\ ~Ends(p.response) /\ Faithful(i, s) /\ k.fcgi \in {NULL, i}
      /\ x \in {"header", "done"}
      /\ Answering(k, i, s) \/ Over(k, s)
  BY <1>1 DEF Carries, Quiet, Asked
<1>5. s \in Seq(ResponseRecord) /\ s \o <<>> = s
  <2>1. s \in Seq(ResponseRecord)
    BY <1>1
  <2> HIDE DEF s
  <2> QED BY <2>1
<1>6. (\A m \in StopsAt(buf) : m = Len(buf)) /\ (Len(buf) \in StopsAt(buf) <=> Ends(s))
  BY <1>1, <1>4, RestStops
<1>7. out = buf /\ (stops <=> Ends(s))
  BY <1>1, <1>6, DecodedWhole
<1>8. q.response = s
  BY <1>3, <1>7
<1> HIDE DEF s, buf, out, stops
<1>9. CASE stops
  <2>1. k.jobs = {} /\ Unasked(k)
    BY <1>4, <1>7, <1>9 DEF Answering, Over
  <2>2. Quiet(l)
    BY <1>2, <2>1 DEF Quiet, Unasked
  <2>3. Faithful(i, q.response) /\ Ends(q.response)
    BY <1>4, <1>7, <1>8, <1>9
  <2> QED BY <1>9, <2>2, <2>3 DEF l, q, out, stops, buf
<1>10. CASE ~stops
  <2>1. Answering(k, i, s) /\ ~Ends(s)
    BY <1>4, <1>7, <1>10 DEF Over
  <2>2. Answering(l, i, s)
    BY <1>2, <2>1 DEF Answering, Unasked
  <2>3. q.response \o l.readBuf = s
    BY <1>2, <1>5, <1>8
  <2>4. /\ ~q.failed /\ ~Ends(q.response) /\ Faithful(i, q.response) /\ Faithful(i, s)
        /\ l.fcgi \in {NULL, i}
        /\ x \in {"header", "done"} /\ Answering(l, i, s)
    BY <1>2, <1>3, <1>4, <1>8, <2>1, <2>2
  <2>5. Carries(l, i, q, x)
    BY <2>3, <2>4 DEF Carries
  <2> QED BY <1>10, <2>4, <2>5 DEF l, q, out, stops, buf
<1> QED BY <1>9, <1>10

\* Those that follow the first record.
LEMMA RequestTypes ==
  /\ <<"BEGIN">> \in Seq(RequestType) /\ <<"STDIN", "EOF">> \in Seq(RequestType)
  /\ <<"EOF">> \in Seq(RequestType) /\ <<>> \in Seq(RequestType)
  /\ \A types \in {<<"STDIN", "EOF">>, <<"EOF">>, <<>>} :
       \A n \in DOMAIN types : types[n] # "BEGIN"
<1>1. "BEGIN" \in RequestType /\ "STDIN" \in RequestType /\ "EOF" \in RequestType
  BY DEF RequestType
<1>2. <<"BEGIN">> \in Seq(RequestType)
  BY <1>1
<1>3. <<"STDIN", "EOF">> \in Seq(RequestType)
  BY <1>1
<1>4. <<"EOF">> \in Seq(RequestType) /\ <<>> \in Seq(RequestType)
  BY <1>1
<1>5. \A n \in DOMAIN <<"STDIN", "EOF">> : <<"STDIN", "EOF">>[n] # "BEGIN"
  OBVIOUS
<1>6. \A n \in DOMAIN <<"EOF">> : <<"EOF">>[n] # "BEGIN"
  OBVIOUS
<1>7. \A n \in DOMAIN <<>> : <<>>[n] # "BEGIN"
  OBVIOUS
<1> QED BY <1>2, <1>3, <1>4, <1>5, <1>6, <1>7, Zenon

-----------------------------------------------------------------------------
(***************************************************************************)
(* The same, event by event.                                               *)
(***************************************************************************)

\* A new request.
LEMMA CacheLookupCompleteTied ==
  ASSUME Inv(server, input), Tied(server, input, {}), NEW i \in Intercepts, CacheLookupComplete(i)
  PROVE  Tied(server', input', {})
<1> DEFINE p == Constructed(server.icept[i])
           f == [server EXCEPT !.icept[i] = Constructed(@)]
           in == [input EXCEPT ![i] = "none"]
<1>1. Core(server, {}) /\ server \in Heap /\ input \in [Intercepts -> Input]
      /\ server.icept[i] \in Intercept
  BY DEF Inv, Core, Heap
<1>2. server' = connect(f, i) /\ input' = in /\ input[i] = "new"
  BY DEF CacheLookupComplete
<1>3. i \notin Accepted(server) /\ Fresh(server.icept[i])
  BY <1>2 DEF Inv, Tied
<1>4. /\ p \in Intercept /\ p.requestId = server.icept[i].requestId /\ p.alive
      /\ SameAnswer(server.icept[i], p)
  <2>1. p \in Intercept
    BY <1>1, InterceptSetters
  <2> QED BY <1>1, <2>1 DEF Constructed, Intercept, SameAnswer
<1>5. f = [server EXCEPT !.icept[i] = p]
  OBVIOUS
<1> HIDE DEF p, f
<1>6. Core(f, {}) /\ Accepted(f) = Accepted(server)
  BY <1>1, <1>4, <1>5, CoreIntercept
<1>7. /\ f.conn = server.conn /\ f.intercept_list = server.intercept_list
      /\ f.pending = server.pending /\ f.icept[i] = p
      /\ \A j \in Intercepts : SameAnswer(server.icept[j], f.icept[j])
  BY <1>1, <1>4, <1>5 DEF Heap, SameAnswer
<1>8. Tied(f, input, {})
  <2>1. \A d \in Conns : SameContent(server.conn[d], f.conn[d])
    BY <1>7 DEF SameContent
  <2> QED BY <1>1, <1>7, <2>1, TiedFrame
<1>9. in[i] = "none" /\ \A j \in Intercepts \ {i} : in[j] = input[j]
  BY <1>1
<1> HIDE DEF in
<1>10. Waiting(f.icept[i], in[i])
  BY <1>3, <1>4, <1>7, <1>9 DEF Fresh, Waiting, Ends, SameAnswer
<1>11. i \notin Accepted(f)
  BY <1>3, <1>6
<1>12. Tied(f, in, {})
  <2>1. /\ \A e \in f.intercept_list : e.intercept \in Intercepts \ {i}
        /\ Queued(f) \subseteq Intercepts \ {i}
    BY <1>6, <1>11 DEF Core, Heap, Entry, Queued, Elements, Accepted, MappedIntercepts
  <2>2. \A e \in f.intercept_list : e.conn \in {} \/
          Carries(f.conn[e.conn], e.intercept, f.icept[e.intercept], in[e.intercept])
    BY <1>8, <1>9, <2>1 DEF Tied
  <2>3. /\ \A j \in Queued(f) : Waiting(f.icept[j], in[j])
        /\ \A j \in Intercepts : in[j] = "new" => Fresh(f.icept[j])
    BY <1>8, <1>9, <2>1 DEF Tied
  <2> QED BY <1>8, <2>2, <2>3 DEF Tied
<1>13. Tied(connect(f, i), in, {})
  BY <1>6, <1>10, <1>9, <1>11, <1>12, TiedConnect
<1> QED BY <1>2, <1>13

\* A request streams in.
LEMMA StreamTied ==
  ASSUME Inv(server, input), Tied(server, input, {}), NEW i \in Intercepts,
         StreamRequest(i) \/ StreamHeader(i) \/ StreamBody(i)
  PROVE  Tied(server', input', {})
<1> DEFINE r == server.icept[i].requestId
<1>1. Core(server, {}) /\ server \in Heap /\ input \in [Intercepts -> Input]
  BY DEF Inv, Core
<1>2. ASSUME NEW h, Core(h, {}), NEW in \in [Intercepts -> Input],
             Tied(h, in, {}), h.icept = server.icept
      PROVE  /\ in[i] = "none" => \A y \in {"header", "done"} :
                  Tied(writeRequestHeader(h, r), [in EXCEPT ![i] = y], {})
             /\ in[i] \in {"header", "done"} =>
                  /\ Tied(writeRequestBody(h, r), [in EXCEPT ![i] = "done"], {})
                  /\ \A post \in BOOLEAN :
                       Tied(writeRequestBodyComplete(h, r, post), [in EXCEPT ![i] = "done"], {})
  <2>1. h.icept[i].requestId = r
    BY <1>2
  <2> HIDE DEF r
  <2>2. ASSUME in[i] = "none", NEW y \in {"header", "done"}
        PROVE  Tied(writeRequestHeader(h, r), [in EXCEPT ![i] = y], {})
    <3>1. <<"BEGIN">> \in Seq(RequestType)
      BY RequestTypes
    <3>2. Tied(writeRecords(h, r, <<"BEGIN">>, FALSE), [in EXCEPT ![i] = y], {})
      BY <1>2, <2>1, <2>2, <3>1, TiedWrite
    <3> QED BY <3>2 DEF writeRequestHeader
  <2>3. ASSUME in[i] \in {"header", "done"}
        PROVE  Tied(writeRequestBody(h, r), [in EXCEPT ![i] = "done"], {})
    <3>1. <<"STDIN", "EOF">> \in Seq(RequestType)
          /\ \A n \in DOMAIN <<"STDIN", "EOF">> : <<"STDIN", "EOF">>[n] # "BEGIN"
      BY RequestTypes, Zenon
    <3>2. Tied(writeRecords(h, r, <<"STDIN", "EOF">>, FALSE), [in EXCEPT ![i] = "done"], {})
      BY <1>2, <2>1, <2>3, <3>1, TiedWrite
    <3> QED BY <3>2 DEF writeRequestBody
  <2>4. ASSUME in[i] \in {"header", "done"}, NEW post \in BOOLEAN
        PROVE  Tied(writeRequestBodyComplete(h, r, post), [in EXCEPT ![i] = "done"], {})
    <3> DEFINE types == IF post THEN <<>> ELSE <<"EOF">>
    <3>1. types = <<"EOF">> \/ types = <<>>
      OBVIOUS
    <3> HIDE DEF types
    <3>3. types \in Seq(RequestType) /\ \A n \in DOMAIN types : types[n] # "BEGIN"
      BY <3>1, RequestTypes, Zenon
    <3>2. Tied(writeRecords(h, r, types, TRUE), [in EXCEPT ![i] = "done"], {})
      BY <1>2, <2>1, <2>4, <3>3, TiedWrite
    <3> QED BY <3>2 DEF writeRequestBodyComplete, types
  <2> QED BY <2>2, <2>3, <2>4
<1>3. CASE StreamRequest(i)
  <2> DEFINE h1 == writeRequestHeader(server, r)
             in1 == [input EXCEPT ![i] = "done"]
  <2>1. input[i] = "none" /\ input' = in1
        /\ server' = IF h1.crashed THEN h1 ELSE writeRequestBodyComplete(h1, r, FALSE)
    BY <1>3 DEF StreamRequest
  <2>2. Tied(h1, in1, {})
    BY <1>1, <1>2, <2>1
  <2>3. Core(h1, {})
    BY <1>1, WriteRequest, CoreFrame
  <2>4. h1.icept = server.icept
    BY <1>1 DEF writeRequestHeader, writeRecords, phpWrite, Heap
  <2> HIDE DEF h1, r
  <2>5. in1 \in [Intercepts -> Input] /\ in1[i] = "done" /\ [in1 EXCEPT ![i] = "done"] = in1
    BY <1>1 DEF Input
  <2> HIDE DEF in1
  <2>6. Tied(writeRequestBodyComplete(h1, r, FALSE), in1, {})
    <3>1. /\ in1[i] \in {"header", "done"} /\ FALSE \in BOOLEAN
      BY <2>5
    <3>2. Tied(writeRequestBodyComplete(h1, r, FALSE), [in1 EXCEPT ![i] = "done"], {})
      BY <1>2, <2>2, <2>3, <2>4, <2>5, <3>1
    <3> QED BY <2>5, <3>2
  <2> QED BY <2>1, <2>2, <2>6
<1>4. CASE StreamHeader(i)
  <2>1. input[i] = "none" /\ input' = [input EXCEPT ![i] = "header"]
        /\ server' = writeRequestHeader(server, r)
    BY <1>4 DEF StreamHeader
  <2>2. Tied(writeRequestHeader(server, r), [input EXCEPT ![i] = "header"], {})
    BY <1>1, <1>2, <2>1
  <2> QED BY <2>1, <2>2
<1>5. CASE StreamBody(i)
  <2> DEFINE h1 == writeRequestBody(server, r)
             in1 == [input EXCEPT ![i] = "done"]
  <2>1. input[i] = "header" /\ input' = in1
        /\ server' = IF h1.crashed THEN h1 ELSE writeRequestBodyComplete(h1, r, TRUE)
    BY <1>5 DEF StreamBody
  <2>2. Tied(h1, in1, {})
    BY <1>1, <1>2, <2>1
  <2>3. Core(h1, {})
    BY <1>1, WriteRequest, CoreFrame
  <2>4. h1.icept = server.icept
    BY <1>1 DEF writeRequestBody, writeRecords, phpWrite, Heap
  <2> HIDE DEF h1, r
  <2>5. in1 \in [Intercepts -> Input] /\ in1[i] = "done" /\ [in1 EXCEPT ![i] = "done"] = in1
    BY <1>1 DEF Input
  <2> HIDE DEF in1
  <2>6. Tied(writeRequestBodyComplete(h1, r, TRUE), in1, {})
    <3>1. /\ in1[i] \in {"header", "done"} /\ TRUE \in BOOLEAN
      BY <2>5
    <3>2. Tied(writeRequestBodyComplete(h1, r, TRUE), [in1 EXCEPT ![i] = "done"], {})
      BY <1>2, <2>2, <2>3, <2>4, <2>5, <3>1
    <3> QED BY <2>5, <3>2
  <2> QED BY <2>1, <2>2, <2>6
<1> QED BY <1>3, <1>4, <1>5

\* The connection and the intercept of entry e change in h, which becomes g.
EntryStep(h, g, e) ==
  /\ \A d \in Conns \ {e.conn} : SameContent(h.conn[d], g.conn[d])
  /\ \A j \in Intercepts \ {e.intercept} : SameAnswer(h.icept[j], g.icept[j])
  /\ g.intercept_list = h.intercept_list /\ g.pending = h.pending

\* A step on a request in service and its connection.
LEMMA TiedEntry ==
  ASSUME NEW h, Core(h, {}), NEW in, Tied(h, in, {}), NEW e \in h.intercept_list,
         NEW g, EntryStep(h, g, e), Settled(e.intercept, g.icept[e.intercept])
  PROVE  /\ Tied(g, in, {} \cup {e.conn})
         /\ Carries(g.conn[e.conn], e.intercept, g.icept[e.intercept], in[e.intercept])
              => Tied(g, in, {})
<1> DEFINE c == e.conn
           i == e.intercept
<1>1. h \in Heap /\ c \in Conns /\ i \in Intercepts
  BY DEF Core, Heap, Entry
<1>2. Carries(h.conn[c], i, h.icept[i], in[i])
  BY DEF Tied
<1>3. in[i] # "new"
  BY <1>2 DEF Carries
<1>4. \A x \in h.intercept_list : x.conn = c <=> x.intercept = i
  <2>1. \A x \in h.intercept_list : x.conn = c => x.id = e.id
    BY <1>1 DEF Core, MapInv
  <2>2. \A x \in h.intercept_list : x.id = e.id <=> x.intercept = i
    BY <1>1 DEF Core, MapInv
  <2>3. \A x \in h.intercept_list : x.id = e.id => x.conn = c
    BY <1>1 DEF Core, MapInv
  <2> QED BY <2>1, <2>2, <2>3
<1>5. i \notin Queued(h)
  BY DEF Core, QueueInv, MappedIntercepts
<1> HIDE DEF c, i
<1>6. /\ \A d \in Conns \ {c} : SameContent(h.conn[d], g.conn[d])
      /\ \A j \in Intercepts \ {i} : SameAnswer(h.icept[j], g.icept[j])
      /\ g.intercept_list = h.intercept_list /\ Queued(g) = Queued(h)
      /\ Settled(i, g.icept[i])
  BY DEF EntryStep, c, i, Queued
<1>7. Tied(g, in, {} \cup {c})
  <2>1. /\ \A j \in Intercepts \ {i} :
             SameAnswer(h.icept[j], g.icept[j]) /\ in[j] = in[j]
        /\ g.intercept_list \subseteq h.intercept_list
        /\ \A x \in h.intercept_list : x \in g.intercept_list \/ x.conn = c
        /\ \A x \in g.intercept_list : x.intercept = i => x.conn = c
        /\ Queued(g) \subseteq Queued(h) /\ (i \in Queued(g) => Waiting(g.icept[i], in[i]))
        /\ i \in Intercepts => Settled(i, g.icept[i]) /\ in[i] # "new"
    BY <1>3, <1>4, <1>5, <1>6
  <2>2. Touches(h, in, g, in, c, i)
    BY <1>6, <2>1 DEF Touches
  <2> QED BY <1>1, <2>2, TiedStep
<1>8. ASSUME Carries(g.conn[c], i, g.icept[i], in[i])
      PROVE  Tied(g, in, {})
  <2>1. c \notin Conns \ MappedConns(g)
    BY <1>6 DEF MappedConns, c
  <2>2. \A x \in g.intercept_list : x.conn = c =>
          Carries(g.conn[c], x.intercept, g.icept[x.intercept], in[x.intercept])
    BY <1>4, <1>6, <1>8
  <2> QED BY <1>7, <2>1, <2>2, TiedFilled
<1> QED BY <1>7, <1>8 DEF c, i

\* A transaction ends: its request is no longer in service.
LEMMA TxnCloseTied ==
  ASSUME Inv(server, input), Tied(server, input, {}), "abort" \notin Faults,
         NEW i \in Intercepts, TxnClose(i)
  PROVE  Tied(server', input', {})
<1> DEFINE r == server.icept[i].requestId
           d == [server EXCEPT !.icept[i] = Destroyed(@)]
           b == d.crashed \/ server.icept[i].plugins > 1
<1>1. Core(server, {}) /\ server \in Heap
  BY DEF Inv, Core
<1>2. input' = input /\ (server.icept[i].outputComplete \/ server.icept[i].failed)
  BY DEF TxnClose
<1>3. destroyIntercept(server, i) = d
  <2>1. CASE server.icept[i].outputComplete
    BY <2>1 DEF destroyIntercept
  <2>2. CASE server.icept[i].failed
    <3>1. ASSUME NEW e \in server.intercept_list, e.id = r
          PROVE  FALSE
      <4>1. e.intercept = i
        BY <1>1, <3>1 DEF Core, MapInv
      <4>2. ~server.icept[i].failed
        BY <4>1 DEF Tied, Carries
      <4> QED BY <2>2, <4>2
    <3>2. ~Mapped(server, r)
      BY <3>1 DEF Mapped
    <3>3. removeIntercept(server, r) = server
      BY <3>2 DEF removeIntercept
    <3> QED BY <3>3 DEF destroyIntercept
  <2> QED BY <1>2, <2>1, <2>2
<1>4. server' = [d EXCEPT !.crashed = b]
  BY <1>3 DEF TxnClose
<1>5. \A p \in Intercept : SameAnswer(p, Destroyed(p))
  BY DEF Destroyed, Intercept, SameAnswer
<1>6. /\ server'.conn = server.conn
      /\ server'.intercept_list = server.intercept_list
      /\ server'.pending = server.pending
      /\ \A j \in Intercepts :
           server'.icept[j] = IF j = i THEN Destroyed(server.icept[i]) ELSE server.icept[j]
  BY <1>1, <1>4 DEF Heap
<1>7. \A j \in Intercepts : SameAnswer(server.icept[j], server'.icept[j])
  BY <1>1, <1>5, <1>6 DEF Heap, SameAnswer
<1>8. \A k \in Conns : SameContent(server.conn[k], server'.conn[k])
  BY <1>6 DEF SameContent
<1>9. Tied(server', input, {})
  BY <1>1, <1>6, <1>7, <1>8, TiedFrame
<1> QED BY <1>2, <1>9

\* TS_EVENT_NET_CONNECT: the connection carries its request from now on.
LEMMA NetConnectTied ==
  ASSUME Inv(server, input), Tied(server, input, {}), NEW c \in Conns, NetConnect(c)
  PROVE  Tied(server', input', {})
<1> DEFINE h == server
           k == Established(h.conn[c])
           l == InUse(k, InterceptOf(c))
           f == [h EXCEPT !.phpConnCount = @ + 1, !.conn[c] = Established(@)]
           g == [f EXCEPT !.icept[InterceptOf(c)] = Attached(@),
                          !.conn[c] = InUse(@, InterceptOf(c))]
<1>1. Core(h, {}) /\ h \in Heap /\ h.conn[c] \in Connection
  BY DEF Inv, Core, Heap
<1>2. /\ h.conn[c].dialing /\ input' = input
      /\ server' = IF InterceptOf(c) = NULL THEN f
                   ELSE createFCGIClient(f, c, InterceptOf(c))
  BY DEF NetConnect
<1>3. h.conn[c].fcgi = k.fcgi /\ SameContent(h.conn[c], k)
  BY <1>1 DEF Established, Connection, SameContent
<1>4. CASE InterceptOf(c) = NULL
  <2>1. /\ f.conn = [h.conn EXCEPT ![c] = k] /\ f.icept = h.icept
        /\ f.intercept_list = h.intercept_list /\ f.pending = h.pending
    BY <1>1 DEF Heap
  <2> HIDE DEF f, k
  <2>2. \A d \in Conns : SameContent(h.conn[d], f.conn[d])
    BY <1>1, <1>3, <2>1 DEF Heap, SameContent
  <2>3. \A j \in Intercepts : SameAnswer(h.icept[j], f.icept[j])
    BY <2>1 DEF SameAnswer
  <2>4. Tied(f, input, {})
    BY <1>1, <2>1, <2>2, <2>3, TiedFrame
  <2> QED BY <1>2, <1>4, <2>4
<1>5. CASE InterceptOf(c) # NULL
  <2>1. PICK e \in h.intercept_list : e.conn = c /\ InterceptOf(c) = e.intercept
    BY <1>1, <1>5, ServingConn
  <2> DEFINE i == e.intercept
             p == Attached(h.icept[i])
  <2>2. i \in Intercepts /\ i # NULL /\ h.icept[i] \in Intercept
    BY <1>1, <2>1, NullAssumption DEF Heap, Entry
  <2>3. server' = g
    <3>1. f.conn[c].state = "READY"
      BY <1>1 DEF Established, Heap, Connection
    <3> QED BY <1>2, <2>1, <2>2, <3>1 DEF createFCGIClient
  <2>4. /\ l.fcgi = i /\ l.jobs = h.conn[c].jobs /\ l.readBuf = h.conn[c].readBuf
        /\ l.writeBuf = h.conn[c].writeBuf
    BY <1>1, <2>1, <2>2 DEF InUse, Established, Connection
  <2>5. SameAnswer(h.icept[i], p)
    BY <2>2 DEF Attached, Intercept, SameAnswer
  <2>6. Carries(h.conn[c], i, h.icept[i], input[i]) /\ Settled(i, h.icept[i])
    BY <2>1, <2>2 DEF Tied
  <2> HIDE DEF k, l, p, i
  <2>7. /\ \A d \in Conns : server'.conn[d] = IF d = c THEN l ELSE h.conn[d]
        /\ \A j \in Intercepts : server'.icept[j] = IF j = i THEN p ELSE h.icept[j]
        /\ server'.pending = h.pending
        /\ server'.intercept_list = h.intercept_list
    <3>1. /\ \A d \in Conns : f.conn[d] = IF d = c THEN k ELSE h.conn[d]
          /\ DOMAIN f.conn = Conns
          /\ f.icept = h.icept /\ f.pending = h.pending
          /\ f.intercept_list = h.intercept_list /\ DOMAIN f = DOMAIN h
      BY <1>1 DEF Heap, k
    <3> HIDE DEF f
    <3> QED BY <1>1, <2>1, <2>2, <2>3, <3>1 DEF Heap, l, p, i
  <2>8. Carries(l, i, p, input[i])
    BY <2>4, <2>5, <2>6, CarriesKept
  <2>9. Settled(i, p)
    BY <2>5, <2>6 DEF Settled, SameAnswer
  <2>10. EntryStep(h, server', e)
    BY <2>1, <2>7 DEF EntryStep, SameContent, SameAnswer, i
  <2>11. /\ Settled(e.intercept, server'.icept[e.intercept])
         /\ Carries(server'.conn[e.conn], e.intercept, server'.icept[e.intercept],
                    input[e.intercept])
    BY <2>1, <2>2, <2>7, <2>8, <2>9 DEF i
  <2>12. Tied(server', input, {})
    BY <1>1, <2>10, <2>11, TiedEntry
  <2> QED BY <1>2, <2>12
<1> QED BY <1>4, <1>5

\* TS_EVENT_NET_CONNECT_FAILED: the request is connected anew.
LEMMA NetConnectFailedTied ==
  ASSUME Inv(server, input), Tied(server, input, {}), NEW c \in Conns, NetConnectFailed(c)
  PROVE  Tied(server', input', {})
<1> DEFINE h == server
           k == Refused(h.conn[c])
           n == h.phpConnCount + 1
           f == [h EXCEPT !.phpConnCount = n, !.conn[c] = k]
<1>1. /\ Core(h, {}) /\ h \in Heap /\ h.phpConnCount \in Int
      /\ h.conn[c] \in Connection
  BY DEF Inv, Core, Heap
<1>2. /\ h.conn[c].dialing /\ input' = input
      /\ server' = connectionClosed(reConnect(f, h.conn[c].requestId), c)
  BY DEF NetConnectFailed
<1>3. /\ k \in Connection /\ k.requestId = h.conn[c].requestId
      /\ SameContent(h.conn[c], k)
  <2>1. k \in Connection /\ k.requestId = h.conn[c].requestId
    BY <1>1, ConnectionSetters, ConnectionFrame
  <2> QED BY <1>1, <2>1 DEF Refused, Connection, SameContent
<1>4. n \in Int
  BY <1>1
<1> HIDE DEF k, n
<1>5. f \in Heap /\ SameCore(h, f)
  BY <1>1, <1>3, <1>4 DEF Heap, SameCore
<1>6. /\ f.conn = [h.conn EXCEPT ![c] = k] /\ f.icept = h.icept /\ f.conn[c] = k
      /\ f.intercept_list = h.intercept_list /\ f.pending = h.pending
  BY <1>1 DEF Heap
<1> HIDE DEF f
<1>7. Core(f, {})
  BY <1>1, <1>5, CoreFrame
<1>8. Tied(f, input, {})
  <2>1. \A d \in Conns : SameContent(h.conn[d], f.conn[d])
    BY <1>1, <1>3, <1>6 DEF Heap, SameContent
  <2>2. \A j \in Intercepts : SameAnswer(h.icept[j], f.icept[j])
    BY <1>6 DEF SameAnswer
  <2> QED BY <1>1, <1>6, <2>1, <2>2, TiedFrame
<1>9. f.conn[c].requestId = h.conn[c].requestId
  BY <1>3, <1>6
<1>10. Tied(connectionClosed(reConnect(f, f.conn[c].requestId), c), input, {})
  BY <1>7, <1>8, <1>9, TiedRetry
<1> QED BY <1>2, <1>9, <1>10 DEF f, k, n

\* interceptTransferData for the request of entry e: it takes what it was sent,
\* and when that ends its response, nothing is left on its connection.
LEMMA TiedTransfer ==
  ASSUME NEW h, Core(h, {}), NEW in, Tied(h, in, {}), NEW e \in h.intercept_list,
         NEW cut \in 1 .. Len(h.conn[e.conn].readBuf),
         LET t == interceptTransferData(h, e.conn, e.intercept, cut)
         IN  Core(t.heap, {}) /\ Core(Ended(t.heap, e.conn), {})
  PROVE  LET t == interceptTransferData(h, e.conn, e.intercept, cut)
         IN  Tied(IF t.responseStatus
                  THEN setResponseOutputComplete(Ended(t.heap, e.conn), e.intercept)
                  ELSE t.heap, in, {})
<1> DEFINE c      == e.conn
           i      == e.intercept
           buf    == h.conn[c].readBuf
           first  == SubSeq(buf, 1, cut)
           second == SubSeq(buf, cut + 1, Len(buf))
           stops  == StopsAt(IF second = <<>> THEN first ELSE second) # {}
           out    == Decoded(first) \o Decoded(second)
           k      == [h.conn[c] EXCEPT !.readBuf = <<>>]
           q      == Produced(h.icept[i], out)
           t      == interceptTransferData(h, c, i, cut)
           g      == t.heap
           x      == Ended(g, c)
           l      == setState(k, "COMPLETE")
           p      == Complete(q)
           y      == [x EXCEPT !.icept[i] = Complete(@)]
<1>1. /\ h \in Heap /\ c \in Conns /\ i \in Intercepts
      /\ h.conn[c] \in Connection /\ h.icept[i] \in Intercept
  BY DEF Core, Heap, Entry
<1>2. Carries(h.conn[c], i, h.icept[i], in[i]) /\ Settled(i, h.icept[i])
  BY <1>1 DEF Tied
<1>3. IF stops THEN Quiet(k) /\ Faithful(i, q.response) /\ Ends(q.response)
      ELSE Carries(k, i, q, in[i]) /\ Faithful(i, q.response) /\ ~Ends(q.response)
  <2> DEFINE z == h.conn[c]
             pp == h.icept[i]
             xx == in[i]
  <2>1. /\ z \in Connection /\ pp \in Intercept /\ Carries(z, i, pp, xx)
        /\ cut \in 1 .. Len(z.readBuf)
    BY <1>1, <1>2
  <2> HIDE DEF z, pp, xx
  <2>2. LET first1  == SubSeq(z.readBuf, 1, cut)
            second1 == SubSeq(z.readBuf, cut + 1, Len(z.readBuf))
            l1      == [z EXCEPT !.readBuf = <<>>]
            q1      == Produced(pp, Decoded(first1) \o Decoded(second1))
        IN  IF StopsAt(IF second1 = <<>> THEN first1 ELSE second1) # {}
            THEN Quiet(l1) /\ Faithful(i, q1.response) /\ Ends(q1.response)
            ELSE Carries(l1, i, q1, xx) /\ Faithful(i, q1.response) /\ ~Ends(q1.response)
    BY <2>1, CarriesTransferred
  <2> QED BY <2>2 DEF z, pp, xx
<1>4. t.responseStatus = stops
  BY DEF interceptTransferData
<1>5. /\ \A d \in Conns : g.conn[d] = IF d = c THEN k ELSE h.conn[d]
      /\ DOMAIN g.conn = Conns /\ DOMAIN g.icept = Intercepts /\ DOMAIN g = DOMAIN h
      /\ \A j \in Intercepts : g.icept[j] = IF j = i THEN q ELSE h.icept[j]
      /\ g.intercept_list = h.intercept_list /\ g.pending = h.pending
  <2> HIDE DEF k, q, c, i
  <2>1. g = [h EXCEPT !.conn[c] = k, !.icept[i] = q,
                      !.crashed = @ \/ h.conn[c].fcgi = NULL]
    BY DEF interceptTransferData, k, q
  <2> QED BY <1>1, <2>1 DEF Heap
<1>6. q.outputComplete = h.icept[i].outputComplete /\ q.requestId = h.icept[i].requestId
  BY <1>1 DEF Produced, Intercept
<1>7. CASE ~stops
  <2> HIDE DEF stops, k, q, t, g, c, i
  <2>1. ~h.icept[i].outputComplete
    BY <1>2 DEF Settled, Carries
  <2>2. Settled(i, q)
    BY <1>3, <1>6, <1>7, <2>1 DEF Settled
  <2>3. EntryStep(h, g, e)
    BY <1>5 DEF EntryStep, SameContent, SameAnswer, c, i
  <2>4. /\ Settled(e.intercept, g.icept[e.intercept])
        /\ Carries(g.conn[e.conn], e.intercept, g.icept[e.intercept], in[e.intercept])
    BY <1>1, <1>3, <1>5, <1>7, <2>2 DEF c, i
  <2>5. Tied(g, in, {})
    BY <2>3, <2>4, TiedEntry
  <2> QED BY <1>4, <1>7, <2>5 DEF g, t, c, i
<1>8. CASE stops
  <2>1. Core(x, {}) /\ x \in Heap /\ g \in Heap
    BY DEF Core
  <2>2. l.jobs = k.jobs /\ l.readBuf = k.readBuf /\ l.writeBuf = k.writeBuf
    BY <1>1 DEF setState, Connection
  <2> HIDE DEF stops, k, q, t, g, c, i, out, buf, l
  <2>3. /\ \A d \in Conns : x.conn[d] = IF d = c THEN l ELSE h.conn[d]
        /\ x.icept = g.icept /\ x.intercept_list = h.intercept_list
        /\ x.pending = h.pending
    BY <1>1, <1>5, <2>1 DEF Ended, Heap, l
  <2>4. x.icept[i] = q /\ q \in Intercept /\ q.requestId = e.id /\ q.alive
    <3>1. x.icept[i] = q
      BY <1>1, <1>5, <2>3
    <3>2. q \in Intercept
      BY <1>1, <2>1, <3>1 DEF Heap
    <3>3. e \in x.intercept_list /\ x.icept[i].requestId = e.id /\ x.icept[i].alive
      BY <1>1, <2>1, <2>3 DEF Core, MapInv, i
    <3> QED BY <3>1, <3>2, <3>3
  <2> HIDE DEF x
  <2>5. p \in Intercept /\ p.requestId = x.icept[i].requestId /\ p.alive
        /\ p.response = q.response /\ p.outputComplete
    BY <2>4 DEF Complete, Intercept
  <2>6. y = [x EXCEPT !.icept[i] = p]
    BY <2>4
  <2> HIDE DEF p, y
  <2>7. Core(y, {})
    BY <1>1, <2>1, <2>5, <2>6, CoreIntercept
  <2>8. /\ y.conn = x.conn /\ y.intercept_list = h.intercept_list /\ y.pending = h.pending
        /\ \A j \in Intercepts : y.icept[j] = IF j = i THEN p ELSE h.icept[j]
    BY <1>5, <2>1, <2>3, <2>6 DEF Heap
  <2>9. Settled(i, p)
    BY <1>3, <1>8, <2>5 DEF Settled
  <2>10. EntryStep(h, y, e)
    BY <2>3, <2>8 DEF EntryStep, SameContent, SameAnswer, c, i
  <2>11. Settled(e.intercept, y.icept[e.intercept])
    BY <1>1, <2>8, <2>9 DEF i
  <2>12. Tied(y, in, {} \cup {e.conn})
    BY <2>10, <2>11, TiedEntry
  <2>13. Quiet(y.conn[e.conn])
    <3>1. Quiet(l)
      BY <1>3, <1>8, <2>2 DEF Quiet, Unasked
    <3>2. y.conn[c] = l
      BY <1>1, <2>3, <2>8
    <3> QED BY <3>1, <3>2 DEF c
  <2>14. e \in y.intercept_list
    BY <2>8
  <2>15. Tied(removeIntercept(y, e.id), in, {})
    BY <2>7, <2>12, <2>13, <2>14, TiedRemove
  <2>16. setResponseOutputComplete(x, i) = removeIntercept(y, e.id)
    BY <2>4 DEF setResponseOutputComplete, y
  <2> QED BY <1>4, <1>8, <2>15, <2>16 DEF x, g, t, c, i
<1> QED BY <1>7, <1>8

\* TS_EVENT_VCONN_READ_READY.
LEMMA ReadReadyTied ==
  ASSUME Inv(server, input), Tied(server, input, {}), NEW c \in Conns, ReadReady(c)
  PROVE  Tied(server', input', {})
<1> DEFINE k == Drained(server.conn[c])
           f == [server EXCEPT !.conn[c] = Drained(@)]
           i == InterceptOf(c)
           buf == server.conn[c].readBuf
<1>1. /\ Inv(server, input) /\ Core(server, {}) /\ server \in Heap
      /\ server.conn[c] \in Connection
  BY DEF Inv, Core, Heap
<1>2. /\ Core(f, {}) /\ f \in Heap /\ SameCore(server, f)
      /\ f.conn[c].readBuf = buf /\ SameContent(server.conn[c], k)
      /\ f.conn = [server.conn EXCEPT ![c] = k] /\ f.icept = server.icept
      /\ f.intercept_list = server.intercept_list /\ f.pending = server.pending
  <2>1. k \in Connection /\ k.requestId = server.conn[c].requestId /\ k.readBuf = buf
        /\ SameContent(server.conn[c], k)
    <3>1. k \in Connection /\ k.requestId = server.conn[c].requestId
      BY <1>1, ConnectionSetters, ConnectionFrame
    <3> QED BY <1>1, <3>1 DEF Drained, Connection, SameContent
  <2>2. f = [server EXCEPT !.conn[c] = k]
    OBVIOUS
  <2> HIDE DEF k
  <2>3. f \in Heap /\ SameCore(server, f)
    BY <1>1, <2>1, <2>2, SetConn
  <2>4. /\ f.conn[c] = k /\ f.conn = [server.conn EXCEPT ![c] = k]
        /\ f.icept = server.icept /\ f.pending = server.pending
        /\ f.intercept_list = server.intercept_list
    BY <1>1 DEF Heap, k
  <2> HIDE DEF f
  <2> QED BY <1>1, <2>1, <2>3, <2>4, CoreFrame
<1>3. /\ input' = input
      /\ \/ server' = f
         \/ /\ i # NULL
            /\ \E cut \in 1 .. Len(buf) :
                 LET t == interceptTransferData(f, c, i, cut)
                 IN  server' =
                       IF t.responseStatus
                       THEN setResponseOutputComplete(
                              [t.heap EXCEPT !.conn[c] = setState(@, "COMPLETE")], i)
                       ELSE t.heap
  BY DEF ReadReady
<1>4. i # NULL => /\ i \in Intercepts
                  /\ \E e \in server.intercept_list : e.conn = c /\ e.intercept = i
  BY <1>1, ServingConn
<1> HIDE DEF f, i, k
<1>5. Tied(f, input, {})
  <2>1. \A d \in Conns : SameContent(server.conn[d], f.conn[d])
    BY <1>1, <1>2 DEF Heap, SameContent
  <2>2. \A j \in Intercepts : SameAnswer(server.icept[j], f.icept[j])
    BY <1>2 DEF SameAnswer
  <2> QED BY <1>1, <1>2, <2>1, <2>2, TiedFrame
<1>6. ASSUME i # NULL, NEW cut \in 1 .. Len(buf),
             LET t == interceptTransferData(f, c, i, cut)
             IN  server' =
                   IF t.responseStatus
                   THEN setResponseOutputComplete(
                          [t.heap EXCEPT !.conn[c] = setState(@, "COMPLETE")], i)
                   ELSE t.heap
      PROVE  Tied(server', input, {})
  <2> DEFINE g == interceptTransferData(f, c, i, cut).heap
             x == Ended(g, c)
             y == setState(g.conn[c], "COMPLETE")
  <2>1. PICK e \in server.intercept_list : e.conn = c /\ e.intercept = i
    BY <1>4, <1>6
  <2>2. i \in Intercepts /\ e \in f.intercept_list
        /\ cut \in 1 .. Len(f.conn[e.conn].readBuf)
    BY <1>2, <1>4, <1>6, <2>1
  <2>3. g \in Heap /\ SameCore(f, g)
    BY <1>2, <2>2, TransferData
  <2> HIDE DEF g
  <2>4. y \in Connection /\ y.requestId = g.conn[c].requestId
    <3>1. g.conn[c] \in Connection /\ "COMPLETE" \in State
      BY <2>3 DEF Heap, State
    <3> QED BY <3>1, ConnectionSetters, ConnectionFrame
  <2>5. x = [g EXCEPT !.conn[c] = y]
    BY DEF Ended
  <2> HIDE DEF x, y
  <2>6. x \in Heap /\ SameCore(g, x)
    BY <2>3, <2>4, <2>5, SetConn
  <2>7. Core(g, {})
    BY <1>2, <2>3, CoreFrame
  <2>8. Core(x, {})
    BY <2>6, <2>7, CoreFrame
  <2>9. LET t == interceptTransferData(f, e.conn, e.intercept, cut)
        IN  Core(t.heap, {}) /\ Core(Ended(t.heap, e.conn), {})
    BY <2>1, <2>7, <2>8 DEF g, x
  <2>10. LET t == interceptTransferData(f, e.conn, e.intercept, cut)
         IN  Tied(IF t.responseStatus
                  THEN setResponseOutputComplete(Ended(t.heap, e.conn), e.intercept)
                  ELSE t.heap, input, {})
    BY <1>2, <1>5, <2>2, <2>9, TiedTransfer
  <2>11. LET t == interceptTransferData(f, e.conn, e.intercept, cut)
         IN  server' = IF t.responseStatus
                       THEN setResponseOutputComplete(Ended(t.heap, e.conn), e.intercept)
                       ELSE t.heap
    BY <1>6, <2>1, Zenon DEF Ended
  <2> QED BY <2>10, <2>11
<1> QED BY <1>3, <1>5, <1>6

\* TS_EVENT_VCONN_WRITE_READY.
LEMMA WriteReadyTied ==
  ASSUME Inv(server, input), Tied(server, input, {}), NEW c \in Conns, WriteReady(c)
  PROVE  Tied(server', input', {})
<1> DEFINE k == Flushed(server.conn[c])
           l == [k EXCEPT !.readOpen = TRUE]
           f == [server EXCEPT !.conn[c] = Flushed(@)]
<1>1. Core(server, {}) /\ server \in Heap /\ server.conn[c] \in Connection
  BY DEF Inv, Core, Heap
<1>2. SameContent(k, k) /\ SameContent(k, l)
  BY <1>1 DEF Flushed, Connection, SameContent
<1>3. /\ Quiet(server.conn[c]) => Quiet(k)
      /\ \A i \in Intercepts : \A p, x : Carries(server.conn[c], i, p, x) => Carries(k, i, p, x)
  BY <1>1, CarriesFlushed
<1> HIDE DEF k
<1>4. /\ server'.conn = [server.conn EXCEPT ![c] = k]
         \/ server'.conn = [server.conn EXCEPT ![c] = l]
      /\ server'.pending = server.pending /\ server'.icept = server.icept
      /\ server'.intercept_list = server.intercept_list /\ input' = input
  <2>1. /\ f.conn = [server.conn EXCEPT ![c] = k] /\ f.pending = server.pending
        /\ f.icept = server.icept /\ f.intercept_list = server.intercept_list
        /\ DOMAIN f = DOMAIN server
    BY <1>1 DEF Heap, k
  <2> HIDE DEF f
  <2>2. f.conn[c] = k /\ c \in DOMAIN server.conn
    BY <1>1, <2>1 DEF Heap
  <2>3. /\ read(f, c).conn = [server.conn EXCEPT ![c] = l]
        /\ read(f, c).pending = server.pending /\ read(f, c).icept = server.icept
        /\ read(f, c).intercept_list = server.intercept_list
    BY <1>1, <2>1, <2>2 DEF read, Heap
  <2>4. (server' = f \/ server' = read(f, c)) /\ input' = input
    BY DEF WriteReady, f
  <2> QED BY <2>1, <2>3, <2>4
<1> HIDE DEF l
<1>5. PICK m : SameContent(k, m) /\ server'.conn = [server.conn EXCEPT ![c] = m]
  BY <1>2, <1>4
<1>6. \A d \in Conns : server'.conn[d] = IF d = c THEN m ELSE server.conn[d]
  BY <1>1, <1>5 DEF Heap
<1>7. /\ Quiet(server.conn[c]) => Quiet(m)
      /\ \A i \in Intercepts : \A p, x : Carries(server.conn[c], i, p, x) => Carries(m, i, p, x)
  <2>1. Quiet(k) => Quiet(m)
    BY <1>5, ContentKept
  <2>2. \A i, p, x : Carries(k, i, p, x) => Carries(m, i, p, x)
    <3>1. \A p : SameAnswer(p, p)
      BY DEF SameAnswer
    <3> QED BY <1>5, <3>1, ContentKept
  <2> QED BY <1>3, <2>1, <2>2
<1>8. MappedConns(server') = MappedConns(server) /\ Queued(server') = Queued(server)
      /\ \A e \in server.intercept_list : e.conn \in Conns /\ e.intercept \in Intercepts
  BY <1>1, <1>4 DEF MappedConns, Queued, Heap, Entry
<1>9. \A d \in Conns \ (MappedConns(server') \cup {}) : Quiet(server'.conn[d])
  BY <1>6, <1>7, <1>8 DEF Tied
<1>10. ASSUME NEW e \in server'.intercept_list
       PROVE  Carries(server'.conn[e.conn], e.intercept, server'.icept[e.intercept],
                      input[e.intercept])
  <2>1. Carries(server.conn[e.conn], e.intercept, server.icept[e.intercept],
                input[e.intercept])
    BY <1>4 DEF Tied
  <2>2. e.conn \in Conns /\ e.intercept \in Intercepts
    BY <1>4, <1>8
  <2>3. CASE e.conn = c
    BY <1>4, <1>6, <1>7, <2>1, <2>2, <2>3
  <2>4. CASE e.conn # c
    BY <1>4, <1>6, <2>1, <2>2, <2>4
  <2> QED BY <2>3, <2>4
<1>11. /\ \A j \in Queued(server') : Waiting(server'.icept[j], input[j])
       /\ \A j \in Intercepts : input[j] = "new" => Fresh(server'.icept[j])
       /\ \A j \in Intercepts : Settled(j, server'.icept[j])
  BY <1>4, <1>8 DEF Tied
<1>12. Tied(server', input, {})
  BY <1>9, <1>10, <1>11 DEF Tied
<1> QED BY <1>4, <1>12

\* TS_EVENT_VCONN_EOS and TS_EVENT_ERROR: what the connection carried is gone.
LEMMA EosTied ==
  ASSUME Inv(server, input), Tied(server, input, {}), NEW c \in Conns, Eos(c) \/ Error(c)
  PROVE  Tied(server', input', {})
<1> DEFINE i == InterceptOf(c)
           f == transactionError(server, i)
<1>1. /\ Inv(server, input) /\ Core(server, {}) /\ server \in Heap
  BY DEF Inv, Core
<1>2. /\ input' = input
      /\ \/ server' = connectionClosed(reConnect(server, server.conn[c].requestId), c)
         \/ server' = connectionClosed(server, c)
         \/ i # NULL /\ server' = connectionClosed(f, c)
  BY DEF Eos, Error, EosKind
<1>3. Tied(connectionClosed(server, c), input, {})
  <2>1. Tied(server, input, {} \cup {c}) /\ {} \in SUBSET {c}
    BY TiedWeaken
  <2> QED BY <1>1, <2>1, TiedClosed
<1>4. CASE server' = connectionClosed(reConnect(server, server.conn[c].requestId), c)
  BY <1>1, <1>2, <1>4, TiedRetry
<1>5. CASE i # NULL /\ server' = connectionClosed(f, c)
  <2>1. PICK e \in server.intercept_list : e.conn = c /\ e.intercept = i
    BY <1>1, <1>5, ServingConn
  <2>2. i \in Intercepts /\ server.icept[i] \in Intercept
    BY <1>1, <2>1 DEF Heap, Entry
  <2>3. f \in Heap /\ SameCore(server, f)
    BY <1>1, <2>2, TransactionError
  <2>4. Core(f, {})
    BY <1>1, <2>3, CoreFrame
  <2> HIDE DEF i
  <2>5. /\ f.conn = server.conn /\ f.intercept_list = server.intercept_list
        /\ f.pending = server.pending
        /\ \A j \in Intercepts \ {i} : f.icept[j] = server.icept[j]
        /\ f.icept[i] = Failed(server.icept[i])
    BY <1>1, <2>2 DEF transactionError, Heap
  <2>6. Settled(i, f.icept[i])
    <3>1. Settled(i, server.icept[i])
      BY <2>2 DEF Tied
    <3>2. /\ f.icept[i].response = server.icept[i].response
          /\ f.icept[i].outputComplete = server.icept[i].outputComplete
      BY <2>2, <2>5 DEF Failed, Intercept
    <3> QED BY <3>1, <3>2 DEF Settled
  <2> HIDE DEF f
  <2>7. EntryStep(server, f, e)
    BY <2>1, <2>5 DEF EntryStep, SameContent, SameAnswer
  <2>8. Settled(e.intercept, f.icept[e.intercept])
    BY <2>1, <2>6
  <2>9. Tied(f, input, {} \cup {e.conn})
    BY <1>1, <2>7, <2>8, TiedEntry
  <2>10. Tied(f, input, {} \cup {c}) /\ {} \in SUBSET {c}
    BY <2>1, <2>9
  <2>11. Tied(connectionClosed(f, c), input, {})
    BY <2>4, <2>10, TiedClosed
  <2> QED BY <1>2, <1>5, <2>11
<1> QED BY <1>2, <1>3, <1>4, <1>5

\* The application answers the request of a connection.
LEMMA AppTied ==
  ASSUME Inv(server, input), Tied(server, input, {}), "stderr" \notin Faults,
         NEW c \in Conns, NEW j \in server.conn[c].jobs,
         AppStdout(c, j) \/ AppStderr(c, j) \/ AppEnd(c, j)
  PROVE  Tied(server', input', {})
<1>1. Core(server, {}) /\ server \in Heap /\ server.conn[c] \in Connection
  BY DEF Inv, Core, Heap
<1>2. input' = input
  BY DEF AppStdout, AppStderr, AppEnd, AppOutput, Answer
<1> DEFINE Step(record, left) ==
             /\ server' = [server EXCEPT !.conn[c] = Answered(@, j, record, left)]
             /\ \/ /\ record = [type |-> "STDOUT", req |-> j.req, n |-> j.sent + 1]
                   /\ left = {[j EXCEPT !.sent = @ + 1]}
                \/ record = [type |-> "END", req |-> j.req, n |-> j.sent] /\ left = {}
<1>3. PICK record, left : Step(record, left)
  <2>1. CASE AppStdout(c, j)
    <3>1. Step([type |-> "STDOUT", req |-> j.req, n |-> j.sent + 1],
               {[j EXCEPT !.sent = @ + 1]})
      BY <2>1 DEF AppStdout, AppOutput, Answer
    <3> QED BY <3>1, Zenon
  <2>2. CASE AppEnd(c, j)
    <3>1. Step([type |-> "END", req |-> j.req, n |-> j.sent], {})
      BY <2>2 DEF AppEnd, Answer
    <3> QED BY <3>1, Zenon
  <2>3. ~AppStderr(c, j)
    BY DEF AppStderr
  <2> QED BY <2>1, <2>2, <2>3
<1> DEFINE k == Answered(server.conn[c], j, record, left)
<1>4. \E e \in server.intercept_list : e.conn = c
  <2> SUFFICES ASSUME c \notin MappedConns(server)
               PROVE  FALSE
    BY DEF MappedConns
  <2>1. Quiet(server.conn[c])
    BY DEF Tied
  <2> QED BY <2>1 DEF Quiet
<1>5. PICK e \in server.intercept_list : e.conn = c
  BY <1>4
<1> DEFINE i == e.intercept
<1>6. i \in Intercepts /\ server.icept[i] \in Intercept
  BY <1>1 DEF Heap, Entry
<1>7. Carries(server.conn[c], i, server.icept[i], input[i]) /\ Settled(i, server.icept[i])
  BY <1>5, <1>6 DEF Tied
<1>8. Carries(k, i, server.icept[i], input[i])
  <2> DEFINE z == server.conn[c]
             p == server.icept[i]
             x == input[i]
  <2>1. z \in Connection /\ p \in Intercept /\ Carries(z, i, p, x) /\ j \in z.jobs
    BY <1>1, <1>6, <1>7
  <2> HIDE DEF z, p, x, i
  <2>2. Carries(Answered(z, j, record, left), i, p, x)
    BY <1>3, <2>1, CarriesAnswered
  <2> QED BY <2>2 DEF z, p, x
<1>9. /\ server'.conn = [server.conn EXCEPT ![c] = k] /\ server'.icept = server.icept
      /\ server'.pending = server.pending /\ server'.intercept_list = server.intercept_list
  BY <1>1, <1>3 DEF Heap
<1> HIDE DEF k, Step
<1>10. EntryStep(server, server', e)
  BY <1>1, <1>5, <1>9 DEF EntryStep, SameContent, SameAnswer, Heap
<1>11. /\ Settled(e.intercept, server'.icept[e.intercept])
       /\ Carries(server'.conn[e.conn], e.intercept, server'.icept[e.intercept],
                  input[e.intercept])
  BY <1>1, <1>5, <1>7, <1>8, <1>9 DEF Heap
<1>12. Tied(server', input, {})
  BY <1>1, <1>10, <1>11, TiedEntry
<1> QED BY <1>2, <1>12

-----------------------------------------------------------------------------
(***************************************************************************)
(* IdleQuiet and ResponseIntegrity.                                        *)
(***************************************************************************)

\* At first nothing is carried and there are no responses.
LEMMA InitTied == Init => Tied(server, input, {})
<1> SUFFICES ASSUME Init PROVE Tied(server, input, {})
  OBVIOUS
<1>1. /\ server.intercept_list = {} /\ server.pending = <<>>
      /\ \A c \in Conns : server.conn[c] = NoConnection
      /\ \A i \in Intercepts : server.icept[i] = NoIntercept
  BY DEF Init, EmptyHeap
<1>2. Queued(server) = {} /\ MappedConns(server) = {}
  BY <1>1 DEF Queued, MappedConns, Elements
<1>3. Fresh(NoIntercept) /\ NoIntercept.response = <<>> /\ ~NoIntercept.outputComplete
  BY DEF Fresh, NoIntercept
<1>4. Faithful(0, <<>>) /\ ~Ends(<<>>) /\ \A i : Faithful(i, <<>>)
  BY DEF Faithful, Ends
<1>5. \A i : Settled(i, NoIntercept)
  BY <1>3, <1>4 DEF Settled
<1> QED BY <1>1, <1>2, <1>3, <1>5, QuietObjects DEF Tied

\* One step, by event.
LEMMA NextTied ==
  ASSUME Inv(server, input), Tied(server, input, {}),
         "abort" \notin Faults, "stderr" \notin Faults,
         [Next]_vars
  PROVE  Tied(server', input', {})
<1>1. CASE UNCHANGED vars
  <2>1. server' = server /\ input' = input
    BY <1>1 DEF vars
  <2> QED BY <2>1
<1>2. ASSUME NEW i \in Intercepts, CacheLookupComplete(i)
      PROVE  Tied(server', input', {})
  BY <1>2, CacheLookupCompleteTied
<1>3. ASSUME NEW i \in Intercepts, StreamRequest(i) \/ StreamHeader(i) \/ StreamBody(i)
      PROVE  Tied(server', input', {})
  BY <1>3, StreamTied
<1>4. ASSUME NEW i \in Intercepts, TxnClose(i) PROVE Tied(server', input', {})
  BY <1>4, TxnCloseTied
<1>5. ASSUME NEW c \in Conns, NetConnect(c) PROVE Tied(server', input', {})
  BY <1>5, NetConnectTied
<1>6. ASSUME NEW c \in Conns, NetConnectFailed(c) PROVE Tied(server', input', {})
  BY <1>6, NetConnectFailedTied
<1>7. ASSUME NEW c \in Conns, ReadReady(c) PROVE Tied(server', input', {})
  BY <1>7, ReadReadyTied
<1>8. ASSUME NEW c \in Conns, WriteReady(c) PROVE Tied(server', input', {})
  BY <1>8, WriteReadyTied
<1>9. ASSUME NEW c \in Conns, Eos(c) \/ Error(c) PROVE Tied(server', input', {})
  BY <1>9, EosTied
<1>10. ASSUME NEW c \in Conns, NEW j \in server.conn[c].jobs,
              AppStdout(c, j) \/ AppStderr(c, j) \/ AppEnd(c, j)
       PROVE  Tied(server', input', {})
  BY <1>10, AppTied
<1> QED BY <1>1, <1>2, <1>3, <1>4, <1>5, <1>6, <1>7, <1>8, <1>9, <1>10, Zenon DEF Next

\* Tied' of the current state is Tied of the next state.
LEMMA TiedPrime == Tied(server, input, {})' <=> Tied(server', input', {})
BY DEF Tied, Carries, Quiet, Asked, Answering, WorksOn, Over, Unasked, Fresh, Settled,
       Ends, Faithful, Queued, MappedConns, Elements

\* The inductive invariant, when no client goes away before it has its response
\* and the application writes no errors.
TiedInv == IInv /\ Tied(server, input, {})

LEMMA TiedInvariance ==
  ASSUME "abort" \notin Faults, "stderr" \notin Faults
  PROVE  Spec => []TiedInv
<1>1. Init => TiedInv
  BY InitInv, InvParts, InitTied DEF TiedInv
<1>2. TiedInv /\ [Next]_vars => IInv'
  BY NextInv, InvParts, InvPartsNext DEF TiedInv
<1>3. TiedInv /\ [Next]_vars => Tied(server, input, {})'
  BY InvParts, NextTied, TiedPrime DEF TiedInv
<1>4. TiedInv /\ [Next]_vars => TiedInv'
  BY <1>2, <1>3, Zenon DEF TiedInv
<1> QED BY <1>1, <1>4, PTL DEF Spec

\* removeIntercept: as long as no client goes away and the application writes
\* no FCGI_STDERR, nothing of a request is left on a connection that is idle,
\* neither at the application nor in the read buffer, whatever connections were
\* refused or lost before.
THEOREM IdleIsQuiet ==
  ASSUME "abort" \notin Faults, "stderr" \notin Faults
  PROVE  Spec => []IdleQuiet
<1>1. TiedInv => IdleQuiet
  <2> SUFFICES ASSUME TiedInv, NEW c \in Idle(server)
               PROVE  server.conn[c].jobs = {} /\ server.conn[c].readBuf = <<>>
    BY DEF IdleQuiet
  <2>1. Core(server, {})
    BY InvParts DEF TiedInv, Inv
  <2>2. c \in Conns \ (MappedConns(server) \cup {})
    BY <2>1 DEF Core, PoolInv, Heap
  <2>3. Quiet(server.conn[c])
    BY <2>2 DEF TiedInv, Tied
  <2> QED BY <2>3 DEF Quiet
<1> QED BY <1>1, TiedInvariance, PTL

\* interceptTransferData: under the same condition the response of every
\* request is what the application sent for it, all of it and in order, on
\* whichever connections and in whatever blocks it came; and it is complete
\* exactly when the application ended it.
THEOREM ResponsesIntact ==
  ASSUME "abort" \notin Faults, "stderr" \notin Faults
  PROVE  Spec => []ResponseIntegrity
<1>1. TiedInv => ResponseIntegrity
  <2> SUFFICES ASSUME TiedInv, NEW i \in Intercepts
               PROVE  LET response == server.icept[i].response
                      IN  /\ Faithful(i, response)
                          /\ server.icept[i].outputComplete
                               <=> response # <<>> /\ response[Len(response)].type = "END"
    BY DEF ResponseIntegrity
  <2>1. Settled(i, server.icept[i])
    BY DEF TiedInv, Tied
  <2> QED BY <2>1, Zenon DEF Settled, Ends
<1> QED BY <1>1, TiedInvariance, PTL

-----------------------------------------------------------------------------
(***************************************************************************)
(* Counting. A request in service has one connection, so requests and      *)
(* connections in service are equally many.                                *)
(***************************************************************************)

\* The requests and the connections in service.
LEMMA MappedCardinality ==
  ASSUME NEW h, NEW D, Core(h, D)
  PROVE  /\ IsFiniteSet(MappedConns(h)) /\ IsFiniteSet(MappedIntercepts(h))
         /\ Cardinality(MappedIntercepts(h)) = Cardinality(MappedConns(h))
         /\ Cardinality(MappedConns(h)) \in Nat
<1> DEFINE S == MappedConns(h)
           T == MappedIntercepts(h)
<1>1. \A e \in h.intercept_list : e.conn \in Conns /\ e.intercept \in Intercepts
  BY DEF Core, Heap, Entry
<1>2. \A e, f \in h.intercept_list : e.conn = f.conn <=> e.intercept = f.intercept
  BY <1>1 DEF Core, MapInv
<1>3. IsFiniteSet(S)
  <2>1. S \subseteq Conns
    BY <1>1 DEF MappedConns
  <2> QED BY <2>1, PoolAssumption, FS_Subset
<1> DEFINE f == [c \in S |-> (CHOOSE e \in h.intercept_list : e.conn = c).intercept]
<1>4. \A e \in h.intercept_list : e.conn \in S /\ e.intercept \in T
  BY DEF MappedConns, MappedIntercepts
<1>5. \A c \in S : \E e \in h.intercept_list : e.conn = c /\ f[c] = e.intercept
  BY DEF MappedConns
<1>6. \A t \in T : \E e \in h.intercept_list : e.intercept = t
  BY DEF MappedIntercepts
<1>7. f \in [S -> T]
  BY <1>4, <1>5
<1>8. \A e \in h.intercept_list : f[e.conn] = e.intercept
  BY <1>2, <1>4, <1>5
<1> HIDE DEF f, S, T
<1>9. \A c, d \in S : f[c] = f[d] => c = d
  BY <1>2, <1>5
<1>10. \A t \in T : \E c \in S : f[c] = t
  BY <1>4, <1>6, <1>8
<1>11. f \in Bijection(S, T)
  BY <1>7, <1>9, <1>10, Zenon
     DEF Bijection, Injection, Surjection, IsInjective
<1>12. ExistsBijection(S, T)
  BY <1>11 DEF ExistsBijection
<1>13. IsFiniteSet(T) /\ Cardinality(T) = Cardinality(S)
  BY <1>3, <1>12, FS_Bijection
<1> QED BY <1>3, <1>13, FS_CardinalityType DEF S, T

\* No more requests are in service than _maxConn.
LEMMA InService ==
  ASSUME NEW h, NEW D, Core(h, D)
  PROVE  Cardinality(MappedIntercepts(h)) <= maxConn
<1>1. /\ Cardinality(MappedIntercepts(h)) = Cardinality(MappedConns(h))
      /\ Cardinality(MappedConns(h)) \in Nat
  BY MappedCardinality
<1>2. IsFiniteSet(h.connections) /\ MappedConns(h) \in SUBSET h.connections
  BY PoolAssumption, FS_Subset DEF Core, Heap, PoolInv
<1>3. /\ Cardinality(MappedConns(h)) <= Cardinality(h.connections)
      /\ Cardinality(h.connections) \in Nat
  BY <1>2, FS_Subset, FS_CardinalityType
<1>4. Cardinality(h.connections) <= maxConn
  BY DEF Core, PoolInv
<1> QED BY <1>1, <1>3, <1>4, MaxConnType

\* getAvailableConnection: there is a connection exactly if fewer than
\* _maxConn are in service or detached.
LEMMA Slots ==
  ASSUME NEW h, NEW D, Core(h, D)
  PROVE  getAvailableConnection(h).conn # NULL
           <=> Cardinality(MappedConns(h) \cup D) < maxConn
<1> DEFINE U == MappedConns(h) \cup D
           a == getAvailableConnection(h)
<1>1. /\ h \in Heap /\ h.connections \subseteq Conns /\ h.available \in Seq(Conns)
      /\ h.connections = Idle(h) \cup U /\ Idle(h) \cap U = {}
      /\ Cardinality(h.connections) <= maxConn
  BY DEF Core, Heap, PoolInv
<1> HIDE DEF U
<1>2. IsFiniteSet(h.connections) /\ Cardinality(h.connections) \in Nat
  BY <1>1, PoolAssumption, FS_Subset, FS_CardinalityType
<1>3. /\ IsFiniteSet(U) /\ Cardinality(U) <= Cardinality(h.connections)
      /\ Cardinality(U) = Cardinality(h.connections) => U = h.connections
      /\ Cardinality(U) \in Nat
  <2>1. U \in SUBSET h.connections
    BY <1>1
  <2> QED BY <1>2, <2>1, FS_Subset, FS_CardinalityType
<1>4. NULL \notin Conns
  BY NullAssumption
<1>5. CASE Cardinality(h.connections) < maxConn
  <2>1. h.connections # Conns
    BY <1>2, <1>5, MaxConnType, FS_CardinalityType, PoolAssumption
  <2>2. (CHOOSE x \in Conns : x \notin h.connections) \in Conns
    BY <1>1, <2>1
  <2>3. a.conn # NULL
    BY <1>4, <1>5, <2>2 DEF getAvailableConnection
  <2>4. Cardinality(U) < maxConn
    BY <1>2, <1>3, <1>5, MaxConnType
  <2> QED BY <2>3, <2>4 DEF U
<1>6. CASE ~(Cardinality(h.connections) < maxConn) /\ h.available # <<>>
  <2>1. Head(h.available) \in Conns /\ Head(h.available) \in Idle(h)
    <3>1. Injective(h.available)
      BY DEF Core, PoolInv
    <3> QED BY <1>1, <1>6, <3>1, ListTail DEF Idle
  <2>2. a.conn # NULL
    BY <1>4, <1>6, <2>1 DEF getAvailableConnection
  <2>3. U # h.connections
    BY <1>1, <2>1
  <2>4. Cardinality(U) < maxConn
    BY <1>1, <1>2, <1>3, <2>3, MaxConnType
  <2> QED BY <2>2, <2>4 DEF U
<1>7. CASE ~(Cardinality(h.connections) < maxConn) /\ h.available = <<>>
  <2>1. Idle(h) = {}
    BY <1>7 DEF Idle, Elements
  <2>2. U = h.connections
    BY <1>1, <2>1
  <2>3. a.conn = NULL
    BY <1>7 DEF getAvailableConnection
  <2> QED BY <1>7, <2>2, <2>3 DEF U
<1> QED BY <1>5, <1>6, <1>7

\* The heap the pool returns with no connection is the one it got.
LEMMA NoneAvailable ==
  ASSUME NEW h, NEW D, Core(h, D), getAvailableConnection(h).conn = NULL
  PROVE  getAvailableConnection(h).heap = h
<1>1. \A x \in Conns : x # NULL
  BY NullAssumption
<1>2. h.available \in Seq(Conns) /\ h.connections \subseteq Conns
  BY DEF Core, Heap
<1>3. h.available # <<>> => Head(h.available) # NULL
  BY <1>1, <1>2
<1>4. Cardinality(h.connections) < maxConn =>
        (CHOOSE x \in Conns : x \notin h.connections) # NULL
  <2>1. Cardinality(h.connections) < maxConn => h.connections # Conns
    BY MaxConnType, FS_CardinalityType, PoolAssumption
  <2> QED BY <1>1, <1>2, <2>1
<1> QED BY <1>3, <1>4 DEF getAvailableConnection

-----------------------------------------------------------------------------
(***************************************************************************)
(* The service as a heap shows it, and what the functions do to it.        *)
(***************************************************************************)

\* The queue when a request was sent to it.
WithRequest(w, i) == IF Len(w) < RequestQueueSize THEN Append(w, i) ELSE w

\* What becomes of the queue and the requests in service.
SameService(h, g) ==
  MappedIntercepts(g) = MappedIntercepts(h) /\ g.pending = h.pending

Serves(h, g, i) ==
  MappedIntercepts(g) = MappedIntercepts(h) \cup {i} /\ g.pending = h.pending

Waits(h, g, i) ==
  /\ MappedIntercepts(g) = MappedIntercepts(h)
  /\ g.pending = WithRequest(h.pending, i)

Leaves(h, g, i) ==
  MappedIntercepts(g) = MappedIntercepts(h) \ {i} /\ g.pending = h.pending

\* A heap with the same map and queue shows the same service.
LEMMA CoreService ==
  ASSUME NEW h, NEW g, SameCore(h, g)
  PROVE  SameService(h, g)
BY DEF SameCore, SameService, MappedIntercepts

\* initiateBackendConnection leaves the queue alone.
LEMMA InitiateQueue ==
  ASSUME NEW h \in Heap, NEW c \in Conns, NEW i \in Intercepts
  PROVE  initiateBackendConnection(h, i, c).pending = h.pending
BY DEF initiateBackendConnection, createConnection, createFCGIClient, Heap

\* connect serves a request if a connection is left, and else sends it to the
\* queue.
LEMMA ConnectService ==
  ASSUME NEW h, NEW D, NEW i \in Intercepts,
         Core(h, D), h.icept[i].alive, i \notin Accepted(h)
  PROVE  LET g == connect(h, i)
         IN  IF Cardinality(MappedConns(h) \cup D) < maxConn
             THEN Serves(h, g, i) ELSE Waits(h, g, i)
<1> DEFINE a == getAvailableConnection(h)
<1>1. CASE a.conn # NULL
  <2>1. /\ a.conn \in Conns /\ a.conn \notin D
        /\ Core(a.heap, D \cup {a.conn})
        /\ a.heap.intercept_list = h.intercept_list
        /\ a.heap.pending = h.pending
        /\ a.heap.icept = h.icept
    BY <1>1, CoreGetAvailable
  <2>2. connect(h, i) = initiateBackendConnection(a.heap, i, a.conn)
    BY <1>1 DEF connect
  <2>3. Cardinality(MappedConns(h) \cup D) < maxConn
    BY <1>1, Slots
  <2> HIDE DEF a
  <2>4. /\ MappedIntercepts(a.heap) = MappedIntercepts(h)
        /\ i \notin Accepted(a.heap)
    BY <2>1 DEF MappedIntercepts, Accepted, Queued
  <2> DEFINE g == initiateBackendConnection(a.heap, i, a.conn)
  <2>5. MappedIntercepts(g) = MappedIntercepts(a.heap) \cup {i}
    BY <2>1, <2>4, CoreInitiate
  <2>6. g.pending = a.heap.pending
    BY <2>1, InitiateQueue DEF Core
  <2> HIDE DEF g
  <2>7. Serves(h, g, i)
    BY <2>1, <2>4, <2>5, <2>6 DEF Serves
  <2> QED BY <2>2, <2>3, <2>7 DEF g
<1>2. CASE a.conn = NULL
  <2>1. a.heap = h
    BY <1>2, NoneAvailable
  <2>2. connect(h, i) = addToQueue(h, i)
    BY <1>2, <2>1 DEF connect
  <2>3. ~(Cardinality(MappedConns(h) \cup D) < maxConn)
    BY <1>2, Slots
  <2>4. Waits(h, addToQueue(h, i), i)
    <3>1. h \in Heap /\ Len(h.pending) \in Nat /\ RequestQueueSize \in Nat
      BY QueueAssumption DEF Core, Heap
    <3> QED BY <3>1
            DEF Waits, WithRequest, addToQueue, isQueueFull, MappedIntercepts, Heap
  <2> QED BY <2>2, <2>3, <2>4
<1> QED BY <1>1, <1>2

\* connectionClosed ends the service of the request of the connection, if it
\* serves one, and leaves the queue alone.
LEMMA ClosedService ==
  ASSUME NEW h, NEW c \in Conns, NEW D \in SUBSET {c}, Core(h, D)
  PROVE  LET g == connectionClosed(h, c)
             r == h.conn[c].requestId
         IN  IF Mapped(h, r) THEN Leaves(h, g, getIntercept(h, r))
             ELSE SameService(h, g)
<1> DEFINE r == h.conn[c].requestId
           f == erase(h, r)
           g == connectionClosed(h, c)
<1>1. h \in Heap
  BY DEF Core
<1>2. f \in Heap /\ f.pending = h.pending
  BY <1>1 DEF erase, Heap
<1>3. g.intercept_list = f.intercept_list /\ g.pending = f.pending
  <2> HIDE DEF f
  <2>1. /\ poolConnectionClosed(f, c).intercept_list = f.intercept_list
        /\ poolConnectionClosed(f, c).pending = f.pending
    BY <1>2 DEF poolConnectionClosed, Heap
  <2>2. g = [poolConnectionClosed(f, c) EXCEPT !.phpConnCount = @ - 1]
    BY DEF connectionClosed, f
  <2> QED BY <1>2, <2>1, <2>2 DEF poolConnectionClosed, Heap
<1>4. MappedIntercepts(g) = MappedIntercepts(f)
  BY <1>3 DEF MappedIntercepts
<1>5. CASE Mapped(h, r)
  <2>1. /\ EntryOf(h, r) \in h.intercept_list /\ EntryOf(h, r).id = r
        /\ getIntercept(h, r) = EntryOf(h, r).intercept
    BY <1>1, <1>5, Lookup
  <2>2. MappedIntercepts(erase(h, EntryOf(h, r).id)) =
          MappedIntercepts(h) \ {EntryOf(h, r).intercept}
    BY <2>1, CoreErase, Zenon
  <2> QED BY <1>2, <1>3, <1>4, <1>5, <2>1, <2>2 DEF Leaves
<1>6. CASE ~Mapped(h, r)
  <2>1. f = h
    BY <1>1, <1>6, NoEntry
  <2> QED BY <1>2, <1>3, <1>4, <1>6, <2>1 DEF SameService
<1> QED BY <1>5, <1>6

\* The request of connection c is connected anew and c closed: the request is
\* in service as before, or waits because all slots were taken.
LEMMA RetryService ==
  ASSUME NEW h, Core(h, {}), NEW c \in Conns
  PROVE  LET r == h.conn[c].requestId
             g == connectionClosed(reConnect(h, r), c)
             i == getIntercept(h, r)
         IN  \/ SameService(h, g)
             \/ /\ i \in MappedIntercepts(h)
                /\ Cardinality(MappedIntercepts(h)) = maxConn
                /\ MappedIntercepts(g) = MappedIntercepts(h) \ {i}
                /\ g.pending = WithRequest(h.pending, i)
<1> DEFINE r == h.conn[c].requestId
           f == reConnect(h, r)
           g == connectionClosed(f, c)
<1>1. h \in Heap
  BY DEF Core
<1>2. CASE ~Mapped(h, r)
  <2>1. f = h
    BY <1>1, <1>2, Lookup DEF reConnect
  <2>2. {} \in SUBSET {c}
    OBVIOUS
  <2>3. SameService(h, connectionClosed(h, c))
    BY <1>2, <2>2, ClosedService, Zenon
  <2> QED BY <2>1, <2>3
<1>3. CASE Mapped(h, r)
  <2> DEFINE e == EntryOf(h, r)
             i == e.intercept
             h0 == erase(h, r)
  <2>1. /\ e \in h.intercept_list /\ e.id = r /\ f = connect(h0, i)
        /\ i = getIntercept(h, r)
    BY <1>1, <1>3, Lookup DEF reConnect
  <2> HIDE DEF e, f, r
  <2>2. /\ e.conn = c /\ h.icept[i].alive /\ i \in MappedIntercepts(h)
        /\ c \in MappedConns(h)
    BY <2>1 DEF Core, MapInv, MappedIntercepts, MappedConns, r
  <2>3. /\ Core(h0, {c})
        /\ i \in Intercepts
        /\ MappedIntercepts(h0) = MappedIntercepts(h) \ {i}
        /\ Queued(h0) = Queued(h)
        /\ SameRequests(h, h0)
        /\ h0.conn = h.conn
        /\ h0.pending = h.pending
    <3>1. /\ Core(erase(h, e.id), {} \cup {e.conn})
          /\ i \in Intercepts
          /\ MappedIntercepts(erase(h, e.id)) = MappedIntercepts(h) \ {i}
          /\ Queued(erase(h, e.id)) = Queued(h)
          /\ SameRequests(h, erase(h, e.id))
          /\ erase(h, e.id).conn = h.conn
      BY <2>1, CoreErase, Zenon
    <3>2. erase(h, e.id).pending = h.pending
      BY <1>1 DEF erase, Heap
    <3>3. {} \cup {c} = {c}
      OBVIOUS
    <3> HIDE DEF i
    <3> QED BY <2>1, <2>2, <3>1, <3>2, <3>3
  <2> HIDE DEF i, h0
  <2>4. h0.icept[i].alive /\ i \notin Accepted(h0)
    BY <2>2, <2>3 DEF SameRequests, Accepted, Core, QueueInv
  <2>5. /\ Core(f, {c})
        /\ IF Cardinality(MappedConns(h0) \cup {c}) < maxConn
           THEN Serves(h0, f, i) ELSE Waits(h0, f, i)
    BY <2>1, <2>3, <2>4, CoreConnect, ConnectService, Zenon
  \* Only c has its id, and nobody in the map has c.
  <2>6. ~Mapped(f, f.conn[c].requestId)
    BY <2>5 DEF Core, PoolInv, MapInv, Mapped, MappedConns
  <2>7. SameService(f, g)
    <3>1. {c} \in SUBSET {c}
      OBVIOUS
    <3>2. IF Mapped(f, f.conn[c].requestId)
          THEN Leaves(f, g, getIntercept(f, f.conn[c].requestId))
          ELSE SameService(f, g)
      BY <2>5, <3>1, ClosedService
    <3> QED BY <2>6, <3>2
  <2> HIDE DEF g
  \* The slots in use are those of h: c still counts.
  <2>8. Cardinality(MappedConns(h0) \cup {c}) = Cardinality(MappedIntercepts(h))
    <3>1. /\ Cardinality(MappedIntercepts(h0)) = Cardinality(MappedConns(h0))
          /\ IsFiniteSet(MappedConns(h0)) /\ IsFiniteSet(MappedIntercepts(h0))
          /\ Cardinality(MappedConns(h0)) \in Nat
      BY <2>3, MappedCardinality
    <3>2. c \notin MappedConns(h0)
      BY <2>3 DEF Core, PoolInv
    <3>3. Cardinality(MappedConns(h0) \cup {c}) = Cardinality(MappedConns(h0)) + 1
      BY <3>1, <3>2, FS_AddElement
    <3>4. MappedIntercepts(h0) \cup {i} = MappedIntercepts(h)
      BY <2>2, <2>3
    <3>5. Cardinality(MappedIntercepts(h0) \cup {i}) = Cardinality(MappedIntercepts(h0)) + 1
      BY <2>3, <3>1, FS_AddElement
    <3> QED BY <3>1, <3>3, <3>4, <3>5
  <2>9. CASE Cardinality(MappedIntercepts(h)) < maxConn
    <3>1. Serves(h0, f, i)
      BY <2>5, <2>8, <2>9
    <3>2. SameService(h, g)
      BY <2>2, <2>3, <2>7, <3>1 DEF Serves, SameService
    <3> QED BY <3>2 DEF g, f, r
  <2>10. CASE ~(Cardinality(MappedIntercepts(h)) < maxConn)
    <3>1. Waits(h0, f, i)
      BY <2>5, <2>8, <2>10
    <3>2. Cardinality(MappedIntercepts(h)) <= maxConn
      BY InService
    <3>3. Cardinality(MappedIntercepts(h)) = maxConn
      <4>1. Cardinality(MappedIntercepts(h)) \in Nat
        BY MappedCardinality
      <4> QED BY <2>10, <3>2, <4>1, MaxConnType
    <3>4. /\ MappedIntercepts(g) = MappedIntercepts(h) \ {i}
          /\ g.pending = WithRequest(h.pending, i)
      BY <2>3, <2>7, <3>1 DEF Waits, SameService
    <3> QED BY <2>1, <2>2, <3>3, <3>4 DEF g, f, r
  <2> QED BY <2>9, <2>10
<1> QED BY <1>2, <1>3

\* The slot of i goes to the head of the queue, if there is one.
HandsOn(h, g, i) ==
  IF h.pending = <<>>
  THEN MappedIntercepts(g) = MappedIntercepts(h) \ {i} /\ g.pending = <<>>
  ELSE /\ MappedIntercepts(g) = (MappedIntercepts(h) \ {i}) \cup {Head(h.pending)}
       /\ g.pending = Tail(h.pending)

\* serveNext with a slot to give away.
LEMMA ServeNextService ==
  ASSUME NEW h, Core(h, {}), Cardinality(MappedIntercepts(h)) < maxConn
  PROVE  LET g == serveNext(h)
         IN  \/ g.crashed
             \/ h.pending = <<>> /\ g = h
             \/ /\ h.pending # <<>>
                /\ MappedIntercepts(g) = MappedIntercepts(h) \cup {Head(h.pending)}
                /\ g.pending = Tail(h.pending)
<1> DEFINE i == Head(h.pending)
           f == popFromQueue(h)
           g == serveNext(h)
<1>1. CASE h.pending = <<>>
  BY <1>1 DEF serveNext
<1>2. CASE h.pending # <<>>
  <2>1. /\ i \in Intercepts /\ i \notin Accepted(f) /\ Core(f, {})
        /\ f.pending = Tail(h.pending)
        /\ f.intercept_list = h.intercept_list /\ f.icept = h.icept
    BY <1>2, CorePop
  <2>2. g = IF h.icept[i].alive THEN connect(f, i) ELSE [f EXCEPT !.crashed = TRUE]
    BY <1>2 DEF serveNext
  <2> HIDE DEF f, i, g
  <2>3. /\ MappedIntercepts(f) = MappedIntercepts(h)
        /\ MappedConns(f) = MappedConns(h)
    BY <2>1 DEF MappedIntercepts, MappedConns
  <2>4. CASE h.icept[i].alive
    <3>1. Cardinality(MappedConns(f) \cup {}) < maxConn
      <4>1. MappedConns(f) \cup {} = MappedConns(h)
        BY <2>3
      <4> QED BY <4>1, MappedCardinality
    <3>2. Serves(f, connect(f, i), i)
      BY <2>1, <2>4, <3>1, ConnectService
    <3>3. /\ MappedIntercepts(g) = MappedIntercepts(h) \cup {i}
          /\ g.pending = Tail(h.pending)
      BY <2>1, <2>2, <2>3, <2>4, <3>2 DEF Serves
    <3> QED BY <1>2, <3>3 DEF g, i
  <2>5. CASE ~h.icept[i].alive
    <3>1. g.crashed
      BY <2>1, <2>2, <2>5 DEF Core, Heap
    <3> QED BY <3>1 DEF g
  <2> QED BY <2>4, <2>5
<1> QED BY <1>1, <1>2

\* removeIntercept, on a request in service, hands its slot on.
LEMMA RemoveService ==
  ASSUME NEW h, NEW r, Core(h, {}), Mapped(h, r)
  PROVE  LET g == removeIntercept(h, r)
         IN  g.crashed \/ HandsOn(h, g, getIntercept(h, r))
<1> DEFINE e  == EntryOf(h, r)
           c  == e.conn
           h0 == erase(h, r)
           h1 == releaseFCGIClient(h0, c)
           h2 == [h1 EXCEPT !.conn[c] = setRequestId(@, 0)]
           h3 == IF MaxRequests > h2.conn[c].req_count
                 THEN reuseConnection(h2, c)
                 ELSE connectionClosed(h2, c)
           g  == removeIntercept(h, r)
<1>0. h \in Heap
  BY DEF Core
<1>1. /\ e \in h.intercept_list /\ e.id = r
      /\ getIntercept(h, r) = e.intercept
      /\ getServerConnection(h, r) = c
  BY <1>0, Lookup
<1>2. g = serveNext(h3)
  BY <1>1 DEF removeIntercept
<1> HIDE DEF e, g
<1>3. /\ Core(erase(h, e.id), {} \cup {e.conn})
      /\ c \in Conns
      /\ MappedIntercepts(erase(h, e.id)) = MappedIntercepts(h) \ {e.intercept}
  BY <1>1, CoreErase, Zenon
<1> HIDE DEF c, h3
<1>4. /\ Core(h0, {c})
      /\ MappedIntercepts(h0) = MappedIntercepts(h) \ {e.intercept}
      /\ h0.pending = h.pending
  <2>1. {} \cup {c} = {c}
    OBVIOUS
  <2>2. h0.pending = h.pending
    BY <1>0 DEF erase, Heap
  <2> QED BY <1>1, <1>3, <2>1, <2>2 DEF c
<1> HIDE DEF h0
<1>5. Core(h1, {c}) /\ SameService(h0, h1)
  <2>1. h0 \in Heap
    BY <1>4 DEF Core
  <2>2. h1 \in Heap /\ SameCore(h0, h1)
    BY <1>3, <2>1, ReleaseFCGIClient
  <2> HIDE DEF h1
  <2> QED BY <1>4, <2>2, CoreFrame, CoreService
<1> HIDE DEF h1
<1>6. Core(h2, {c})
  BY <1>3, <1>5, CoreForget
<1>7. SameService(h1, h2)
  <2>1. h2.intercept_list = h1.intercept_list /\ h2.pending = h1.pending
    BY <1>5 DEF Core, Heap
  <2> HIDE DEF h2
  <2> QED BY <2>1 DEF SameService, MappedIntercepts
<1>8. h3 = reuseConnection(h2, c) \/ h3 = connectionClosed(h2, c)
  BY DEF h3
<1> HIDE DEF h2
<1>9. Core(h3, {}) /\ SameService(h2, h3)
  <2>1. CASE h3 = reuseConnection(h2, c)
    <3>1. Core(h3, {})
      BY <1>3, <1>6, <2>1, CoreReuse
    <3>2. h3.intercept_list = h2.intercept_list /\ h3.pending = h2.pending
      BY <1>6, <2>1 DEF reuseConnection, Core, Heap
    <3> QED BY <3>1, <3>2 DEF SameService, MappedIntercepts
  <2>2. CASE h3 = connectionClosed(h2, c)
    <3>1. {c} \in SUBSET {c}
      OBVIOUS
    <3>2. Core(h3, {})
      BY <1>3, <1>6, <2>2, <3>1, CoreClosed
    <3>3. ~Mapped(h2, h2.conn[c].requestId)
      BY <1>3, <1>6 DEF Core, PoolInv, MapInv, Mapped, MappedConns
    <3>4. IF Mapped(h2, h2.conn[c].requestId)
          THEN Leaves(h2, h3, getIntercept(h2, h2.conn[c].requestId))
          ELSE SameService(h2, h3)
      BY <1>3, <1>6, <2>2, <3>1, ClosedService
    <3> QED BY <3>2, <3>3, <3>4
  <2> QED BY <1>8, <2>1, <2>2
<1>10. /\ MappedIntercepts(h3) = MappedIntercepts(h) \ {e.intercept}
       /\ h3.pending = h.pending
  BY <1>4, <1>5, <1>7, <1>9 DEF SameService
\* Before, c was in service as well.
<1>11. Cardinality(MappedIntercepts(h3)) < maxConn
  <2>1. e.intercept \in MappedIntercepts(h)
    BY <1>1 DEF MappedIntercepts
  <2>2. Cardinality(MappedIntercepts(h)) <= maxConn
    BY InService
  <2>3. IsFiniteSet(MappedIntercepts(h)) /\ Cardinality(MappedIntercepts(h)) \in Nat
    BY MappedCardinality
  <2>4. Cardinality(MappedIntercepts(h) \ {e.intercept}) = Cardinality(MappedIntercepts(h)) - 1
    BY <2>1, <2>3, FS_RemoveElement
  <2> QED BY <1>10, <2>2, <2>3, <2>4, MaxConnType
<1>12. \/ g.crashed
       \/ h3.pending = <<>> /\ g = h3
       \/ /\ h3.pending # <<>>
          /\ MappedIntercepts(g) = MappedIntercepts(h3) \cup {Head(h3.pending)}
          /\ g.pending = Tail(h3.pending)
  BY <1>2, <1>9, <1>11, ServeNextService
<1>13. g.crashed \/ HandsOn(h, g, e.intercept)
  BY <1>10, <1>12 DEF HandsOn
<1> QED BY <1>1, <1>13 DEF g

-----------------------------------------------------------------------------
(***************************************************************************)
(* Events as steps of RequestService.                                      *)
(***************************************************************************)

\* RequestService counts as FcgiSystem does.
LEMMA ServiceCardinality == \A S : Service!Cardinality(S) = Cardinality(S)
BY Zenon DEF Cardinality, Service!Cardinality

\* What a step of the plugin may be.
ServiceStep ==
  Service!Next \/ server.crashed' \/ UNCHANGED Service!vars

\* What a step may be in which no connection fails.
IdealStep ==
  \/ \E i \in Intercepts : Service!Arrive(i) \/ Service!Finish(i)
  \/ server.crashed' \/ UNCHANGED Service!vars

LEMMA IdealIsService == IdealStep => ServiceStep
BY DEF IdealStep, ServiceStep, Service!Next

\* A handler that changes neither map nor queue, while no request comes.
LEMMA StutterStep ==
  ASSUME SameService(server, server'), UNCHANGED Arrived
  PROVE  IdealStep
BY DEF SameService, MappedIntercepts, IdealStep, Service!vars

\* No request comes when a client sends more, or nothing.
LEMMA ArrivedKept ==
  ASSUME input \in [Intercepts -> Input],
         \/ UNCHANGED input
         \/ \E i \in Intercepts, x \in Input \ {"new"} :
              input[i] # "new" /\ input' = [input EXCEPT ![i] = x]
  PROVE  UNCHANGED Arrived
<1>1. CASE UNCHANGED input
  BY <1>1 DEF Arrived
<1>2. ASSUME NEW i \in Intercepts, NEW x \in Input \ {"new"},
             input[i] # "new", input' = [input EXCEPT ![i] = x]
      PROVE  UNCHANGED Arrived
  <2>1. \A j \in Intercepts : input'[j] = "new" <=> input[j] = "new"
    BY <1>2
  <2> QED BY <2>1 DEF Arrived
<1> QED BY <1>1, <1>2

\* A request that ends hands its slot on.
LEMMA FinishStep ==
  ASSUME NEW i \in Intercepts, i \in MappedIntercepts(server),
         HandsOn(server, server', i), UNCHANGED Arrived
  PROVE  IdealStep
<1>1. Service!Finish(i)
  BY DEF HandsOn, MappedIntercepts, Service!Finish
<1> QED BY <1>1 DEF IdealStep

\* A request is lost with its connection.
LEMMA FailStep ==
  ASSUME NEW i \in Intercepts, i \in MappedIntercepts(server),
         Leaves(server, server', i), UNCHANGED Arrived
  PROVE  ServiceStep
<1>1. Service!Fail(i)
  BY DEF Leaves, MappedIntercepts, Service!Fail
<1> QED BY <1>1 DEF ServiceStep, Service!Next

\* A request goes back to the queue.
LEMMA RetryStep ==
  ASSUME NEW i \in Intercepts, i \in MappedIntercepts(server),
         Cardinality(MappedIntercepts(server)) = maxConn,
         MappedIntercepts(server)' = MappedIntercepts(server) \ {i},
         server'.pending = WithRequest(server.pending, i),
         UNCHANGED Arrived
  PROVE  ServiceStep
<1>1. Service!Retry(i)
  BY ServiceCardinality DEF WithRequest, Service!Retry, Service!Enqueued
<1> QED BY <1>1 DEF ServiceStep, Service!Next

\* The cache lookup hook is Arrive.
LEMMA CacheLookupCompleteStep ==
  ASSUME Inv(server, input), NEW i \in Intercepts, CacheLookupComplete(i)
  PROVE  IdealStep
<1> DEFINE p == Constructed(server.icept[i])
           f == [server EXCEPT !.icept[i] = Constructed(@)]
           g == connect(f, i)
<1>1. Core(server, {}) /\ input \in [Intercepts -> Input]
  BY DEF Inv
<1>2. /\ p \in Intercept /\ p.requestId = server.icept[i].requestId /\ p.alive
  <2>1. server.icept[i] \in Intercept
    BY <1>1 DEF Core, Heap
  <2> QED BY <2>1, InterceptSetters, InterceptFrame
<1>3. f = [server EXCEPT !.icept[i] = p]
  OBVIOUS
<1>4. server' = g /\ input[i] = "new" /\ input' = [input EXCEPT ![i] = "none"]
  BY DEF CacheLookupComplete
<1> HIDE DEF p, g
<1>5. f.pending = server.pending
  BY <1>1 DEF Core, Heap
<1> HIDE DEF f
<1>6. /\ Core(f, {})
      /\ Accepted(f) = Accepted(server)
      /\ f.intercept_list = server.intercept_list
      /\ f.icept = [server.icept EXCEPT ![i] = p]
  BY <1>1, <1>2, <1>3, CoreIntercept
<1>7. f.icept[i].alive /\ i \notin Accepted(f)
  BY <1>1, <1>2, <1>4, <1>6 DEF Core, Heap, Inv
<1>8. IF Cardinality(MappedConns(f) \cup {}) < maxConn
      THEN Serves(f, g, i) ELSE Waits(f, g, i)
  BY <1>6, <1>7, ConnectService DEF g
<1>9. /\ MappedIntercepts(f) = MappedIntercepts(server)
      /\ Cardinality(MappedConns(f) \cup {}) = Cardinality(MappedIntercepts(server))
  <2>1. MappedIntercepts(f) = MappedIntercepts(server)
    BY <1>6 DEF MappedIntercepts
  <2>2. MappedConns(f) \cup {} = MappedConns(f)
    OBVIOUS
  <2> QED BY <1>6, <2>1, <2>2, MappedCardinality
<1>10. i \notin Arrived /\ Arrived' = Arrived \cup {i}
  BY <1>1, <1>4 DEF Arrived
<1>11. IF Cardinality(MappedIntercepts(server)) < maxConn
       THEN Serves(server, server', i) ELSE Waits(server, server', i)
  BY <1>4, <1>5, <1>8, <1>9 DEF Serves, Waits
<1>12. Service!Arrive(i)
  BY <1>10, <1>11, ServiceCardinality
     DEF Serves, Waits, WithRequest, MappedIntercepts, Service!Arrive, Service!Enqueued
<1> QED BY <1>12 DEF IdealStep

\* Streaming a request out changes nothing in the service.
LEMMA StreamStep ==
  ASSUME Inv(server, input), NEW i \in Intercepts,
         StreamRequest(i) \/ StreamHeader(i) \/ StreamBody(i)
  PROVE  IdealStep
<1>1. server \in Heap /\ input \in [Intercepts -> Input]
  BY DEF Inv, Core
<1>2. /\ \E x \in Input \ {"new"} :
           input[i] # "new" /\ input' = [input EXCEPT ![i] = x]
      /\ SameCore(server, server')
  BY <1>1, StreamFrame
<1>3. UNCHANGED Arrived
  BY <1>1, <1>2, ArrivedKept
<1> QED BY <1>2, <1>3, CoreService, StutterStep

\* removeIntercept as a step: the request that has the id ends.
LEMMA RemoveStep ==
  ASSUME NEW h, Core(h, {}), SameService(server, h), NEW i \in Intercepts,
         NEW g, g = removeIntercept(h, h.icept[i].requestId),
         SameService(g, server'), g.crashed => server'.crashed, UNCHANGED Arrived
  PROVE  IdealStep
<1> DEFINE r == h.icept[i].requestId
<1>1. CASE ~Mapped(h, r)
  <2>1. g = h
    BY <1>1 DEF removeIntercept
  <2>2. SameService(server, server')
    BY <2>1 DEF SameService
  <2> QED BY <2>2, StutterStep
<1>2. CASE Mapped(h, r)
  <2>1. g.crashed \/ HandsOn(h, g, getIntercept(h, r))
    BY <1>2, RemoveService
  <2>2. getIntercept(h, r) = i
    BY <1>2, MappedLookup
  <2>3. i \in MappedIntercepts(h)
    <3>1. h \in Heap
      BY DEF Core
    <3> QED BY <1>2, <2>2, <3>1, Lookup DEF MappedIntercepts
  <2>4. CASE g.crashed
    BY <2>4 DEF IdealStep
  <2>5. CASE HandsOn(h, g, i)
    <3>1. HandsOn(server, server', i) /\ i \in MappedIntercepts(server)
      BY <2>3, <2>5 DEF HandsOn, SameService
    <3> QED BY <3>1, FinishStep
  <2> QED BY <2>1, <2>2, <2>4, <2>5
<1> QED BY <1>1, <1>2

\* A transaction ends.
LEMMA TxnCloseStep ==
  ASSUME Inv(server, input), NEW i \in Intercepts, TxnClose(i)
  PROVE  IdealStep
<1> DEFINE r == server.icept[i].requestId
           f == IF server.icept[i].outputComplete THEN server
                ELSE removeIntercept(server, r)
           d == [f EXCEPT !.icept[i] = Destroyed(@)]
<1>1. Core(server, {}) /\ server \in Heap /\ input \in [Intercepts -> Input]
  BY DEF Inv, Core
<1>2. UNCHANGED Arrived
  <2>1. UNCHANGED input
    BY DEF TxnClose
  <2> QED BY <1>1, <2>1, ArrivedKept
<1>3. server' = [d EXCEPT !.crashed = @ \/ server.icept[i].plugins > 1]
  BY DEF TxnClose, destroyIntercept
<1>4. f \in Heap
  <2>1. Core(removeIntercept(server, r), {})
    BY <1>1, CoreRemove
  <2> QED BY <1>1, <2>1 DEF Core
<1>5. /\ d.intercept_list = f.intercept_list /\ d.pending = f.pending
      /\ d.crashed = f.crashed
  <2> HIDE DEF f
  <2> QED BY <1>4 DEF Heap
<1>6. SameService(f, server') /\ (f.crashed => server'.crashed)
  <2>1. DOMAIN d = DOMAIN f
    OBVIOUS
  <2>2. /\ server'.intercept_list = d.intercept_list /\ server'.pending = d.pending
        /\ server'.crashed = (d.crashed \/ server.icept[i].plugins > 1)
    <3> HIDE DEF f
    <3> QED BY <1>3, <1>4 DEF Heap
  <2> HIDE DEF d, f
  <2> QED BY <1>5, <2>2 DEF SameService, MappedIntercepts
<1> HIDE DEF d
<1>7. SameService(server, server)
  BY DEF SameService
<1>8. CASE server.icept[i].outputComplete
  BY <1>2, <1>6, <1>8, StutterStep
<1>9. CASE ~server.icept[i].outputComplete
  <2>1. f = removeIntercept(server, r)
    BY <1>9
  <2> HIDE DEF f
  <2> QED BY <1>1, <1>2, <1>6, <1>7, <2>1, RemoveStep
<1> QED BY <1>8, <1>9

\* Events that leave the core alone.
LEMMA FrameStep ==
  ASSUME Inv(server, input), UNCHANGED input, SameCore(server, server')
  PROVE  IdealStep
<1>1. UNCHANGED Arrived
  BY ArrivedKept DEF Inv
<1> QED BY <1>1, CoreService, StutterStep

\* TS_EVENT_NET_CONNECT.
LEMMA NetConnectStep ==
  ASSUME Inv(server, input), NEW c \in Conns, NetConnect(c)
  PROVE  IdealStep
<1> DEFINE k == Established(server.conn[c])
           n == server.phpConnCount + 1
           f == [server EXCEPT !.phpConnCount = n, !.conn[c] = k]
           i == InterceptOf(c)
<1>1. /\ server \in Heap /\ server.conn[c] \in Connection
      /\ i # NULL => i \in Intercepts
  BY InterceptOfType
<1>2. k \in Connection /\ k.requestId = server.conn[c].requestId
  BY <1>1, ConnectionSetters, ConnectionFrame
<1>3. /\ server' = IF i = NULL THEN f ELSE createFCGIClient(f, c, i)
      /\ input' = input
  BY DEF NetConnect
<1> HIDE DEF k, i
<1>4. f \in Heap /\ SameCore(server, f)
  <2>1. n \in Int
    BY <1>1 DEF Heap
  <2> HIDE DEF n
  <2> QED BY <1>1, <1>2, <2>1 DEF Heap, SameCore
<1> HIDE DEF f
<1>5. i # NULL => SameCore(f, createFCGIClient(f, c, i))
  BY <1>1, <1>4, CreateFCGIClient
<1>6. SameCore(server, server')
  BY <1>3, <1>4, <1>5, SameCoreTransitive
<1> QED BY <1>3, <1>6, FrameStep

\* TS_EVENT_VCONN_WRITE_READY.
LEMMA WriteReadyStep ==
  ASSUME Inv(server, input), NEW c \in Conns, WriteReady(c)
  PROVE  IdealStep
<1> DEFINE k == Flushed(server.conn[c])
           f == [server EXCEPT !.conn[c] = k]
<1>1. server.conn[c] \in Connection
  BY InterceptOfType
<1>2. k \in Connection /\ k.requestId = server.conn[c].requestId
  BY <1>1, FlushedType, ConnectionFrame
<1>3. (server' = f \/ server' = read(f, c)) /\ input' = input
  BY DEF WriteReady
<1> HIDE DEF k
<1>4. f \in Heap /\ SameCore(server, f)
  BY <1>2, KeptOneConn
<1> HIDE DEF f
<1>5. SameCore(f, read(f, c))
  BY <1>4, CreateConnection
<1>6. SameCore(server, server')
  BY <1>3, <1>4, <1>5, SameCoreTransitive
<1> QED BY <1>3, <1>6, FrameStep

\* The application's steps.
LEMMA AppStep ==
  ASSUME Inv(server, input), NEW c \in Conns, NEW j \in server.conn[c].jobs,
         AppStdout(c, j) \/ AppStderr(c, j) \/ AppEnd(c, j)
  PROVE  IdealStep
<1>1. SameCore(server, server') /\ UNCHANGED input
  <2>1. \E record, left :
          /\ server' = [server EXCEPT !.conn[c] = Answered(@, j, record, left)]
          /\ input' = input
    BY DEF AppStdout, AppStderr, AppEnd, AppOutput, Answer
  <2>2. PICK record, left :
          /\ server' = [server EXCEPT !.conn[c] = Answered(@, j, record, left)]
          /\ input' = input
    BY <2>1
  <2>3. server \in Heap /\ server.conn[c] \in Connection
    BY InterceptOfType
  <2> DEFINE k == Answered(server.conn[c], j, record, left)
  <2>4. k.requestId = server.conn[c].requestId
    BY <2>3, ConnectionFrame
  <2>5. server' = [server EXCEPT !.conn[c] = k]
    BY <2>2
  <2> HIDE DEF k
  <2> QED BY <2>2, <2>3, <2>4, <2>5 DEF Heap, SameCore
<1> QED BY <1>1, FrameStep

\* reConnect and connectionClosed as a step.
LEMMA RetryClosedStep ==
  ASSUME Inv(server, input), NEW f, Core(f, {}), SameService(server, f),
         NEW c \in Conns,
         server' = connectionClosed(reConnect(f, f.conn[c].requestId), c),
         UNCHANGED input
  PROVE  ServiceStep
<1> DEFINE i == getIntercept(f, f.conn[c].requestId)
<1>1. \/ SameService(f, server')
      \/ /\ i \in MappedIntercepts(f)
         /\ Cardinality(MappedIntercepts(f)) = maxConn
         /\ MappedIntercepts(server') = MappedIntercepts(f) \ {i}
         /\ server'.pending = WithRequest(f.pending, i)
  BY RetryService
<1> HIDE DEF i
<1>2. UNCHANGED Arrived
  BY ArrivedKept DEF Inv
<1>3. CASE SameService(f, server')
  <2>1. SameService(server, server')
    BY <1>3 DEF SameService
  <2> QED BY <1>2, <2>1, StutterStep, IdealIsService
<1>4. ASSUME i \in MappedIntercepts(f),
             Cardinality(MappedIntercepts(f)) = maxConn,
             MappedIntercepts(server') = MappedIntercepts(f) \ {i},
             server'.pending = WithRequest(f.pending, i)
      PROVE  ServiceStep
  <2>1. i \in Intercepts
    <3>1. \A e \in f.intercept_list : e.intercept \in Intercepts
      BY DEF Core, Heap, Entry
    <3> QED BY <1>4, <3>1 DEF MappedIntercepts
  <2>2. MappedIntercepts(server)' = MappedIntercepts(server')
    BY DEF MappedIntercepts
  <2> QED BY <1>2, <1>4, <2>1, <2>2, RetryStep DEF SameService
<1> QED BY <1>1, <1>3, <1>4

\* connectionClosed as a step.
LEMMA ClosedStep ==
  ASSUME Inv(server, input), NEW f, Core(f, {}), SameService(server, f),
         NEW c \in Conns, server' = connectionClosed(f, c), UNCHANGED input
  PROVE  ServiceStep
<1> DEFINE r == f.conn[c].requestId
           i == getIntercept(f, r)
<1>1. UNCHANGED Arrived
  BY ArrivedKept DEF Inv
<1>2. {} \in SUBSET {c}
  OBVIOUS
<1>3. IF Mapped(f, r) THEN Leaves(f, server', i) ELSE SameService(f, server')
  BY <1>2, ClosedService
<1>4. CASE ~Mapped(f, r)
  <2>1. SameService(server, server')
    BY <1>3, <1>4 DEF SameService
  <2> QED BY <1>1, <2>1, StutterStep, IdealIsService
<1>5. CASE Mapped(f, r)
  <2>1. i \in MappedIntercepts(f) /\ i \in Intercepts
    <3>1. f \in Heap
      BY DEF Core
    <3>2. \A e \in f.intercept_list : e.intercept \in Intercepts
      BY <3>1 DEF Heap, Entry
    <3>3. EntryOf(f, r) \in f.intercept_list /\ i = EntryOf(f, r).intercept
      BY <1>5, <3>1, Lookup
    <3> QED BY <3>2, <3>3 DEF MappedIntercepts
  <2>2. Leaves(server, server', i) /\ i \in MappedIntercepts(server)
    BY <1>3, <1>5, <2>1 DEF Leaves, SameService
  <2> QED BY <1>1, <2>1, <2>2, FailStep
<1> QED BY <1>4, <1>5

\* TS_EVENT_NET_CONNECT_FAILED.
LEMMA NetConnectFailedStep ==
  ASSUME Inv(server, input), NEW c \in Conns, NetConnectFailed(c)
  PROVE  ServiceStep
<1> DEFINE k == Refused(server.conn[c])
           n == server.phpConnCount + 1
           f == [server EXCEPT !.phpConnCount = n, !.conn[c] = k]
<1>1. server \in Heap /\ server.conn[c] \in Connection
  BY InterceptOfType
<1>2. k \in Connection /\ k.requestId = server.conn[c].requestId
  BY <1>1, ConnectionSetters, ConnectionFrame
<1>3. /\ server' = connectionClosed(reConnect(f, server.conn[c].requestId), c)
      /\ input' = input
  BY DEF NetConnectFailed
<1> HIDE DEF k
<1>4. f \in Heap /\ SameCore(server, f)
  <2>1. n \in Int
    BY <1>1 DEF Heap
  <2> HIDE DEF n
  <2> QED BY <1>1, <1>2, <2>1 DEF Heap, SameCore
<1> HIDE DEF f
<1>5. Core(f, {}) /\ SameService(server, f)
  BY <1>4, CoreFrame, CoreService DEF Inv
<1>6. f.conn[c].requestId = server.conn[c].requestId
  BY <1>4 DEF SameCore
<1> QED BY <1>3, <1>5, <1>6, RetryClosedStep

\* TS_EVENT_VCONN_EOS and TS_EVENT_ERROR.
LEMMA EosStep ==
  ASSUME Inv(server, input), NEW c \in Conns, Eos(c) \/ Error(c)
  PROVE  ServiceStep
<1> DEFINE i == InterceptOf(c)
           f == transactionError(server, i)
<1>1. server \in Heap /\ (i # NULL => i \in Intercepts) /\ Core(server, {})
  BY InterceptOfType DEF Inv
<1>2. i # NULL => Core(f, {}) /\ SameService(server, f)
  <2>1. i # NULL => f \in Heap /\ SameCore(server, f)
    BY <1>1, TransactionError
  <2> QED BY <1>1, <2>1, CoreFrame, CoreService
<1>3. /\ \/ server' = connectionClosed(reConnect(server, server.conn[c].requestId), c)
         \/ server' = connectionClosed(server, c)
         \/ i # NULL /\ server' = connectionClosed(f, c)
      /\ input' = input
  BY DEF Eos, Error
<1>4. SameService(server, server)
  BY DEF SameService
<1> HIDE DEF f
<1>5. CASE server' = connectionClosed(reConnect(server, server.conn[c].requestId), c)
  BY <1>1, <1>3, <1>4, <1>5, RetryClosedStep
<1>6. CASE server' = connectionClosed(server, c)
  BY <1>1, <1>3, <1>4, <1>6, ClosedStep
<1>7. CASE i # NULL /\ server' = connectionClosed(f, c)
  BY <1>2, <1>3, <1>7, ClosedStep
<1> QED BY <1>3, <1>5, <1>6, <1>7

\* TS_EVENT_VCONN_READ_READY: the end of a response ends the service.
LEMMA ReadReadyStep ==
  ASSUME Inv(server, input), NEW c \in Conns, ReadReady(c)
  PROVE  IdealStep
<1> DEFINE i == InterceptOf(c)
<1>1. i # NULL => i \in Intercepts /\ i \in MappedIntercepts(server)
  BY InterceptOfType
<1>2. input' = input /\ UNCHANGED Arrived
  <2>1. input' = input
    BY DEF ReadReady
  <2> QED BY <2>1, ArrivedKept DEF Inv
<1>3. \/ server' \in Heap /\ SameCore(server, server')
      \/ /\ i # NULL
         /\ \E x \in Heap : /\ SameCore(server, x)
                            /\ server' = setResponseOutputComplete(x, i)
  BY ReadReadyFrame
<1>4. CASE SameCore(server, server')
  BY <1>2, <1>4, FrameStep
<1>5. ASSUME i # NULL, NEW x \in Heap, SameCore(server, x),
             server' = setResponseOutputComplete(x, i)
      PROVE  IdealStep
  <2> DEFINE p == Complete(x.icept[i])
             f == [x EXCEPT !.icept[i] = Complete(@)]
  <2>1. Core(x, {}) /\ SameService(server, x) /\ i \in MappedIntercepts(x)
    BY <1>1, <1>5, CoreFrame, CoreService, Frame DEF Inv
  <2>2. x.icept[i] \in Intercept /\ x.icept[i].alive
    BY <1>1, <1>5, <2>1 DEF Heap, Core, MapInv, MappedIntercepts
  <2>3. /\ p \in Intercept /\ p.alive /\ p.requestId = x.icept[i].requestId
    BY <2>2, InterceptSetters, InterceptFrame
  <2>4. f = [x EXCEPT !.icept[i] = p]
    OBVIOUS
  <2>5. server' = removeIntercept(f, x.icept[i].requestId)
    BY <1>5 DEF setResponseOutputComplete
  <2> HIDE DEF p
  <2>6. f.pending = x.pending
    BY <2>4 DEF Heap
  <2> HIDE DEF f
  <2>7. /\ Core(f, {})
        /\ f.intercept_list = x.intercept_list
        /\ f.icept = [x.icept EXCEPT ![i] = p]
    BY <1>1, <1>5, <2>1, <2>3, <2>4, CoreIntercept
  <2>8. f.icept[i].requestId = x.icept[i].requestId
    BY <1>1, <1>5, <2>3, <2>7 DEF Heap
  <2>9. SameService(server, f)
    BY <2>1, <2>6, <2>7 DEF SameService, MappedIntercepts
  <2>10. SameService(server', server')
    BY DEF SameService
  <2> QED BY <1>1, <1>2, <1>5, <2>5, <2>7, <2>8, <2>9, <2>10, RemoveStep
<1> QED BY <1>3, <1>4, <1>5

-----------------------------------------------------------------------------
(***************************************************************************)
(* The theorem.                                                            *)
(***************************************************************************)

\* One step, by event.
LEMMA NextStep == Inv(server, input) /\ [Next]_vars => ServiceStep
<1> SUFFICES ASSUME Inv(server, input), [Next]_vars PROVE ServiceStep
  OBVIOUS
<1>1. CASE UNCHANGED vars
  BY <1>1 DEF vars, ServiceStep, Service!vars, Arrived, MappedIntercepts
<1>2. ASSUME NEW i \in Intercepts, CacheLookupComplete(i) PROVE ServiceStep
  BY <1>2, CacheLookupCompleteStep, IdealIsService
<1>3. ASSUME NEW i \in Intercepts, StreamRequest(i) \/ StreamHeader(i) \/ StreamBody(i)
      PROVE  ServiceStep
  BY <1>3, StreamStep, IdealIsService
<1>4. ASSUME NEW i \in Intercepts, TxnClose(i) PROVE ServiceStep
  BY <1>4, TxnCloseStep, IdealIsService
<1>5. ASSUME NEW c \in Conns, NetConnect(c) PROVE ServiceStep
  BY <1>5, NetConnectStep, IdealIsService
<1>6. ASSUME NEW c \in Conns, NetConnectFailed(c) PROVE ServiceStep
  BY <1>6, NetConnectFailedStep
<1>7. ASSUME NEW c \in Conns, ReadReady(c) PROVE ServiceStep
  BY <1>7, ReadReadyStep, IdealIsService
<1>8. ASSUME NEW c \in Conns, WriteReady(c) PROVE ServiceStep
  BY <1>8, WriteReadyStep, IdealIsService
<1>9. ASSUME NEW c \in Conns, Eos(c) \/ Error(c) PROVE ServiceStep
  BY <1>9, EosStep
<1>10. ASSUME NEW c \in Conns, NEW j \in server.conn[c].jobs,
              AppStdout(c, j) \/ AppStderr(c, j) \/ AppEnd(c, j)
       PROVE  ServiceStep
  BY <1>10, AppStep, IdealIsService
<1> QED BY <1>1, <1>2, <1>3, <1>4, <1>5, <1>6, <1>7, <1>8, <1>9, <1>10, Zenon DEF Next

\* Before the first request nobody is served and nobody waits.
LEMMA InitService == Init => Service!Init
BY DEF Init, EmptyHeap, Service!Init, Arrived, MappedIntercepts

\* For every configuration and every combination of failures the plugin is the
\* service of RequestService: connect takes a request in, removeIntercept hands
\* its slot to the head of the queue, a connection that fails loses its request
\* or sends it to the end of the queue, and no handler does anything else to
\* the requests, up to the step that uses a dead intercept.
THEOREM ServiceImplemented == Spec => ImplementsService
<1>1. Init => Service!Init
  BY InitService
<1>2. IInv /\ [Next]_vars => [Service!Next \/ server.crashed']_(Service!vars)
  BY NextStep, InvParts DEF ServiceStep
<1> QED BY <1>1, <1>2, Invariance, PTL DEF Spec, ImplementsService

-----------------------------------------------------------------------------
(***************************************************************************)
(* The service without failures. As long as no connection fails while it   *)
(* serves a request, slots are only handed on, so requests wait only while *)
(* every slot is taken: none is stranded and none is overtaken.            *)
(***************************************************************************)

\* Connections only fail while they serve no request.
Reliable ==
  Faults \cap {"connect_failed", "eos_request", "eos_response", "error"} = {}

\* An idle connection that the application closes had no request.
LEMMA QuietEosStep ==
  ASSUME Reliable, Inv(server, input), NEW c \in Conns, Eos(c) \/ Error(c)
  PROVE  IdealStep
<1> DEFINE r == server.conn[c].requestId
<1>1. Core(server, {}) /\ server \in Heap
  BY DEF Inv, Core
<1>2. InterceptOf(c) = NULL /\ input' = input
  BY DEF Reliable, Eos, Error, EosKind
<1>3. server' = connectionClosed(server, c)
  <2>1. reConnect(server, r) = server
    BY <1>2 DEF reConnect, InterceptOf
  <2>2. Eos(c)
    BY DEF Reliable, Error
  <2> QED BY <1>2, <2>1, <2>2 DEF Eos
<1>4. ~Mapped(server, r)
  BY <1>1, <1>2, Lookup DEF InterceptOf
<1>5. {} \in SUBSET {c}
  OBVIOUS
<1>6. SameService(server, server')
  BY <1>1, <1>3, <1>4, <1>5, ClosedService
<1>7. UNCHANGED Arrived
  BY <1>2, ArrivedKept DEF Inv
<1> QED BY <1>6, <1>7, StutterStep

\* One step, by event.
LEMMA QuietStep ==
  ASSUME Reliable, Inv(server, input), [Next]_vars
  PROVE  IdealStep
<1>1. CASE UNCHANGED vars
  BY <1>1 DEF vars, IdealStep, Service!vars, Arrived, MappedIntercepts
<1>2. ASSUME NEW i \in Intercepts, CacheLookupComplete(i) PROVE IdealStep
  BY <1>2, CacheLookupCompleteStep
<1>3. ASSUME NEW i \in Intercepts, StreamRequest(i) \/ StreamHeader(i) \/ StreamBody(i)
      PROVE  IdealStep
  BY <1>3, StreamStep
<1>4. ASSUME NEW i \in Intercepts, TxnClose(i) PROVE IdealStep
  BY <1>4, TxnCloseStep
<1>5. ASSUME NEW c \in Conns, NetConnect(c) PROVE IdealStep
  BY <1>5, NetConnectStep
<1>6. ASSUME NEW c \in Conns, NetConnectFailed(c) PROVE IdealStep
  BY <1>6 DEF NetConnectFailed, Reliable
<1>7. ASSUME NEW c \in Conns, ReadReady(c) PROVE IdealStep
  BY <1>7, ReadReadyStep
<1>8. ASSUME NEW c \in Conns, WriteReady(c) PROVE IdealStep
  BY <1>8, WriteReadyStep
<1>9. ASSUME NEW c \in Conns, Eos(c) \/ Error(c) PROVE IdealStep
  BY <1>9, QuietEosStep
<1>10. ASSUME NEW c \in Conns, NEW j \in server.conn[c].jobs,
              AppStdout(c, j) \/ AppStderr(c, j) \/ AppEnd(c, j)
       PROVE  IdealStep
  BY <1>10, AppStep
<1> QED BY <1>1, <1>2, <1>3, <1>4, <1>5, <1>6, <1>7, <1>8, <1>9, <1>10, Zenon DEF Next

\* Both instances of RequestService take requests in and end them alike.
LEMMA SameActions ==
  ASSUME NEW i \in Intercepts
  PROVE  /\ Service!Arrive(i) => Ideal!Arrive(i)
         /\ Service!Finish(i) => Ideal!Finish(i)
<1>1. \A S : Service!Cardinality(S) = Ideal!Cardinality(S)
  BY Zenon DEF Service!Cardinality, Ideal!Cardinality
<1>2. Service!Arrive(i) => Ideal!Arrive(i)
  BY <1>1 DEF Service!Arrive, Ideal!Arrive, Service!Enqueued, Ideal!Enqueued
<1>3. Service!Finish(i) => Ideal!Finish(i)
  BY DEF Service!Finish, Ideal!Finish
<1> QED BY <1>2, <1>3

\* Requests wait only while every slot is taken.
Full == server.pending # <<>> => Cardinality(MappedIntercepts(server)) = maxConn

LEMMA InitFull == Init => Full
BY DEF Init, EmptyHeap, Full

\* A slot is handed on to the head of the queue.
LEMMA HandedOn ==
  ASSUME NEW S, IsFiniteSet(S), NEW i \in S, NEW j, j \notin S
  PROVE  Cardinality((S \ {i}) \cup {j}) = Cardinality(S)
<1>1. IsFiniteSet(S \ {i}) /\ Cardinality(S \ {i}) = Cardinality(S) - 1
  BY FS_RemoveElement
<1>2. Cardinality((S \ {i}) \cup {j}) = Cardinality(S \ {i}) + 1
  BY <1>1, FS_AddElement
<1>3. Cardinality(S) \in Nat
  BY FS_CardinalityType
<1> QED BY <1>1, <1>2, <1>3

\* A step that arrives or ends keeps every slot taken while requests wait.
LEMMA NextFull ==
  ASSUME Inv(server, input), Inv(server', input'), Full, IdealStep, ~server.crashed'
  PROVE  /\ Full'
         /\ \A i \in MappedIntercepts(server)' \ MappedIntercepts(server) :
              server.pending # <<>> => i = Head(server.pending)
<1> DEFINE S == MappedIntercepts(server)
<1>1. /\ IsFiniteSet(S) /\ Cardinality(S) \in Nat /\ Cardinality(S) <= maxConn
      /\ maxConn \in Nat
  <2>1. Core(server, {})
    BY DEF Inv
  <2> QED BY <2>1, MappedCardinality, InService, MaxConnType, FS_CardinalityType
<1>2. server.pending # <<>> => Head(server.pending) \notin S
  <2>1. Injective(server.pending) /\ server.pending \in Seq(Intercepts)
        /\ Queued(server) \cap S = {}
    BY DEF Inv, Core, Heap, QueueInv
  <2> QED BY <2>1, ListTail DEF Queued
<1>3. CASE UNCHANGED Service!vars
  BY <1>3 DEF Service!vars, Full
<1>4. ASSUME NEW i \in Intercepts, Service!Arrive(i)
      PROVE  /\ Full'
             /\ \A j \in S' \ S : server.pending # <<>> => j = Head(server.pending)
  <2>1. CASE Cardinality(S) < maxConn
    <3>1. server'.pending = server.pending
      BY <1>4, <2>1, ServiceCardinality DEF Service!Arrive
    <3>2. server.pending = <<>>
      BY <1>1, <2>1 DEF Full
    <3> QED BY <3>1, <3>2 DEF Full
  <2>2. CASE ~(Cardinality(S) < maxConn)
    <3>1. S' = S
      BY <1>4, <2>2, ServiceCardinality DEF Service!Arrive
    <3>2. Cardinality(S) = maxConn
      BY <1>1, <2>2
    <3> HIDE DEF S
    <3>3. Cardinality(S') = maxConn
      BY <3>1, <3>2
    <3> QED BY <3>1, <3>3 DEF Full, S
  <2> QED BY <2>1, <2>2
<1>5. ASSUME NEW i \in Intercepts, Service!Finish(i)
      PROVE  /\ Full'
             /\ \A j \in S' \ S : server.pending # <<>> => j = Head(server.pending)
  <2>1. CASE server.pending = <<>>
    BY <1>5, <2>1 DEF Service!Finish, Full
  <2>2. CASE server.pending # <<>>
    <3>1. i \in S /\ S' = (S \ {i}) \cup {Head(server.pending)}
      BY <1>5, <2>2 DEF Service!Finish
    <3>2. Cardinality((S \ {i}) \cup {Head(server.pending)}) = Cardinality(S)
      BY <1>1, <1>2, <2>2, <3>1, HandedOn
    <3>3. Cardinality(S) = maxConn
      BY <2>2 DEF Full
    <3> HIDE DEF S
    <3>4. Cardinality(S') = maxConn
      BY <3>1, <3>2, <3>3
    <3> QED BY <3>1, <3>4 DEF Full, S
  <2> QED BY <2>1, <2>2
<1> QED BY <1>3, <1>4, <1>5 DEF IdealStep, Service!vars

\* The inductive invariant.
FullInv == SafeInv /\ Full

LEMMA FullStep ==
  ASSUME Reliable, FullInv, [Next]_vars, SafeInv'
  PROVE  /\ FullInv' /\ IdealStep /\ ~server.crashed'
         /\ \A i \in MappedIntercepts(server)' \ MappedIntercepts(server) :
              server.pending # <<>> => i = Head(server.pending)
<1>1. Inv(server, input)
  BY InvParts DEF FullInv, SafeInv, LifeInv
<1>2. Inv(server', input')
  BY InvPartsNext DEF SafeInv, LifeInv
<1>3. IdealStep
  BY <1>1, QuietStep
<1>4. ~server.crashed'
  BY DEF SafeInv, Safe
<1>5. /\ Full'
      /\ \A i \in MappedIntercepts(server)' \ MappedIntercepts(server) :
           server.pending # <<>> => i = Head(server.pending)
  BY <1>1, <1>2, <1>3, <1>4, NextFull DEF FullInv
<1> QED BY <1>3, <1>4, <1>5 DEF FullInv

LEMMA FullInvariance ==
  ASSUME Reliable
  PROVE  Spec => []FullInv
<1>1. "eos_request" \notin Faults
  BY DEF Reliable
<1>2. Spec => []SafeInv
  BY <1>1, SafeInvariance
<1>3. Init /\ SafeInv => FullInv
  BY InitFull DEF FullInv
<1>4. FullInv /\ SafeInv' /\ [Next]_vars => FullInv'
  BY FullStep
<1> QED BY <1>2, <1>3, <1>4, PTL DEF Spec

\* removeIntercept: for every configuration with a connection at all, as long
\* as no connection fails while it serves a request, no request waits while
\* none is in service: the end of a request in service lets the next one in.
THEOREM NoneStranded ==
  ASSUME Reliable, maxConn # 0
  PROVE  Spec => []NoStranded
<1>1. FullInv => NoStranded
  <2> SUFFICES ASSUME FullInv, server.pending # <<>>, server.intercept_list = {}
               PROVE  FALSE
    BY DEF NoStranded
  <2>1. Cardinality(MappedIntercepts(server)) = maxConn
    BY DEF FullInv, Full
  <2>2. MappedIntercepts(server) = {}
    BY DEF MappedIntercepts
  <2> QED BY <2>1, <2>2, FS_EmptySet
<1> QED BY <1>1, FullInvariance, PTL

\* connect and removeIntercept: under the same condition a request that comes
\* while others wait, or that has waited, never gets a connection before those
\* that came before it.
THEOREM NoneOvertaken ==
  ASSUME Reliable
  PROVE  Spec => NoOvertaking
<1>1. "eos_request" \notin Faults
  BY DEF Reliable
<1>2. FullInv /\ SafeInv' /\ [Next]_vars =>
        [\A i \in MappedIntercepts(server)' \ MappedIntercepts(server) :
           server.pending # <<>> => i = Head(server.pending)]_vars
  BY FullStep
<1>3. Spec => []SafeInv
  BY <1>1, SafeInvariance
<1> QED BY <1>2, <1>3, FullInvariance, PTL DEF Spec, NoOvertaking

\* As long as no connection fails while it serves a request, the plugin is the
\* service without failures (the safety part of ImplementsIdeal): it only takes
\* requests in and hands slots on, and no handler crashes.
THEOREM IdealImplemented ==
  ASSUME Reliable
  PROVE  Spec => Ideal!Spec
<1>1. "eos_request" \notin Faults
  BY DEF Reliable
<1>2. Init => Ideal!Init
  BY DEF Init, EmptyHeap, Ideal!Init, Arrived, MappedIntercepts
<1>3. FullInv /\ SafeInv' /\ [Next]_vars => [Ideal!Next]_(Ideal!vars)
  <2> SUFFICES ASSUME FullInv, SafeInv', [Next]_vars PROVE [Ideal!Next]_(Ideal!vars)
    OBVIOUS
  <2>1. IdealStep /\ ~server.crashed'
    BY FullStep
  <2>2. CASE UNCHANGED Service!vars
    BY <2>2 DEF Service!vars, Ideal!vars
  <2>3. CASE \E i \in Intercepts : Service!Arrive(i) \/ Service!Finish(i)
    BY <2>3, SameActions DEF Ideal!Next
  <2> QED BY <2>1, <2>2, <2>3 DEF IdealStep
<1>4. Spec => []SafeInv
  BY <1>1, SafeInvariance
<1> QED BY <1>2, <1>3, <1>4, FullInvariance, PTL DEF Spec, Ideal!Spec

=============================================================================
