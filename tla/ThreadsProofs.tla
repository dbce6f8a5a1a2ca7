--------------------------- MODULE ThreadsProofs ---------------------------
(***************************************************************************)
(* Proofs about ServerThreads, for any number of threads, requests,        *)
(* connections and keys: the threads keep apart what belongs to each.      *)
(*                                                                         *)
(* The invariant has three parts that are about all threads together, the  *)
(* types, the keys and the ids, and a part for each thread, Local(t). A    *)
(* step of one thread leaves everything Local(u) mentions alone for every  *)
(* other thread u (lemma Frame).                                           *)
(***************************************************************************)
EXTENDS ServerThreads, ListProofs, FiniteSetTheorems, WellFoundedInduction

-----------------------------------------------------------------------------
(***************************************************************************)
(* The invariant.                                                          *)
(***************************************************************************)

Stages == {"idle", "setup", "setspecific", "connect", "lockid", "bumpid", "bind",
           "find", "deref", "erase", "remove", "release", "close"}

EntrySet == [id: Nat \ {0}, req: Requests, conn: Conns]

Locals == [pc: Stages, event: EventKinds \cup {NULL}, req: Requests \cup {NULL},
           conn: Conns \cup {NULL}, id: Nat, itr: EntrySet \cup {NULL},
           closing: Conns \cup {NULL}]

Connection == [requestId: Nat, thread: Threads \cup {NULL},
               phase: {"none", "new", "dialing", "up"}]

Request == [id: Nat, phase: {"new", "open", "passed", "dropped", "over"}]

Types ==
  /\ threadKey \in [Threads -> Keys \cup {0}]
  /\ HostKeys \subseteq keys /\ keys \subseteq Keys
  /\ data \in [Threads -> [Keys -> ThreadData \cup {NULL}]]
  /\ list \subseteq EntrySet
  /\ nextId \in Nat \ {0}
  /\ conn \in [Conns -> Connection]
  /\ req \in [Requests -> Request]
  /\ th \in [Threads -> Locals]

\* The thread is through setupThreadLocalStorage.
Ready(t) == threadKey[t] # 0 /\ ~At(t, "setspecific")

\* Every thread has a key of its own and keeps its ThreadData under it and
\* nothing anywhere else.
KeysOK ==
  /\ \A t \in Threads : threadKey[t] # 0 => threadKey[t] \in keys \ HostKeys
  /\ \A t, u \in Threads : threadKey[t] = threadKey[u] /\ threadKey[t] # 0 => t = u
  /\ \A t \in Threads : /\ At(t, "setup") => threadKey[t] = 0
                        /\ th[t].pc \notin {"idle", "setup"} => threadKey[t] # 0
  /\ \A t \in Threads, k \in Keys :
       data[t][k] # NULL <=> Ready(t) /\ k = threadKey[t]

\* Ids are drawn once: what a thread is about to give to a request and its
\* connection, no other thread, request or connection has.
IdsOK ==
  /\ {t \in Threads : At(t, "bumpid")} = {idMutex} \ {NULL}
  /\ \A t \in Threads : At(t, "bumpid") => th[t].id = nextId
  /\ \A c \in Conns : conn[c].requestId < nextId
  /\ \A i \in Requests : req[i].id < nextId
  /\ \A c, d \in Conns :
       conn[c].requestId = conn[d].requestId /\ conn[c].requestId # 0 => c = d
  /\ \A i, j \in Requests : req[i].id = req[j].id /\ req[i].id # 0 => i = j
  /\ \A t \in Threads : At(t, "bind") =>
       /\ th[t].id \in 1 .. nextId - 1
       /\ \A c \in Conns : conn[c].requestId # th[t].id
       /\ \A i \in Requests : req[i].id # th[t].id
       /\ \A u \in Threads : At(u, "bind") /\ th[u].id = th[t].id => u = t

\* The connections of a thread are those of its pool, and it has none before its
\* set-up; the idle ones have no id.
PoolOK(t) ==
  /\ \A c \in Conns : conn[c].thread = t => Ready(t) /\ conn[c].phase # "none"
  /\ Ready(t) =>
       /\ Data(t).pool = {c \in Conns : conn[c].thread = t}
       /\ IsFiniteSet(Data(t).pool) /\ Cardinality(Data(t).pool) <= PoolLimit
       /\ Injective(Data(t).idle)
       /\ \A c \in Elements(Data(t).idle) : conn[c].thread = t /\ conn[c].requestId = 0

Mapped(i) == \E e \in list : e.req = i

QueueOK(t) ==
  Ready(t) =>
    /\ Injective(Data(t).queue)
    /\ Len(Data(t).queue) <= QueueSize
    /\ \A i \in Elements(Data(t).queue) :
         Home[i] = t /\ req[i].phase = "open" /\ ~Mapped(i)

\* An entry of the map joins a request and a connection of one thread.
ListOK(t) ==
  \A e \in list :
    Home[e.req] = t \/ conn[e.conn].thread = t =>
      /\ Home[e.req] = t /\ conn[e.conn].thread = t
      /\ conn[e.conn].requestId = e.id /\ req[e.req].id = e.id
      /\ req[e.req].phase = "open"

\* The connection is in the hands of the thread only.
Taken(t, c) ==
  /\ c \in Conns /\ conn[c].thread = t
  /\ c \notin Elements(Data(t).idle)
  /\ \A e \in list : e.conn # c

Connecting == {"setup", "setspecific", "connect", "lockid", "bumpid", "bind"}

\* What the local variables l of the thread refer to.
Hand(t, l) ==
  /\ l.pc \in Connecting =>
       /\ l.req \in Requests /\ Home[l.req] = t
       /\ req[l.req].phase = "open" /\ ~Mapped(l.req)
       /\ Ready(t) => l.req \notin Elements(Data(t).queue)
       /\ l.closing # NULL => Ready(t) /\ Taken(t, l.closing)
  /\ l.pc \in {"lockid", "bumpid", "bind", "release"} => Taken(t, l.conn)
  /\ l.pc \in {"lockid", "bumpid", "bind"} => l.conn # l.closing
  /\ l.pc \in {"find", "deref", "erase", "close"} =>
       l.conn \in Conns /\ conn[l.conn].thread = t
  /\ l.pc \in {"find", "deref"} => l.event \in {"connect", "read", "failed", "eos"}
  /\ l.pc = "deref" /\ l.itr # NULL => l.itr \in list /\ l.itr.conn = l.conn
  /\ l.pc = "erase" => \E e \in list : e.conn = l.conn /\ e.req = l.req
  /\ l.pc = "remove" => \E e \in list : e.req = l.req /\ Home[e.req] = t

HandOK(t) == Hand(t, th[t])

\* No request of the thread is lost.
KeptOK(t) ==
  \A i \in Requests :
    Home[i] = t /\ req[i].phase = "open" =>
      \/ Mapped(i)
      \/ Ready(t) /\ i \in Elements(Data(t).queue)
      \/ th[t].pc \in Connecting /\ th[t].req = i

Local(t) == PoolOK(t) /\ QueueOK(t) /\ ListOK(t) /\ HandOK(t) /\ KeptOK(t)

\* Before the hook has seen a request, it is in nobody's hands. Every
\* connection that nobody has is fresh.
FreshOK ==
  /\ \A c \in Conns : conn[c].thread = NULL <=> conn[c].phase = "none"
  /\ \A e \in list : conn[e.conn].thread \in Threads

IInv == Types /\ KeysOK /\ IdsOK /\ FreshOK /\ \A t \in Threads : Local(t)

-----------------------------------------------------------------------------
(***************************************************************************)
(* Counting connections.                                                   *)
(***************************************************************************)

\* The share of every thread.
LEMMA ShareType ==
  /\ PoolLimit \in Nat
  /\ \A n \in Nat : n <= PoolShare => n * PoolLimit <= MaxConnections
<1>1. MaxConnections \in Nat /\ PoolShare \in Nat \ {0}
  BY ThreadsAssumption
<1>2. PoolLimit \in Nat /\ PoolShare * PoolLimit <= MaxConnections
  BY <1>1 DEF PoolLimit
<1>3. ASSUME NEW n \in Nat, n <= PoolShare
      PROVE  n * PoolLimit <= PoolShare * PoolLimit
  <2>1. PICK m \in Nat : PoolShare = n + m
    <3>1. PoolShare - n \in Nat /\ PoolShare = n + (PoolShare - n)
      BY <1>1, <1>3
    <3> QED BY <3>1
  <2>2. PoolShare * PoolLimit = n * PoolLimit + m * PoolLimit
    BY <1>2, <2>1
  <2>3. m * PoolLimit \in Nat /\ n * PoolLimit \in Nat
    BY <1>2
  <2> QED BY <2>2, <2>3
<1>4. \A n \in Nat : n * PoolLimit \in Nat
  BY <1>2
<1> QED BY <1>1, <1>2, <1>3, <1>4

\* The elements of a finite set can be numbered.
LEMMA Numbering ==
  ASSUME NEW P, IsFiniteSet(P)
  PROVE  \E s \in [P -> 1 .. Cardinality(P)] : \A c, d \in P : s[c] = s[d] => c = d
<1>1. PICK h \in Bijection(1 .. Cardinality(P), P) : TRUE
  BY FS_CardinalityType DEF ExistsBijection
<1>2. \A c \in P : \E n \in 1 .. Cardinality(P) : h[n] = c
  BY <1>1 DEF Bijection, Surjection
<1> DEFINE s == [c \in P |-> CHOOSE n \in 1 .. Cardinality(P) : h[n] = c]
<1>3. \A c \in P : s[c] \in 1 .. Cardinality(P) /\ h[s[c]] = c
  BY <1>2
<1>4. s \in [P -> 1 .. Cardinality(P)]
  BY <1>3
<1>5. \A c, d \in P : s[c] = s[d] => c = d
  BY <1>3
<1> HIDE DEF s
<1> QED BY <1>4, <1>5

\* Sets that belong to different threads and have no more than PoolLimit
\* elements each have together no more than all pools; less if one has less.
LEMMA PoolSum ==
  ASSUME NEW C, NEW owner \in [C -> Threads],
         \A t \in Threads :
           LET P == {c \in C : owner[c] = t}
           IN  IsFiniteSet(P) /\ Cardinality(P) <= PoolLimit
  PROVE  /\ IsFiniteSet(C)
         /\ Cardinality(C) <= Cardinality(Threads) * PoolLimit
         /\ \A t \in Threads :
              Cardinality({c \in C : owner[c] = t}) < PoolLimit
                => Cardinality(C) < Cardinality(Threads) * PoolLimit
<1> DEFINE P(t) == {c \in C : owner[c] = t}
           Num(t, s) == /\ s \in [P(t) -> 1 .. Cardinality(P(t))]
                        /\ \A c, d \in P(t) : s[c] = s[d] => c = d
           slot(t) == CHOOSE s : Num(t, s)
           all == Threads \X (1 .. PoolLimit)
           f == [c \in C |-> <<owner[c], slot(owner[c])[c]>>]
<1>1. \A t \in Threads : Num(t, slot(t))
  <2>1. \A t \in Threads : IsFiniteSet(P(t))
    OBVIOUS
  <2>2. \A t \in Threads : \E s : Num(t, s)
    BY <2>1, Numbering
  <2> HIDE DEF Num
  <2> QED BY <2>2
<1>2. \A t \in Threads : Cardinality(P(t)) \in Nat /\ Cardinality(P(t)) <= PoolLimit
  BY FS_CardinalityType
<1>3. \A c \in C : /\ owner[c] \in Threads
                   /\ slot(owner[c])[c] \in 1 .. Cardinality(P(owner[c]))
  <2> TAKE c \in C
  <2>1. owner[c] \in Threads /\ c \in P(owner[c])
    OBVIOUS
  <2> HIDE DEF slot
  <2> QED BY <1>1, <2>1
<1>4. \A c, d \in C : f[c] = f[d] => c = d
  <2> SUFFICES ASSUME NEW c \in C, NEW d \in C, f[c] = f[d]
               PROVE  c = d
    OBVIOUS
  <2> HIDE DEF slot
  <2>1. owner[c] = owner[d] /\ slot(owner[c])[c] = slot(owner[d])[d]
    OBVIOUS
  <2>2. c \in P(owner[c]) /\ d \in P(owner[c]) /\ owner[c] \in Threads
    BY <2>1
  <2> QED BY <1>1, <2>1, <2>2
<1>5. IsFiniteSet(all) /\ Cardinality(all) = Cardinality(Threads) * PoolLimit
  <2>1. IsFiniteSet(1 .. PoolLimit) /\ Cardinality(1 .. PoolLimit) = PoolLimit
    BY FS_Interval, ShareType
  <2>2. IsFiniteSet(Threads)
    BY ThreadsAssumption
  <2> QED BY <2>1, <2>2, FS_Product
<1>6. f \in [C -> all]
  <2>1. \A c \in C : f[c] \in all
    <3> TAKE c \in C
    <3> HIDE DEF slot, P
    <3>1. slot(owner[c])[c] \in 1 .. PoolLimit
      BY <1>2, <1>3, ShareType
    <3> QED BY <1>3, <3>1
  <2> HIDE DEF all, slot, P
  <2> QED BY <2>1
<1> HIDE DEF f, slot
<1>7. f \in Injection(C, all)
  BY <1>4, <1>6, Zenon DEF Injection, IsInjective
<1>8. IsFiniteSet(C) /\ Cardinality(C) <= Cardinality(all)
  BY <1>5, <1>7, FS_Injection
<1>9. ASSUME NEW t \in Threads, Cardinality(P(t)) < PoolLimit
      PROVE  Cardinality(C) < Cardinality(all)
  <2> DEFINE rest == all \ {<<t, PoolLimit>>}
  <2>1. \A c \in C : f[c] # <<t, PoolLimit>>
    BY <1>2, <1>3, <1>9, ShareType DEF f
  <2>2. f \in Injection(C, rest)
    <3>1. f \in [C -> rest]
      BY <1>6, <2>1
    <3> HIDE DEF rest
    <3> QED BY <1>4, <3>1, Zenon DEF Injection, IsInjective
  <2>3. <<t, PoolLimit>> \in all
    BY <1>2, <1>9, ShareType
  <2> HIDE DEF all
  <2>4. IsFiniteSet(rest) /\ Cardinality(rest) = Cardinality(all) - 1
    BY <1>5, <2>3, FS_RemoveElement
  <2>5. Cardinality(C) <= Cardinality(rest)
    BY <2>2, <2>4, FS_Injection
  <2>6. Cardinality(all) \in Nat /\ Cardinality(C) \in Nat
    BY <1>5, <1>8, FS_CardinalityType
  <2> QED BY <2>4, <2>5, <2>6
<1> QED BY <1>5, <1>8, <1>9

\* The connections a thread has, out of any set of connections that threads have.
LEMMA OwnedPool ==
  ASSUME Types, NEW t \in Threads, PoolOK(t), NEW C \in SUBSET Conns
  PROVE  LET P == {c \in C : conn[c].thread = t}
         IN  /\ IsFiniteSet(P) /\ Cardinality(P) <= PoolLimit
             /\ Ready(t) => Cardinality(P) <= Cardinality(Data(t).pool)
<1> DEFINE P == {c \in C : conn[c].thread = t}
<1>1. CASE Ready(t)
  <2>1. P \subseteq Data(t).pool /\ IsFiniteSet(Data(t).pool)
        /\ Cardinality(Data(t).pool) <= PoolLimit
    BY <1>1 DEF PoolOK
  <2> HIDE DEF P
  <2>2. IsFiniteSet(P) /\ Cardinality(P) <= Cardinality(Data(t).pool)
    BY <2>1, FS_Subset
  <2>3. Cardinality(P) \in Nat /\ Cardinality(Data(t).pool) \in Nat
    BY <2>1, <2>2, FS_CardinalityType
  <2>4. Cardinality(P) <= PoolLimit
    BY <2>1, <2>2, <2>3, ShareType
  <2> QED BY <2>2, <2>4 DEF P
<1>2. CASE ~Ready(t)
  <2>1. P = {}
    BY <1>2 DEF PoolOK
  <2> HIDE DEF P
  <2>2. IsFiniteSet(P) /\ Cardinality(P) = 0
    BY <2>1, FS_EmptySet
  <2> QED BY <1>2, <2>2, ShareType DEF P
<1> QED BY <1>1, <1>2

\* There is always a connection to make while a pool is not full.
LEMMA FreeConn ==
  ASSUME IInv, NEW t \in Threads, Ready(t), Cardinality(Data(t).pool) < PoolLimit
  PROVE  (CHOOSE c \in FreeConns : TRUE) \in FreeConns
<1> SUFFICES ASSUME FreeConns = {} PROVE FALSE
  OBVIOUS
<1> DEFINE owner == [c \in Conns |-> conn[c].thread]
<1>1. \A c \in Conns : conn[c].thread \in Threads
  BY DEF IInv, Types, Connection, FreshOK, FreeConns
<1>2. owner \in [Conns -> Threads] /\ \A c \in Conns : owner[c] = conn[c].thread
  BY <1>1
<1> HIDE DEF owner
<1>3. \A u \in Threads : {c \in Conns : owner[c] = u} = {c \in Conns : conn[c].thread = u}
  BY <1>2
<1>4. \A u \in Threads : /\ IsFiniteSet({c \in Conns : owner[c] = u})
                         /\ Cardinality({c \in Conns : owner[c] = u}) <= PoolLimit
  BY <1>3, OwnedPool DEF IInv, Local
<1>5. Cardinality({c \in Conns : owner[c] = t}) < PoolLimit
  <2>1. /\ IsFiniteSet({c \in Conns : owner[c] = t})
        /\ Cardinality({c \in Conns : owner[c] = t}) <= Cardinality(Data(t).pool)
    BY <1>3, OwnedPool DEF IInv, Local
  <2>2. IsFiniteSet(Data(t).pool)
    BY DEF IInv, Local, PoolOK
  <2> QED BY <2>1, <2>2, ShareType, FS_CardinalityType
<1>6. Cardinality(Conns) < Cardinality(Threads) * PoolLimit
  BY <1>2, <1>4, <1>5, PoolSum
<1>7. Cardinality(Conns) \in Nat /\ Cardinality(Threads) \in Nat
  BY ThreadsAssumption, FS_CardinalityType
<1>8. Cardinality(Conns) >= Cardinality(Threads) * PoolLimit
  BY ThreadsAssumption DEF PoolLimit
<1>9. Cardinality(Threads) * PoolLimit \in Nat
  BY <1>7, ShareType
<1> QED BY <1>6, <1>7, <1>8, <1>9

LEMMA LeastKey ==
  ASSUME Types, Keys \ keys # {}
  PROVE  Min(Keys \ keys) \in Keys \ keys
<1> DEFINE T == Keys \ keys
<1>1. T \in SUBSET Nat /\ T # {}
  BY ThreadsAssumption
<1> HIDE DEF T
<1>2. PICK k \in T : \A m \in T : ~(<<m, k>> \in OpToRel(<, Nat))
  BY <1>1, NatLessThanWellFounded, WFMin
<1>3. \A m \in T : ~(m < k)
  BY <1>1, <1>2 DEF OpToRel
<1>4. Min(T) \in T
  <2>1. \A m \in T : k <= m
    BY <1>1, <1>3
  <2> QED BY <2>1 DEF Min
<1> QED BY <1>4 DEF T

-----------------------------------------------------------------------------
(***************************************************************************)
(* What a step of one thread leaves alone.                                 *)
(***************************************************************************)

\* The step touches nothing that belongs to another thread.
Elsewhere(t) ==
  /\ \A u \in Threads \ {t} :
       /\ th'[u] = th[u]
       /\ Ready(u)' = Ready(u)
       /\ Ready(u) => Data(u)' = Data(u)
  /\ \A c \in Conns : \/ conn'[c] = conn[c]
                      \/ conn[c].thread \in {t, NULL} /\ conn'[c].thread \in {t, NULL}
  /\ \A i \in Requests : Home[i] # t => req'[i] = req[i]
  /\ \A e \in list' \ list : Home[e.req] = t /\ conn'[e.conn].thread = t
  /\ \A e \in list \ list' : Home[e.req] = t

\* The lists of a thread hold connections and requests.
LEMMA DataType ==
  ASSUME Types, NEW t \in Threads, Ready(t), KeysOK
  PROVE  /\ Data(t) \in ThreadData /\ Data(t) # NULL
         /\ threadKey[t] \in Keys
         /\ Elements(Data(t).idle) \subseteq Conns
         /\ Elements(Data(t).queue) \subseteq Requests
<1>1. threadKey[t] \in Keys /\ data[t][threadKey[t]] # NULL
  BY DEF Types, KeysOK, Ready
<1>2. Data(t) \in ThreadData
  BY <1>1 DEF Types, Data
<1>3. Data(t).idle \in Seq(Conns) /\ Data(t).queue \in Seq(Requests)
  BY <1>2 DEF ThreadData
<1>4. Elements(Data(t).idle) \subseteq Conns /\ Elements(Data(t).queue) \subseteq Requests
  BY <1>3 DEF Elements
<1> QED BY <1>1, <1>2, <1>4 DEF Data

LEMMA Frame ==
  ASSUME Types, KeysOK, Types', FreshOK, NEW t \in Threads, Elsewhere(t),
         NEW u \in Threads, u # t, Local(u)
  PROVE  Local(u)'
<1>1. /\ th'[u] = th[u]
      /\ Ready(u)' = Ready(u)
      /\ Ready(u) => Data(u)' = Data(u)
  BY DEF Elsewhere
<1>2. \A c \in Conns :
        conn[c].thread = u \/ conn'[c].thread = u => conn'[c] = conn[c]
  BY ThreadsAssumption DEF Elsewhere
<1>3. \A i \in Requests : Home[i] = u => req'[i] = req[i]
  BY DEF Elsewhere
<1>4. \A e \in list' : Home[e.req] = u \/ conn'[e.conn].thread = u => e \in list
  BY DEF Elsewhere
<1>5. \A e \in list : Home[e.req] = u => e \in list'
  BY DEF Elsewhere
<1>6. \A e \in list \cup list' : e.req \in Requests /\ e.conn \in Conns
  BY DEF Types, EntrySet
<1>7. \A i \in Requests : Home[i] = u => (Mapped(i) <=> Mapped(i)')
  BY <1>4, <1>5 DEF Mapped
<1>8. PoolOK(u)'
  <2>1. \A c \in Conns : conn'[c].thread = u => Ready(u)' /\ conn'[c].phase # "none"
    BY <1>1, <1>2 DEF Local, PoolOK
  <2>2. ASSUME Ready(u)
        PROVE  /\ Data(u)'.pool = {c \in Conns : conn'[c].thread = u}
               /\ IsFiniteSet(Data(u)'.pool) /\ Cardinality(Data(u)'.pool) <= PoolLimit
               /\ Injective(Data(u)'.idle)
               /\ \A c \in Elements(Data(u)'.idle) :
                    conn'[c].thread = u /\ conn'[c].requestId = 0
    <3>1. {c \in Conns : conn'[c].thread = u} = {c \in Conns : conn[c].thread = u}
      BY <1>2
    <3>2. \A c \in Elements(Data(u)'.idle) :
                    conn'[c].thread = u /\ conn'[c].requestId = 0
      <4>1. \A c \in Elements(Data(u).idle) : c \in Conns
        BY <2>2, DataType
      <4> QED BY <1>1, <1>2, <2>2, <4>1 DEF Local, PoolOK
    <3> QED BY <1>1, <2>2, <3>1, <3>2 DEF Local, PoolOK
  <2> QED BY <1>1, <2>1, <2>2 DEF PoolOK
<1>9. QueueOK(u)'
  BY <1>1, <1>3, <1>7, DataType DEF Local, QueueOK
<1>10. ListOK(u)'
  BY <1>2, <1>3, <1>4, <1>6 DEF Local, ListOK
<1>11. \A c : Taken(u, c) => Taken(u, c)'
  BY <1>1, <1>2, <1>4, <1>6 DEF Taken, Local, PoolOK
<1>12. HandOK(u)'
  <2>1. th[u].pc \in Connecting =>
       /\ th[u].req \in Requests /\ Home[th[u].req] = u
       /\ req'[th[u].req].phase = "open" /\ ~Mapped(th[u].req)'
       /\ Ready(u)' => th[u].req \notin Elements(Data(u)'.queue)
       /\ th[u].closing # NULL => Ready(u)' /\ Taken(u, th[u].closing)'
    BY <1>1, <1>3, <1>7, <1>11 DEF Local, HandOK, Hand
  <2>2. th[u].pc \in {"find", "deref", "erase", "close"} =>
          th[u].conn \in Conns /\ conn'[th[u].conn].thread = u
    BY <1>2 DEF Local, HandOK, Hand
  <2>3. \A e \in list : conn[e.conn].thread = u => e \in list'
    BY <1>5, <1>6 DEF Local, ListOK
  <2>4. /\ At(u, "deref") /\ th[u].itr # NULL =>
             th[u].itr \in list' /\ th[u].itr.conn = th[u].conn
        /\ At(u, "erase") => \E e \in list' : e.conn = th[u].conn /\ e.req = th[u].req
    BY <2>3 DEF Local, HandOK, Hand, At
  <2>5. At(u, "remove") => \E e \in list' : e.req = th[u].req /\ Home[e.req] = u
    BY <1>5 DEF Local, HandOK, Hand, At
  <2>6. th[u].pc \in {"lockid", "bumpid", "bind", "release"} => Taken(u, th[u].conn)'
    BY <1>1, <1>11 DEF Local, HandOK, Hand
  <2> QED BY <1>1, <2>1, <2>2, <2>4, <2>5, <2>6 DEF Local, HandOK, Hand, At
<1>13. KeptOK(u)'
  BY <1>1, <1>3, <1>7 DEF Local, KeptOK
<1> QED BY <1>8, <1>9, <1>10, <1>12, <1>13 DEF Local

LEMMA Combine ==
  ASSUME IInv, NEW t \in Threads, Elsewhere(t),
         Types', KeysOK', IdsOK', FreshOK', Local(t)'
  PROVE  IInv'
<1>1. \A u \in Threads : Local(u)'
  BY Frame DEF IInv
<1> QED BY <1>1 DEF IInv

\* A thread goes on and keeps its ThreadData as it is.
LEMMA DataKept ==
  ASSUME Types, KeysOK, NEW t \in Threads, NEW l \in Locals,
         threadKey' = threadKey, keys' = keys, data' = data, Go(t, l),
         l.pc = "setspecific" <=> At(t, "setspecific"),
         l.pc = "setup" => threadKey[t] = 0,
         l.pc \notin {"idle", "setup"} => threadKey[t] # 0
  PROVE  /\ KeysOK'
         /\ th' \in [Threads -> Locals] /\ th'[t] = l
         /\ \A u \in Threads : u # t => th'[u] = th[u]
         /\ \A u \in Threads : Ready(u)' = Ready(u) /\ Data(u)' = Data(u)
<1>1. /\ th' \in [Threads -> Locals] /\ th'[t] = l
      /\ \A u \in Threads : u # t => th'[u] = th[u]
  BY DEF Go, Types
<1>2. \A u \in Threads : Ready(u)' = Ready(u)
  BY <1>1 DEF Ready, At
<1>3. \A u \in Threads : Data(u)' = Data(u)
  BY DEF Data
<1>4. KeysOK'
  BY <1>1, <1>2 DEF KeysOK, At
<1> QED BY <1>1, <1>2, <1>3, <1>4

\* A thread goes on and changes its ThreadData.
LEMMA DataSet ==
  ASSUME Types, KeysOK, NEW t \in Threads, NEW l \in Locals, NEW d \in ThreadData,
         Ready(t), threadKey' = threadKey, keys' = keys, Go(t, l),
         data' = [data EXCEPT ![t][threadKey[t]] = d],
         l.pc \notin {"setup", "setspecific"}
  PROVE  /\ KeysOK' /\ data' \in [Threads -> [Keys -> ThreadData \cup {NULL}]]
         /\ th' \in [Threads -> Locals] /\ th'[t] = l
         /\ \A u \in Threads : u # t => th'[u] = th[u]
         /\ \A u \in Threads : Ready(u)' = Ready(u)
         /\ \A u \in Threads : u # t => Data(u)' = Data(u)
         /\ Data(t)' = d
<1>1. /\ th' \in [Threads -> Locals] /\ th'[t] = l
      /\ \A u \in Threads : u # t => th'[u] = th[u]
  BY DEF Go, Types
<1>2. \A u \in Threads : Ready(u)' = Ready(u)
  BY <1>1 DEF Ready, At
<1>3. threadKey[t] \in Keys /\ d # NULL
  BY DataType, ThreadsAssumption
<1>4. /\ data' \in [Threads -> [Keys -> ThreadData \cup {NULL}]]
      /\ data'[t][threadKey[t]] = d
      /\ \A k \in Keys : k # threadKey[t] => data'[t][k] = data[t][k]
      /\ \A u \in Threads : u # t => data'[u] = data[u]
  BY <1>3 DEF Types
<1>5. \A u \in Threads : u # t => Data(u)' = Data(u)
  BY <1>4 DEF Data
<1>6. Data(t)' = d
  BY <1>4 DEF Data
<1>7. \A u \in Threads, k \in Keys :
        data'[u][k] # NULL <=> Ready(u)' /\ k = threadKey[u]
  <2> TAKE u \in Threads, k \in Keys
  <2>1. CASE u = t
    <3>1. CASE k = threadKey[t]
      BY <1>2, <1>3, <1>4, <2>1, <3>1
    <3>2. CASE k # threadKey[t]
      BY <1>4, <2>1, <3>2 DEF KeysOK
    <3> QED BY <3>1, <3>2
  <2>2. CASE u # t
    BY <1>2, <1>4, <2>2 DEF KeysOK
  <2> QED BY <2>1, <2>2
<1>8. KeysOK'
  BY <1>1, <1>7 DEF KeysOK, At, Ready
<1> QED BY <1>1, <1>2, <1>4, <1>5, <1>6, <1>8

\* A step that draws no id.
LEMMA IdsKept ==
  ASSUME Types, IdsOK, NEW t \in Threads, NEW l \in Locals, Go(t, l),
         nextId' = nextId, idMutex' = idMutex,
         ~At(t, "bumpid"), l.pc \notin {"bumpid", "bind"},
         \A c \in Conns : conn'[c].requestId \in {conn[c].requestId, 0},
         \A i \in Requests : req'[i].id = req[i].id
  PROVE  IdsOK'
<1>1. /\ th'[t] = l
      /\ \A u \in Threads : u # t => th'[u] = th[u]
  BY DEF Go, Types
<1>2. \A u \in Threads : /\ At(u, "bumpid")' <=> At(u, "bumpid")
                         /\ At(u, "bind")' => At(u, "bind") /\ u # t
  BY <1>1 DEF At
<1>3. {u \in Threads : At(u, "bumpid")'} = {idMutex'} \ {NULL}
  BY <1>2 DEF IdsOK
<1>4. \A u \in Threads : At(u, "bumpid")' => th'[u].id = nextId'
  BY <1>1, <1>2 DEF IdsOK
<1>5. nextId \in Nat /\ nextId > 0 /\ \A c \in Conns : conn[c].requestId \in Nat
  BY DEF Types, Connection
<1>6. /\ \A c \in Conns : conn'[c].requestId < nextId'
      /\ \A i \in Requests : req'[i].id < nextId'
  BY <1>5 DEF IdsOK
<1>7. /\ \A c, d \in Conns :
           conn'[c].requestId = conn'[d].requestId /\ conn'[c].requestId # 0 => c = d
      /\ \A i, j \in Requests : req'[i].id = req'[j].id /\ req'[i].id # 0 => i = j
  BY DEF IdsOK
<1>8. \A u \in Threads : At(u, "bind")' =>
       /\ th'[u].id \in 1 .. nextId' - 1
       /\ \A c \in Conns : conn'[c].requestId # th'[u].id
       /\ \A i \in Requests : req'[i].id # th'[u].id
       /\ \A v \in Threads : At(v, "bind")' /\ th'[v].id = th'[u].id => v = u
  <2> SUFFICES ASSUME NEW u \in Threads, At(u, "bind")'
               PROVE  /\ th'[u].id \in 1 .. nextId' - 1
                      /\ \A c \in Conns : conn'[c].requestId # th'[u].id
                      /\ \A i \in Requests : req'[i].id # th'[u].id
                      /\ \A v \in Threads :
                           At(v, "bind")' /\ th'[v].id = th'[u].id => v = u
    OBVIOUS
  <2>1. At(u, "bind") /\ th'[u] = th[u]
    BY <1>1, <1>2
  <2>2. th[u].id \in 1 .. nextId - 1 /\ th[u].id # 0
    BY <2>1, <1>5 DEF IdsOK
  <2> QED BY <1>1, <1>2, <2>1, <2>2 DEF IdsOK
<1> QED BY <1>3, <1>4, <1>6, <1>7, <1>8 DEF IdsOK

-----------------------------------------------------------------------------
(***************************************************************************)
(* The hook and the set-up.                                                *)
(***************************************************************************)

LEMMA InitInv == Init => IInv
<1> SUFFICES ASSUME Init PROVE IInv
  OBVIOUS
<1>1. Idle \in Locals /\ Idle.pc = "idle"
  BY DEF Idle, Locals, Stages
<1>2. NoConn \in Connection /\ NoConn.requestId = 0 /\ NoConn.thread = NULL
      /\ NoConn.phase = "none"
  BY DEF NoConn, Connection
<1>3. \A t \in Threads : th[t] = Idle /\ threadKey[t] = 0 /\ ~Ready(t)
  BY DEF Init, Ready
<1>4. \A c \in Conns : conn[c] = NoConn
  BY DEF Init
<1>5. \A i \in Requests : req[i] = [id |-> 0, phase |-> "new"] /\ req[i] \in Request
                          /\ req[i].id = 0 /\ req[i].phase = "new"
  BY DEF Init, Request
<1>6. Types
  <2>1. conn \in [Conns -> Connection] /\ req \in [Requests -> Request]
        /\ th \in [Threads -> Locals]
    BY <1>1, <1>2, <1>5 DEF Init
  <2>2. data \in [Threads -> [Keys -> ThreadData \cup {NULL}]]
    BY DEF Init
  <2> QED BY <2>1, <2>2, ThreadsAssumption DEF Init, Types
<1>7. KeysOK
  BY <1>1, <1>3 DEF Init, KeysOK, At
<1>8. IdsOK
  BY <1>1, <1>2, <1>3, <1>4, <1>5, ThreadsAssumption DEF Init, IdsOK, At
<1>9. FreshOK
  BY <1>2, <1>4 DEF Init, FreshOK
<1>10. ASSUME NEW t \in Threads
       PROVE  Local(t)
  <2>1. PoolOK(t) /\ QueueOK(t)
    BY <1>2, <1>3, <1>4, ThreadsAssumption DEF PoolOK, QueueOK
  <2>2. ListOK(t) /\ KeptOK(t)
    BY <1>5 DEF Init, ListOK, KeptOK
  <2>3. HandOK(t)
    BY <1>1, <1>3 DEF HandOK, Hand, At, Connecting
  <2> QED BY <2>1, <2>2, <2>3 DEF Local
<1> QED BY <1>6, <1>7, <1>8, <1>9, <1>10 DEF IInv

LEMMA HookInv ==
  ASSUME IInv, NEW t \in Threads, NEW i \in Requests, Hook(t, i)
  PROVE  IInv'
<1> USE DEF IInv
<1> DEFINE l == [Idle EXCEPT !.pc = IF threadKey[t] = 0 THEN "setup" ELSE "connect",
                             !.req = i]
<1>1. /\ l \in Locals /\ l.req = i /\ l.closing = NULL
      /\ l.pc = IF threadKey[t] = 0 THEN "setup" ELSE "connect"
  BY DEF Idle, Locals, Stages
<1>2. /\ At(t, "idle") /\ Home[i] = t /\ req[i].phase = "new" /\ Go(t, l)
      /\ req' = [req EXCEPT ![i].phase = "open"]
      /\ UNCHANGED <<threadKey, keys, data, list, nextId, idMutex, conn, failures>>
  BY DEF Hook
<1> HIDE DEF l
<1>3. /\ KeysOK' /\ th' \in [Threads -> Locals] /\ th'[t] = l
      /\ \A u \in Threads : u # t => th'[u] = th[u]
      /\ \A u \in Threads : Ready(u)' = Ready(u) /\ Data(u)' = Data(u)
  BY <1>1, <1>2, DataKept DEF At
<1>4. /\ req' \in [Requests -> Request]
      /\ req'[i].phase = "open" /\ \A j \in Requests : req'[j].id = req[j].id
      /\ \A j \in Requests : j # i => req'[j] = req[j]
  BY <1>2 DEF Types, Request
<1>5. Types'
  BY <1>2, <1>3, <1>4 DEF Types
<1>6. IdsOK'
  BY <1>1, <1>2, <1>4, IdsKept DEF At
<1>7. FreshOK' /\ Elsewhere(t)
  BY <1>2, <1>3, <1>4 DEF FreshOK, Elsewhere
<1>8. \A e \in list : e.req \in Requests
  BY DEF Types, EntrySet
<1>9. ~Mapped(i) /\ \A j : Mapped(j)' <=> Mapped(j)
  BY <1>2, <1>8 DEF Mapped, Local, ListOK
<1>10. Ready(t) => i \notin Elements(Data(t).queue)
  BY <1>2 DEF Local, QueueOK
<1>11. PoolOK(t)'
  BY <1>2, <1>3 DEF Local, PoolOK
<1>12. QueueOK(t)' /\ ListOK(t)'
  BY <1>2, <1>3, <1>4, <1>8, <1>9, DataType DEF Local, QueueOK, ListOK
<1>13. HandOK(t)'
  BY <1>1, <1>2, <1>3, <1>4, <1>9, <1>10 DEF HandOK, Hand, At, Connecting
<1>14. KeptOK(t)'
  BY <1>1, <1>2, <1>3, <1>4, <1>9 DEF Local, KeptOK, At, Connecting
<1>15. Local(t)'
  BY <1>11, <1>12, <1>13, <1>14 DEF Local
<1> QED BY <1>3, <1>5, <1>6, <1>7, <1>15, Combine

\* A thread goes on and no object changes.
LEMMA HandMove ==
  ASSUME IInv, NEW t \in Threads, NEW l \in Locals, Go(t, l),
         UNCHANGED <<threadKey, keys, data, list, conn, req>>,
         nextId' \in Nat \ {0}, IdsOK',
         l.pc = "setspecific" <=> At(t, "setspecific"),
         l.pc = "setup" => threadKey[t] = 0,
         l.pc \notin {"idle", "setup"} => threadKey[t] # 0,
         th[t].pc \in Connecting => l.pc \in Connecting /\ l.req = th[t].req,
         Hand(t, l)
  PROVE  IInv'
<1> USE DEF IInv
<1>3. /\ KeysOK' /\ th' \in [Threads -> Locals] /\ th'[t] = l
      /\ \A u \in Threads : u # t => th'[u] = th[u]
      /\ \A u \in Threads : Ready(u)' = Ready(u) /\ Data(u)' = Data(u)
  BY DataKept
<1>5. Types'
  BY <1>3 DEF Types
<1>7. FreshOK' /\ Elsewhere(t)
  BY <1>3 DEF FreshOK, Elsewhere
<1>9. (\A j : Mapped(j)' <=> Mapped(j)) /\ (\A c : Taken(t, c)' <=> Taken(t, c))
  BY <1>3 DEF Mapped, Taken
<1>11. PoolOK(t)'
  BY <1>3 DEF Local, PoolOK
<1>12. QueueOK(t)' /\ ListOK(t)'
  BY <1>3, <1>9 DEF Local, QueueOK, ListOK
<1>13. HandOK(t)'
  BY <1>3, <1>9 DEF HandOK, Hand
<1>14. KeptOK(t)'
  BY <1>3, <1>9 DEF Local, KeptOK
<1>15. Local(t)'
  BY <1>11, <1>12, <1>13, <1>14 DEF Local
<1> QED BY <1>3, <1>5, <1>7, <1>15, Combine

LEMMA HookPassesInv ==
  ASSUME IInv, NEW t \in Threads, NEW i \in Requests, HookPasses(t, i)
  PROVE  IInv'
<1> USE DEF IInv
<1>2. /\ At(t, "idle") /\ Home[i] = t /\ req[i].phase = "new"
      /\ req' = [req EXCEPT ![i].phase = "passed"]
      /\ UNCHANGED <<threadKey, keys, data, list, nextId, idMutex, conn, th, failures>>
  BY DEF HookPasses
<1>3. th[t] \in Locals /\ Go(t, th[t])
  BY <1>2 DEF Go, Types
<1>4. KeysOK' /\ \A u \in Threads : Ready(u)' = Ready(u) /\ Data(u)' = Data(u)
  BY <1>2, <1>3, DataKept DEF At
<1>5. /\ req' \in [Requests -> Request]
      /\ \A j \in Requests : req'[j].id = req[j].id
      /\ req'[i].phase = "passed" /\ \A j \in Requests : j # i => req'[j] = req[j]
  BY <1>2 DEF Types, Request
<1>6. Types'
  BY <1>2, <1>5 DEF Types
<1>7. IdsOK'
  BY <1>2, <1>3, <1>5, IdsKept DEF At
<1>8. FreshOK' /\ Elsewhere(t)
  BY <1>2, <1>4, <1>5 DEF FreshOK, Elsewhere
<1>9. \A e \in list : e.req \in Requests
  BY DEF Types, EntrySet
<1>10. \A j : Mapped(j)' <=> Mapped(j)
  BY <1>2 DEF Mapped
<1>11. PoolOK(t)'
  BY <1>2, <1>4 DEF Local, PoolOK
<1>12. QueueOK(t)' /\ ListOK(t)'
  BY <1>2, <1>4, <1>5, <1>9, <1>10, DataType DEF Local, QueueOK, ListOK
<1>13. HandOK(t)'
  BY <1>2, <1>4 DEF HandOK, Hand, At, Connecting
<1>14. KeptOK(t)'
  BY <1>2, <1>4, <1>5, <1>10 DEF Local, KeptOK, At, Connecting
<1> QED BY <1>4, <1>6, <1>7, <1>8, <1>11, <1>12, <1>13, <1>14, Combine DEF Local

\* The key is the thread's own: nobody has it.
LEMMA CreateKeyInv ==
  ASSUME IInv, NEW t \in Threads, CreateKey(t)
  PROVE  IInv'
<1> USE DEF IInv
<1> DEFINE k == Min(Keys \ keys)
           l == [th[t] EXCEPT !.pc = "setspecific"]
<1>1. k \in Keys \ keys
  BY LeastKey DEF CreateKey
<1>2. /\ At(t, "setup") /\ Go(t, l)
      /\ keys' = keys \cup {k}
      /\ threadKey' = [threadKey EXCEPT ![t] = k]
      /\ data' = [u \in Threads |-> [data[u] EXCEPT ![k] = NULL]]
      /\ UNCHANGED <<list, nextId, idMutex, conn, req, failures>>
  BY DEF CreateKey, KeyStored
<1>3. k # 0 /\ k \notin HostKeys
  BY <1>1, ThreadsAssumption DEF Types
<1> HIDE DEF k
<1>4. /\ l \in Locals /\ l.pc = "setspecific" /\ l.req = th[t].req
      /\ l.closing = th[t].closing
  BY <1>2 DEF Types, Locals, Stages
<1> HIDE DEF l
<1>5. /\ th' \in [Threads -> Locals] /\ th'[t] = l
      /\ \A u \in Threads : u # t => th'[u] = th[u]
  BY <1>2, <1>4 DEF Go, Types
<1>6. /\ threadKey' \in [Threads -> Keys \cup {0}] /\ threadKey'[t] = k
      /\ \A u \in Threads : u # t => threadKey'[u] = threadKey[u]
  BY <1>1, <1>2 DEF Types
<1>7. /\ data' \in [Threads -> [Keys -> ThreadData \cup {NULL}]]
      /\ \A u \in Threads : data'[u][k] = NULL
      /\ \A u \in Threads, m \in Keys : m # k => data'[u][m] = data[u][m]
  BY <1>1, <1>2 DEF Types
<1>8. threadKey[t] = 0 /\ ~Ready(t) /\ ~Ready(t)'
  BY <1>2, <1>4, <1>5 DEF KeysOK, Ready, At
<1>9. \A u \in Threads : u # t /\ threadKey[u] # 0 => threadKey[u] \in Keys \ {k}
  BY <1>1 DEF KeysOK, Types
<1>10. \A u \in Threads : u # t =>
         /\ Ready(u)' = Ready(u) /\ (Ready(u) => Data(u)' = Data(u))
  BY <1>5, <1>6, <1>7, <1>9 DEF Ready, At, Data
<1>11. Types'
  BY <1>1, <1>2, <1>5, <1>6, <1>7 DEF Types
<1>12. KeysOK'
  <2>1. \A u \in Threads : threadKey'[u] # 0 => threadKey'[u] \in keys' \ HostKeys
    BY <1>2, <1>3, <1>6 DEF KeysOK
  <2>2. \A u, v \in Threads :
          threadKey'[u] = threadKey'[v] /\ threadKey'[u] # 0 => u = v
    BY <1>6, <1>9 DEF KeysOK
  <2>3. \A u \in Threads : /\ At(u, "setup")' => threadKey'[u] = 0
                           /\ th'[u].pc \notin {"idle", "setup"} => threadKey'[u] # 0
    BY <1>3, <1>4, <1>5, <1>6 DEF KeysOK, At
  <2>4. ASSUME NEW u \in Threads, NEW m \in Keys
        PROVE  data'[u][m] # NULL <=> Ready(u)' /\ m = threadKey'[u]
    <3>1. CASE u = t
      BY <1>7, <1>8, <3>1 DEF KeysOK
    <3>2. CASE u # t /\ m = k
      BY <1>6, <1>7, <1>9, <1>10, <3>2 DEF Ready
    <3>3. CASE u # t /\ m # k
      BY <1>6, <1>7, <1>10, <3>3 DEF KeysOK
    <3> QED BY <3>1, <3>2, <3>3
  <2> QED BY <2>1, <2>2, <2>3, <2>4 DEF KeysOK
<1>13. IdsOK'
  BY <1>2, <1>4, IdsKept DEF At
<1>14. FreshOK' /\ Elsewhere(t)
  BY <1>2, <1>5, <1>10 DEF FreshOK, Elsewhere
<1>15. \A j : Mapped(j)' <=> Mapped(j)
  BY <1>2 DEF Mapped
<1>16. PoolOK(t)' /\ QueueOK(t)' /\ ListOK(t)'
  BY <1>2, <1>8 DEF Local, PoolOK, QueueOK, ListOK
<1>17. HandOK(t)'
  BY <1>2, <1>4, <1>5, <1>8, <1>15 DEF Local, HandOK, Hand, At, Connecting
<1>18. KeptOK(t)'
  BY <1>2, <1>4, <1>5, <1>8, <1>15 DEF Local, KeptOK, At, Connecting
<1> QED BY <1>11, <1>12, <1>13, <1>14, <1>16, <1>17, <1>18, Combine DEF Local

LEMMA SetSpecificInv ==
  ASSUME IInv, NEW t \in Threads, SetSpecific(t)
  PROVE  IInv'
<1> USE DEF IInv
<1> DEFINE l == [th[t] EXCEPT !.pc = "connect"]
<1>1. NewThreadData \in ThreadData /\ NewThreadData # NULL
      /\ NewThreadData.pool = {} /\ NewThreadData.idle = <<>>
      /\ NewThreadData.queue = <<>>
  <2>1. NewThreadData \in ThreadData
    BY DEF NewThreadData, ThreadData
  <2>2. NewThreadData # NULL
    BY <2>1, ThreadsAssumption
  <2> QED BY <2>1, <2>2 DEF NewThreadData
<1>2. /\ At(t, "setspecific") /\ Go(t, l)
      /\ data' = [data EXCEPT ![t][threadKey[t]] = NewThreadData]
      /\ UNCHANGED <<threadKey, keys, list, nextId, idMutex, conn, req, failures>>
  BY DEF SetSpecific
<1>4. /\ l \in Locals /\ l.pc = "connect" /\ l.req = th[t].req
      /\ l.closing = th[t].closing
  BY <1>2 DEF Types, Locals, Stages
<1> HIDE DEF l
<1>5. /\ th' \in [Threads -> Locals] /\ th'[t] = l
      /\ \A u \in Threads : u # t => th'[u] = th[u]
  BY <1>2, <1>4 DEF Go, Types
<1>6. threadKey[t] # 0 /\ threadKey[t] \in Keys
  BY <1>2 DEF KeysOK, At, Types
<1>7. /\ data' \in [Threads -> [Keys -> ThreadData \cup {NULL}]]
      /\ data'[t][threadKey[t]] = NewThreadData
      /\ \A k \in Keys : k # threadKey[t] => data'[t][k] = data[t][k]
      /\ \A u \in Threads : u # t => data'[u] = data[u]
  BY <1>1, <1>2, <1>6 DEF Types
<1>8. ~Ready(t) /\ Ready(t)' /\ Data(t)' = NewThreadData
  BY <1>2, <1>4, <1>5, <1>6, <1>7 DEF Ready, At, Data
<1>9. \A u \in Threads : u # t => Ready(u)' = Ready(u) /\ Data(u)' = Data(u)
  BY <1>2, <1>5, <1>7 DEF Ready, At, Data
<1>10. Types'
  BY <1>2, <1>5, <1>7 DEF Types
<1>11. KeysOK'
  <2>1. ASSUME NEW u \in Threads, NEW m \in Keys
        PROVE  data'[u][m] # NULL <=> Ready(u)' /\ m = threadKey'[u]
    <3>1. CASE u = t /\ m = threadKey[t]
      BY <1>1, <1>2, <1>7, <1>8, <3>1
    <3>2. CASE u = t /\ m # threadKey[t]
      BY <1>2, <1>7, <3>2 DEF KeysOK
    <3>3. CASE u # t
      BY <1>2, <1>7, <1>9, <3>3 DEF KeysOK
    <3> QED BY <3>1, <3>2, <3>3
  <2> QED BY <1>2, <1>4, <1>5, <1>6, <2>1 DEF KeysOK, At
<1>13. IdsOK'
  BY <1>2, <1>4, IdsKept DEF At
<1>14. FreshOK' /\ Elsewhere(t)
  BY <1>2, <1>5, <1>9 DEF FreshOK, Elsewhere
<1>15. \A j : Mapped(j)' <=> Mapped(j)
  BY <1>2 DEF Mapped
<1>16. Elements(<<>>) = {} /\ Injective(<<>>)
  BY DEF Elements, Injective
<1>17. PoolOK(t)'
  <2>1. {c \in Conns : conn'[c].thread = t} = {}
    BY <1>2, <1>8 DEF Local, PoolOK
  <2>2. IsFiniteSet({}) /\ Cardinality({}) <= PoolLimit
    BY FS_EmptySet, ShareType
  <2>3. \A c \in Conns : conn'[c].thread # t
    BY <2>1
  <2> QED BY <1>1, <1>8, <1>16, <2>1, <2>2, <2>3 DEF PoolOK
<1>18. QueueOK(t)' /\ ListOK(t)'
  <2>1. Len(<<>>) <= QueueSize
    BY ThreadsAssumption
  <2> QED BY <1>1, <1>2, <1>8, <1>16, <2>1 DEF Local, QueueOK, ListOK
<1>19. HandOK(t)'
  BY <1>1, <1>2, <1>4, <1>5, <1>8, <1>15, <1>16 DEF Local, HandOK, Hand, At, Connecting
<1>20. KeptOK(t)'
  BY <1>2, <1>4, <1>5, <1>8, <1>15 DEF Local, KeptOK, At, Connecting
<1> QED BY <1>10, <1>11, <1>13, <1>14, <1>17, <1>18, <1>19, <1>20, Combine DEF Local

LEMMA SetSpecificFailsInv ==
  ASSUME IInv, NEW t \in Threads, SetSpecificFails(t)
  PROVE  IInv'
<1> USE DEF IInv
<1> DEFINE l == [th[t] EXCEPT !.pc = "setup"]
<1>2. /\ At(t, "setspecific") /\ Go(t, l)
      /\ keys' = keys \ {threadKey[t]}
      /\ threadKey' = [threadKey EXCEPT ![t] = 0]
      /\ UNCHANGED <<data, list, nextId, idMutex, conn, req>>
  BY DEF SetSpecificFails, KeyStored
<1>4. /\ l \in Locals /\ l.pc = "setup" /\ l.req = th[t].req
      /\ l.closing = th[t].closing
  BY <1>2 DEF Types, Locals, Stages
<1> HIDE DEF l
<1>5. /\ th' \in [Threads -> Locals] /\ th'[t] = l
      /\ \A u \in Threads : u # t => th'[u] = th[u]
  BY <1>2, <1>4 DEF Go, Types
<1>6. threadKey[t] # 0 /\ threadKey[t] \in keys \ HostKeys
  BY <1>2 DEF KeysOK, At
<1>7. /\ threadKey' \in [Threads -> Keys \cup {0}] /\ threadKey'[t] = 0
      /\ \A u \in Threads : u # t => threadKey'[u] = threadKey[u]
  BY <1>2 DEF Types
<1>8. ~Ready(t) /\ ~Ready(t)'
  BY <1>2, <1>7 DEF Ready
<1>9. \A u \in Threads : u # t => Ready(u)' = Ready(u) /\ Data(u)' = Data(u)
  BY <1>2, <1>5, <1>7 DEF Ready, At, Data
<1>10. Types'
  BY <1>2, <1>5, <1>6, <1>7 DEF Types
<1>11. KeysOK'
  <2>1. \A u \in Threads : threadKey'[u] # 0 => threadKey'[u] \in keys' \ HostKeys
    BY <1>2, <1>6, <1>7 DEF KeysOK
  <2>2. \A u, v \in Threads :
          threadKey'[u] = threadKey'[v] /\ threadKey'[u] # 0 => u = v
    BY <1>7 DEF KeysOK
  <2>3. \A u \in Threads : /\ At(u, "setup")' => threadKey'[u] = 0
                           /\ th'[u].pc \notin {"idle", "setup"} => threadKey'[u] # 0
    BY <1>4, <1>5, <1>7 DEF KeysOK, At
  <2>4. ASSUME NEW u \in Threads, NEW m \in Keys
        PROVE  data'[u][m] # NULL <=> Ready(u)' /\ m = threadKey'[u]
    BY <1>2, <1>7, <1>8, <1>9 DEF KeysOK
  <2> QED BY <2>1, <2>2, <2>3, <2>4 DEF KeysOK
<1>13. IdsOK'
  BY <1>2, <1>4, IdsKept DEF At
<1>14. FreshOK' /\ Elsewhere(t)
  BY <1>2, <1>5, <1>9 DEF FreshOK, Elsewhere
<1>15. \A j : Mapped(j)' <=> Mapped(j)
  BY <1>2 DEF Mapped
<1>16. PoolOK(t)' /\ QueueOK(t)' /\ ListOK(t)'
  BY <1>2, <1>8 DEF Local, PoolOK, QueueOK, ListOK
<1>17. HandOK(t)'
  BY <1>2, <1>4, <1>5, <1>8, <1>15 DEF Local, HandOK, Hand, At, Connecting
<1>18. KeptOK(t)'
  BY <1>2, <1>4, <1>5, <1>8, <1>15 DEF Local, KeptOK, At, Connecting
<1> QED BY <1>10, <1>11, <1>13, <1>14, <1>16, <1>17, <1>18, Combine DEF Local

-----------------------------------------------------------------------------
(***************************************************************************)
(* Server::connect.                                                        *)
(***************************************************************************)

\* A thread inside a handler is set up.
LEMMA AtWork ==
  ASSUME IInv, NEW t \in Threads, th[t].pc \notin {"idle", "setup", "setspecific"}
  PROVE  /\ threadKey[t] # 0 /\ Ready(t) /\ threadKey[t] \in Keys
         /\ Data(t) \in ThreadData /\ Data(t) # NULL
         /\ Data(t).pool \subseteq Conns
         /\ Data(t).idle \in Seq(Conns) /\ Elements(Data(t).idle) \subseteq Conns
         /\ Data(t).queue \in Seq(Requests) /\ Elements(Data(t).queue) \subseteq Requests
         /\ th[t] \in Locals
<1>1. threadKey[t] # 0 /\ Ready(t)
  BY DEF IInv, KeysOK, Ready, At
<1>2. /\ threadKey[t] \in Keys /\ Data(t) \in ThreadData /\ Data(t) # NULL
      /\ Elements(Data(t).idle) \subseteq Conns
      /\ Elements(Data(t).queue) \subseteq Requests
  BY <1>1, DataType DEF IInv
<1>3. th[t] \in Locals
  BY DEF IInv, Types
<1> QED BY <1>1, <1>2, <1>3 DEF ThreadData

\* Where connect returns to.
LEMMA ReturnedType ==
  ASSUME IInv, NEW t \in Threads, th[t].pc \in Connecting
  PROVE  /\ Returned(t) \in Locals
         /\ \/ Returned(t).pc = "idle"
            \/ /\ Returned(t).pc = "close" /\ Returned(t).conn = th[t].closing
               /\ th[t].closing \in Conns /\ conn[th[t].closing].thread = t
<1>1. th[t] \in Locals
  BY DEF IInv, Types
<1>2. th[t].closing # NULL => th[t].closing \in Conns /\ conn[th[t].closing].thread = t
  BY DEF IInv, Local, HandOK, Hand, Taken
<1>3. Idle \in Locals /\ Idle.pc = "idle"
  BY DEF Idle, Locals, Stages
<1>4. ASSUME th[t].closing # NULL
      PROVE  /\ [Idle EXCEPT !.pc = "close", !.conn = th[t].closing] \in Locals
             /\ Returned(t).pc = "close" /\ Returned(t).conn = th[t].closing
  BY <1>2, <1>4 DEF Idle, Locals, Stages, Returned
<1> QED BY <1>2, <1>3, <1>4 DEF Returned

LEMMA ConnectAddsInv ==
  ASSUME IInv, NEW t \in Threads, ConnectAdds(t)
  PROVE  IInv'
<1> USE DEF IInv
<1>1. /\ At(t, "connect") /\ Data(t) # NULL /\ Cardinality(Data(t).pool) < PoolLimit
      /\ UNCHANGED <<threadKey, keys, list, nextId, idMutex, req, failures>>
  BY DEF ConnectAdds, PoolOpen
<1>2. /\ threadKey[t] # 0 /\ Ready(t) /\ threadKey[t] \in Keys
      /\ Data(t) \in ThreadData /\ th[t] \in Locals
      /\ Elements(Data(t).idle) \subseteq Conns
      /\ Elements(Data(t).queue) \subseteq Requests
  BY <1>1, AtWork DEF At
<1>3. PICK c \in FreeConns :
        /\ conn' = [conn EXCEPT ![c] = [NoConn EXCEPT !.thread = t, !.phase = "new"]]
        /\ data' = [data EXCEPT ![t][threadKey[t]].pool = @ \cup {c}]
        /\ Go(t, [th[t] EXCEPT !.pc = "lockid", !.conn = c])
  <2>1. (CHOOSE c \in FreeConns : TRUE) \in FreeConns
    BY <1>1, <1>2, FreeConn
  <2> QED BY <2>1, Zenon DEF ConnectAdds
<1> DEFINE d == [Data(t) EXCEPT !.pool = @ \cup {c}]
           l == [th[t] EXCEPT !.pc = "lockid", !.conn = c]
           k == [NoConn EXCEPT !.thread = t, !.phase = "new"]
<1>4. c \in Conns /\ conn[c].phase = "none" /\ conn[c].thread = NULL
  BY <1>3 DEF FreeConns, FreshOK
<1>5. /\ data' = [data EXCEPT ![t][threadKey[t]] = d]
      /\ conn' = [conn EXCEPT ![c] = k] /\ Go(t, l)
  BY <1>3 DEF Data
<1>6. d \in ThreadData /\ d.pool = Data(t).pool \cup {c} /\ d.idle = Data(t).idle
      /\ d.queue = Data(t).queue
  BY <1>2, <1>4 DEF ThreadData
<1>7. /\ l \in Locals /\ l.pc = "lockid" /\ l.conn = c /\ l.req = th[t].req
      /\ l.closing = th[t].closing
  BY <1>2, <1>4 DEF Locals, Stages
<1>8. k \in Connection /\ k.thread = t /\ k.phase = "new" /\ k.requestId = 0
  BY DEF NoConn, Connection
<1> HIDE DEF d, l, k
<1>9. /\ KeysOK' /\ data' \in [Threads -> [Keys -> ThreadData \cup {NULL}]]
      /\ th' \in [Threads -> Locals] /\ th'[t] = l
      /\ \A u \in Threads : u # t => th'[u] = th[u]
      /\ \A u \in Threads : Ready(u)' = Ready(u)
      /\ \A u \in Threads : u # t => Data(u)' = Data(u)
      /\ Data(t)' = d
  BY <1>1, <1>2, <1>5, <1>6, <1>7, DataSet
<1>10. /\ conn' \in [Conns -> Connection] /\ conn'[c] = k
       /\ \A a \in Conns : a # c => conn'[a] = conn[a]
  BY <1>4, <1>5, <1>8 DEF Types
<1>11. Types'
  BY <1>1, <1>9, <1>10 DEF Types
<1>12. IdsOK'
  BY <1>1, <1>5, <1>7, <1>8, <1>10, IdsKept DEF At
<1>13. \A e \in list : e.conn \in Conns /\ e.conn # c /\ e.req \in Requests
  BY <1>4, ThreadsAssumption DEF FreshOK, Types, EntrySet
<1>14. FreshOK'
  BY <1>1, <1>8, <1>10, <1>13, ThreadsAssumption DEF FreshOK
<1>15. Elsewhere(t)
  BY <1>1, <1>4, <1>8, <1>9, <1>10 DEF Elsewhere
<1>16. c \notin Elements(Data(t).idle)
  BY <1>2, <1>4, ThreadsAssumption DEF Local, PoolOK
<1>17. PoolOK(t)'
  <2>1. Data(t)'.pool = {a \in Conns : conn'[a].thread = t}
    BY <1>2, <1>4, <1>6, <1>8, <1>9, <1>10 DEF Local, PoolOK
  <2>2. IsFiniteSet(Data(t)'.pool) /\ Cardinality(Data(t)'.pool) <= PoolLimit
    <3>1. IsFiniteSet(Data(t).pool)
      BY <1>2 DEF Local, PoolOK
    <3>2. /\ IsFiniteSet(d.pool)
          /\ Cardinality(d.pool) <= Cardinality(Data(t).pool) + 1
      <4>1. Cardinality(Data(t).pool) \in Nat
        BY <3>1, FS_CardinalityType
      <4>2. /\ IsFiniteSet(Data(t).pool \cup {c})
            /\ Cardinality(Data(t).pool \cup {c}) =
                 IF c \in Data(t).pool THEN Cardinality(Data(t).pool)
                 ELSE Cardinality(Data(t).pool) + 1
        BY <3>1, FS_AddElement
      <4> QED BY <1>6, <4>1, <4>2
    <3>3. Cardinality(d.pool) \in Nat /\ Cardinality(Data(t).pool) \in Nat
      BY <3>1, <3>2, FS_CardinalityType
    <3> QED BY <1>1, <1>9, <3>2, <3>3, ShareType
  <2>3. \A a \in Conns : conn'[a].thread = t => Ready(t)' /\ conn'[a].phase # "none"
    BY <1>2, <1>8, <1>9, <1>10 DEF Local, PoolOK
  <2>4. \A a \in Elements(Data(t)'.idle) : conn'[a].thread = t /\ conn'[a].requestId = 0
    BY <1>2, <1>6, <1>9, <1>10, <1>16 DEF Local, PoolOK
  <2> QED BY <1>2, <1>6, <1>9, <2>1, <2>2, <2>3, <2>4 DEF Local, PoolOK
<1>18. \A j : Mapped(j)' <=> Mapped(j)
  BY <1>1 DEF Mapped
<1>19. QueueOK(t)' /\ ListOK(t)'
  BY <1>1, <1>2, <1>6, <1>9, <1>10, <1>13, <1>18 DEF Local, QueueOK, ListOK
<1>20. Taken(t, c)'
  BY <1>1, <1>4, <1>6, <1>8, <1>9, <1>10, <1>13, <1>16 DEF Taken
<1>21. th[t].closing # NULL => Taken(t, th[t].closing) /\ th[t].closing # c
  BY <1>1, <1>4, ThreadsAssumption DEF Local, HandOK, Hand, Taken, At, Connecting
<1>22. \A a : a # c /\ Taken(t, a) => Taken(t, a)'
  BY <1>1, <1>6, <1>9, <1>10 DEF Taken
<1>23. HandOK(t)'
  BY <1>1, <1>2, <1>6, <1>7, <1>9, <1>18, <1>20, <1>21, <1>22,
     ThreadsAssumption, <1>4
     DEF Local, HandOK, Hand, At, Connecting
<1>24. KeptOK(t)'
  BY <1>1, <1>6, <1>7, <1>9, <1>18 DEF Local, KeptOK, At, Connecting
<1> QED BY <1>9, <1>11, <1>12, <1>14, <1>15, <1>17, <1>19, <1>23, <1>24, Combine DEF Local

LEMMA ConnectReusesInv ==
  ASSUME IInv, NEW t \in Threads, ConnectReuses(t)
  PROVE  IInv'
<1> USE DEF IInv
<1>1. /\ At(t, "connect") /\ Data(t) # NULL /\ Data(t).idle # <<>>
      /\ UNCHANGED <<threadKey, keys, list, nextId, idMutex, conn, req, failures>>
  BY DEF ConnectReuses, PoolIdle
<1>2. /\ threadKey[t] # 0 /\ Ready(t) /\ threadKey[t] \in Keys
      /\ Data(t) \in ThreadData /\ th[t] \in Locals
      /\ Data(t).idle \in Seq(Conns)
      /\ Elements(Data(t).queue) \subseteq Requests
      /\ Injective(Data(t).idle)
  BY <1>1, AtWork DEF At, Local, PoolOK
<1>3. PICK c \in Conns :
        /\ c = Head(Data(t).idle) /\ c \in Elements(Data(t).idle)
        /\ Tail(Data(t).idle) \in Seq(Conns) /\ Injective(Tail(Data(t).idle))
        /\ Elements(Tail(Data(t).idle)) = Elements(Data(t).idle) \ {c}
  BY <1>1, <1>2, ListTail
<1> DEFINE d == [Data(t) EXCEPT !.idle = Tail(@)]
           l == [th[t] EXCEPT !.pc = "lockid", !.conn = c]
<1>4. conn[c].thread = t /\ conn[c].requestId = 0
  BY <1>2, <1>3 DEF Local, PoolOK
<1>5. data' = [data EXCEPT ![t][threadKey[t]] = d] /\ Go(t, l)
  BY <1>3 DEF Data, ConnectReuses
<1>6. d \in ThreadData /\ d.pool = Data(t).pool /\ d.idle = Tail(Data(t).idle)
      /\ d.queue = Data(t).queue
  BY <1>2, <1>3 DEF ThreadData
<1>7. /\ l \in Locals /\ l.pc = "lockid" /\ l.conn = c /\ l.req = th[t].req
      /\ l.closing = th[t].closing
  BY <1>2 DEF Locals, Stages
<1> HIDE DEF d, l
<1>8. /\ KeysOK' /\ data' \in [Threads -> [Keys -> ThreadData \cup {NULL}]]
      /\ th' \in [Threads -> Locals] /\ th'[t] = l
      /\ \A u \in Threads : u # t => th'[u] = th[u]
      /\ \A u \in Threads : Ready(u)' = Ready(u)
      /\ \A u \in Threads : u # t => Data(u)' = Data(u)
      /\ Data(t)' = d
  BY <1>1, <1>2, <1>5, <1>6, <1>7, DataSet
<1>9. Types'
  BY <1>1, <1>8 DEF Types
<1>10. IdsOK'
  BY <1>1, <1>5, <1>7, IdsKept DEF At
<1>11. FreshOK' /\ Elsewhere(t)
  BY <1>1, <1>8 DEF FreshOK, Elsewhere
<1>12. PoolOK(t)'
  BY <1>1, <1>2, <1>3, <1>6, <1>8 DEF Local, PoolOK
<1>13. \A j : Mapped(j)' <=> Mapped(j)
  BY <1>1 DEF Mapped
<1>14. QueueOK(t)' /\ ListOK(t)'
  BY <1>1, <1>2, <1>6, <1>8, <1>13 DEF Local, QueueOK, ListOK
<1>15. \A e \in list : e.conn # c
  BY <1>4 DEF Local, ListOK, Types, EntrySet
<1>16. Taken(t, c)'
  BY <1>1, <1>3, <1>4, <1>6, <1>8, <1>15 DEF Taken
<1>17. \A a : Taken(t, a) => Taken(t, a)' /\ a # c
  BY <1>1, <1>3, <1>6, <1>8 DEF Taken
<1>18. HandOK(t)'
  BY <1>1, <1>2, <1>3, <1>6, <1>7, <1>8, <1>13, <1>16, <1>17, ThreadsAssumption
     DEF Local, HandOK, Hand, At, Connecting
<1>19. KeptOK(t)'
  BY <1>1, <1>6, <1>7, <1>8, <1>13 DEF Local, KeptOK, At, Connecting
<1> QED BY <1>8, <1>9, <1>10, <1>11, <1>12, <1>14, <1>18, <1>19, Combine DEF Local

\* The request is added to the queue.
LEMMA EnqueueInv ==
  ASSUME IInv, NEW t \in Threads, At(t, "connect"), Len(Data(t).queue) < QueueSize,
         data' = [data EXCEPT ![t][threadKey[t]].queue = Append(@, th[t].req)],
         Go(t, Returned(t)),
         UNCHANGED <<threadKey, keys, list, nextId, idMutex, conn, req>>
  PROVE  IInv'
<1> USE DEF IInv
<1>1. /\ threadKey[t] # 0 /\ Ready(t) /\ threadKey[t] \in Keys
      /\ Data(t) \in ThreadData /\ th[t] \in Locals
      /\ Data(t).queue \in Seq(Requests)
      /\ Elements(Data(t).queue) \subseteq Requests
  BY AtWork DEF At
<1>2. PICK i \in Requests :
        /\ i = th[t].req /\ Home[i] = t /\ req[i].phase = "open" /\ ~Mapped(i)
        /\ i \notin Elements(Data(t).queue)
  BY <1>1 DEF Local, HandOK, Hand, At, Connecting
<1> DEFINE d == [Data(t) EXCEPT !.queue = Append(@, i)]
           l == Returned(t)
<1>3. /\ Append(Data(t).queue, i) \in Seq(Requests)
      /\ Injective(Append(Data(t).queue, i))
      /\ Elements(Append(Data(t).queue, i)) = Elements(Data(t).queue) \cup {i}
      /\ Len(Append(Data(t).queue, i)) <= QueueSize
  <2>1. Injective(Data(t).queue)
    BY <1>1 DEF Local, QueueOK
  <2>2. Len(Append(Data(t).queue, i)) <= QueueSize
    BY <1>1, ThreadsAssumption
  <2> QED BY <1>1, <1>2, <2>1, <2>2, ListAppend
<1>5. data' = [data EXCEPT ![t][threadKey[t]] = d] /\ Go(t, l)
  BY <1>2 DEF Data
<1>6. d \in ThreadData /\ d.pool = Data(t).pool /\ d.idle = Data(t).idle
      /\ d.queue = Append(Data(t).queue, i)
  BY <1>1, <1>3 DEF ThreadData
<1>7. /\ l \in Locals
      /\ \/ l.pc = "idle"
         \/ /\ l.pc = "close" /\ l.conn = th[t].closing
            /\ th[t].closing \in Conns /\ conn[th[t].closing].thread = t
  BY ReturnedType DEF At, Connecting
<1> HIDE DEF d, l
<1>8. /\ KeysOK' /\ data' \in [Threads -> [Keys -> ThreadData \cup {NULL}]]
      /\ th' \in [Threads -> Locals] /\ th'[t] = l
      /\ \A u \in Threads : u # t => th'[u] = th[u]
      /\ \A u \in Threads : Ready(u)' = Ready(u)
      /\ \A u \in Threads : u # t => Data(u)' = Data(u)
      /\ Data(t)' = d
  BY <1>1, <1>5, <1>6, <1>7, DataSet
<1>9. Types'
  BY <1>8 DEF Types
<1>10. IdsOK'
  <2>1. l.pc \notin {"bumpid", "bind"} /\ ~At(t, "bumpid") /\ l \in Locals /\ Go(t, l)
    BY <1>5, <1>7 DEF At
  <2> QED BY <2>1, IdsKept
<1>11. FreshOK' /\ Elsewhere(t)
  BY <1>8 DEF FreshOK, Elsewhere
<1>12. PoolOK(t)'
  BY <1>1, <1>6, <1>8 DEF Local, PoolOK
<1>13. \A j : Mapped(j)' <=> Mapped(j)
  BY DEF Mapped
<1>14. QueueOK(t)' /\ ListOK(t)'
  <2>1. \A j \in Elements(Data(t)'.queue) :
          Home[j] = t /\ req'[j].phase = "open" /\ ~Mapped(j)'
    <3>1. \A j \in Elements(Data(t).queue) \cup {i} :
            Home[j] = t /\ req[j].phase = "open" /\ ~Mapped(j)
      BY <1>1, <1>2 DEF Local, QueueOK
    <3> QED BY <1>3, <1>6, <1>8, <1>13, <3>1
  <2>2. Injective(Data(t)'.queue) /\ Len(Data(t)'.queue) <= QueueSize
    BY <1>3, <1>6, <1>8
  <2>3. ListOK(t)'
    BY DEF Local, ListOK
  <2> QED BY <2>1, <2>2, <2>3 DEF QueueOK
<1>15. HandOK(t)'
  BY <1>7, <1>8 DEF HandOK, Hand, Connecting
<1>16. KeptOK(t)'
  BY <1>1, <1>2, <1>3, <1>6, <1>7, <1>8, <1>13 DEF Local, KeptOK, Connecting
<1> QED BY <1>8, <1>9, <1>10, <1>11, <1>12, <1>14, <1>15, <1>16, Combine DEF Local

\* The request is dropped.
LEMMA DropInv ==
  ASSUME IInv, NEW t \in Threads, At(t, "connect"),
         req' = [req EXCEPT ![th[t].req].phase = "dropped"],
         Go(t, Returned(t)),
         UNCHANGED <<threadKey, keys, data, list, nextId, idMutex, conn>>
  PROVE  IInv'
<1> USE DEF IInv
<1>1. /\ threadKey[t] # 0 /\ Ready(t)
      /\ Data(t) \in ThreadData /\ th[t] \in Locals
      /\ Elements(Data(t).queue) \subseteq Requests
  BY AtWork DEF At
<1>2. PICK i \in Requests :
        /\ i = th[t].req /\ Home[i] = t /\ req[i].phase = "open" /\ ~Mapped(i)
        /\ i \notin Elements(Data(t).queue)
  BY <1>1 DEF Local, HandOK, Hand, At, Connecting
<1> DEFINE l == Returned(t)
<1>3. /\ l \in Locals
      /\ \/ l.pc = "idle"
         \/ /\ l.pc = "close" /\ l.conn = th[t].closing
            /\ th[t].closing \in Conns /\ conn[th[t].closing].thread = t
  BY ReturnedType DEF At, Connecting
<1> HIDE DEF l
<1>4. /\ KeysOK' /\ th' \in [Threads -> Locals] /\ th'[t] = l
      /\ \A u \in Threads : u # t => th'[u] = th[u]
      /\ \A u \in Threads : Ready(u)' = Ready(u) /\ Data(u)' = Data(u)
  BY <1>1, <1>3, DataKept DEF At, l
<1>5. /\ req' \in [Requests -> Request]
      /\ \A j \in Requests : req'[j].id = req[j].id
      /\ req'[i].phase = "dropped" /\ \A j \in Requests : j # i => req'[j] = req[j]
  BY <1>2 DEF Types, Request
<1>6. Types'
  BY <1>4, <1>5 DEF Types
<1>7. IdsOK'
  BY <1>3, <1>5, IdsKept DEF At, l
<1>8. FreshOK' /\ Elsewhere(t)
  BY <1>2, <1>4, <1>5 DEF FreshOK, Elsewhere
<1>9. \A e \in list : e.req \in Requests /\ e.req # i
  BY <1>2 DEF Types, EntrySet, Mapped
<1>10. \A j : Mapped(j)' <=> Mapped(j)
  BY DEF Mapped
<1>11. PoolOK(t)'
  BY <1>1, <1>4 DEF Local, PoolOK
<1>12. QueueOK(t)' /\ ListOK(t)'
  BY <1>1, <1>2, <1>4, <1>5, <1>9, <1>10 DEF Local, QueueOK, ListOK
<1>13. HandOK(t)'
  BY <1>3, <1>4 DEF HandOK, Hand, Connecting
<1>14. KeptOK(t)'
  BY <1>2, <1>4, <1>5, <1>10 DEF Local, KeptOK, At, Connecting
<1> QED BY <1>4, <1>6, <1>7, <1>8, <1>11, <1>12, <1>13, <1>14, Combine DEF Local

LEMMA ConnectQueuesInv ==
  ASSUME IInv, NEW t \in Threads, ConnectQueues(t)
  PROVE  IInv'
<1>1. At(t, "connect") /\ Data(t) # NULL
  BY AtWork DEF ConnectQueues, At
<1>2. CASE Len(Data(t).queue) < QueueSize
  BY <1>1, <1>2, EnqueueInv DEF ConnectQueues
<1>3. CASE ~(Len(Data(t).queue) < QueueSize)
  BY <1>1, <1>3, DropInv DEF ConnectQueues
<1> QED BY <1>2, <1>3

LEMMA LockIdInv ==
  ASSUME IInv, NEW t \in Threads, LockId(t)
  PROVE  IInv'
<1> USE DEF IInv
<1> DEFINE l == [th[t] EXCEPT !.pc = "bumpid", !.id = nextId]
<1>1. /\ At(t, "lockid") /\ idMutex = NULL /\ idMutex' = t /\ Go(t, l)
      /\ UNCHANGED <<threadKey, keys, data, list, nextId, conn, req, failures>>
  BY DEF LockId
<1>2. threadKey[t] # 0 /\ th[t] \in Locals /\ nextId \in Nat \ {0}
  BY <1>1, AtWork DEF At, Types
<1>3. /\ l \in Locals /\ l.pc = "bumpid" /\ l.id = nextId /\ l.req = th[t].req
      /\ l.conn = th[t].conn /\ l.closing = th[t].closing
  BY <1>2 DEF Locals, Stages
<1> HIDE DEF l
<1>4. th'[t] = l /\ \A u \in Threads : u # t => th'[u] = th[u]
  BY <1>1 DEF Go, Types
<1>5. \A u \in Threads : /\ At(u, "bumpid")' <=> u = t
                         /\ At(u, "bind")' <=> At(u, "bind") /\ u # t
  BY <1>1, <1>3, <1>4 DEF IdsOK, At
<1>6. IdsOK'
  <2>1. {u \in Threads : At(u, "bumpid")'} = {idMutex'} \ {NULL}
    BY <1>1, <1>5, ThreadsAssumption
  <2>2. \A u \in Threads : At(u, "bumpid")' => th'[u].id = nextId'
    BY <1>1, <1>3, <1>4, <1>5
  <2>3. \A u \in Threads : At(u, "bind")' =>
          /\ th'[u].id \in 1 .. nextId' - 1
          /\ \A c \in Conns : conn'[c].requestId # th'[u].id
          /\ \A i \in Requests : req'[i].id # th'[u].id
          /\ \A v \in Threads : At(v, "bind")' /\ th'[v].id = th'[u].id => v = u
    BY <1>1, <1>4, <1>5 DEF IdsOK
  <2>4. /\ \A c \in Conns : conn'[c].requestId < nextId'
        /\ \A i \in Requests : req'[i].id < nextId'
        /\ \A c, d \in Conns :
             conn'[c].requestId = conn'[d].requestId /\ conn'[c].requestId # 0 => c = d
        /\ \A i, j \in Requests : req'[i].id = req'[j].id /\ req'[i].id # 0 => i = j
    BY <1>1 DEF IdsOK
  <2> QED BY <2>1, <2>2, <2>3, <2>4 DEF IdsOK
<1>7. Hand(t, l)
  BY <1>1, <1>3 DEF Local, HandOK, Hand, At, Connecting
<1> QED BY <1>1, <1>2, <1>3, <1>6, <1>7, HandMove DEF At, Connecting

\* The id is new: what others have is below the counter.
LEMMA BumpIdInv ==
  ASSUME IInv, NEW t \in Threads, BumpId(t)
  PROVE  IInv'
<1> USE DEF IInv
<1> DEFINE l == [th[t] EXCEPT !.pc = "bind"]
<1>1. /\ At(t, "bumpid") /\ idMutex' = NULL /\ Go(t, l) /\ nextId' = th[t].id + 1
      /\ UNCHANGED <<threadKey, keys, data, list, conn, req, failures>>
  BY DEF BumpId
<1>2. threadKey[t] # 0 /\ th[t] \in Locals /\ nextId \in Nat \ {0}
      /\ th[t].id = nextId /\ nextId' = nextId + 1
  BY <1>1, AtWork DEF At, Types, IdsOK
<1>3. /\ l \in Locals /\ l.pc = "bind" /\ l.id = nextId /\ l.req = th[t].req
      /\ l.conn = th[t].conn /\ l.closing = th[t].closing
  BY <1>2 DEF Locals, Stages
<1> HIDE DEF l
<1>4. th'[t] = l /\ \A u \in Threads : u # t => th'[u] = th[u]
  BY <1>1 DEF Go, Types
<1>5. \A u \in Threads : At(u, "bumpid") => u = t
  BY <1>1, ThreadsAssumption DEF IdsOK
<1>6. \A u \in Threads : /\ ~At(u, "bumpid")'
                         /\ At(u, "bind")' <=> At(u, "bind") \/ u = t
  BY <1>1, <1>3, <1>4, <1>5 DEF At
<1>7. /\ \A c \in Conns : conn[c].requestId \in Nat /\ conn[c].requestId < nextId
      /\ \A i \in Requests : req[i].id \in Nat /\ req[i].id < nextId
  BY DEF Types, Connection, Request, IdsOK
<1>8. \A u \in Threads : At(u, "bind") => th[u].id \in 1 .. nextId - 1 /\ u # t
  BY <1>1 DEF IdsOK, At
<1>9. IdsOK'
  <2>1. {u \in Threads : At(u, "bumpid")'} = {idMutex'} \ {NULL}
    BY <1>1, <1>6
  <2>2. \A u \in Threads : At(u, "bumpid")' => th'[u].id = nextId'
    BY <1>6
  <2>3. ASSUME NEW u \in Threads, At(u, "bind")'
        PROVE  /\ th'[u].id \in 1 .. nextId' - 1
               /\ \A c \in Conns : conn'[c].requestId # th'[u].id
               /\ \A i \in Requests : req'[i].id # th'[u].id
               /\ \A v \in Threads : At(v, "bind")' /\ th'[v].id = th'[u].id => v = u
    <3>1. CASE u = t
      <4>1. th'[u].id = nextId
        BY <1>3, <1>4, <3>1
      <4>2. \A v \in Threads : At(v, "bind")' /\ v # t => th'[v].id < nextId
        BY <1>2, <1>4, <1>6, <1>8
      <4>3. nextId \in 1 .. nextId' - 1
        BY <1>2
      <4>4. \A v \in Threads : At(v, "bind")' /\ th'[v].id = th'[u].id => v = u
        BY <1>2, <3>1, <4>1, <4>2
      <4> QED BY <1>1, <1>2, <1>7, <4>1, <4>3, <4>4
    <3>2. CASE u # t
      <4>1. At(u, "bind") /\ th'[u] = th[u]
        BY <1>4, <1>6, <2>3, <3>2
      <4>2. th'[u].id \in 1 .. nextId' - 1 /\ th'[u].id < nextId
        BY <1>2, <1>8, <4>1
      <4>3. \A v \in Threads : At(v, "bind")' /\ th'[v].id = th'[u].id => v = u
        BY <1>2, <1>3, <1>4, <1>6, <4>1, <4>2 DEF IdsOK
      <4> QED BY <1>1, <4>1, <4>2, <4>3 DEF IdsOK
    <3> QED BY <3>1, <3>2
  <2>4. /\ \A c \in Conns : conn'[c].requestId < nextId'
        /\ \A i \in Requests : req'[i].id < nextId'
    BY <1>1, <1>2, <1>7
  <2>5. /\ \A c, d \in Conns :
             conn'[c].requestId = conn'[d].requestId /\ conn'[c].requestId # 0 => c = d
        /\ \A i, j \in Requests : req'[i].id = req'[j].id /\ req'[i].id # 0 => i = j
    BY <1>1 DEF IdsOK
  <2> QED BY <2>1, <2>2, <2>3, <2>4, <2>5 DEF IdsOK
<1>10. Hand(t, l)
  BY <1>1, <1>3 DEF Local, HandOK, Hand, At, Connecting
<1>11. nextId' \in Nat \ {0}
  BY <1>2
<1> QED BY <1>1, <1>2, <1>3, <1>9, <1>10, <1>11, HandMove DEF At, Connecting

\* The entries of the map and the ids of their connections and requests.
LEMMA EntryOf ==
  ASSUME IInv, NEW e \in list
  PROVE  /\ e \in EntrySet /\ e.conn \in Conns /\ e.req \in Requests /\ e.id \in Nat \ {0}
         /\ conn[e.conn].requestId = e.id /\ req[e.req].id = e.id
         /\ conn[e.conn].thread = Home[e.req] /\ Home[e.req] \in Threads
         /\ req[e.req].phase = "open"
<1>1. e \in EntrySet /\ e.conn \in Conns /\ e.req \in Requests /\ e.id \in Nat \ {0}
  BY DEF IInv, Types, EntrySet
<1>2. conn[e.conn].thread \in Threads
  BY DEF IInv, FreshOK
<1>3. ListOK(conn[e.conn].thread)
  BY <1>2 DEF IInv, Local
<1> QED BY <1>1, <1>2, <1>3 DEF ListOK

\* An id, a connection and a request are in one entry at most.
LEMMA EntryUnique ==
  ASSUME IInv, NEW e \in list, NEW f \in list,
         e.id = f.id \/ e.conn = f.conn \/ e.req = f.req
  PROVE  e = f
<1>1. e.id = f.id
  BY EntryOf
<1>2. e.id # 0 /\ e \in EntrySet /\ f \in EntrySet
  BY EntryOf
<1>3. e.conn = f.conn
  BY <1>1, <1>2, EntryOf DEF IInv, IdsOK
<1>4. e.req = f.req
  BY <1>1, <1>2, EntryOf DEF IInv, IdsOK
<1> QED BY <1>1, <1>2, <1>3, <1>4 DEF EntrySet

LEMMA BindInv ==
  ASSUME IInv, NEW t \in Threads, Bind(t)
  PROVE  IInv'
<1> USE DEF IInv
<1>1. /\ At(t, "bind") /\ Go(t, Returned(t))
      /\ UNCHANGED <<threadKey, keys, data, nextId, idMutex, failures>>
  BY DEF Bind
<1>2. /\ threadKey[t] # 0 /\ Ready(t)
      /\ Data(t) \in ThreadData /\ th[t] \in Locals
      /\ Elements(Data(t).idle) \subseteq Conns
      /\ Elements(Data(t).queue) \subseteq Requests
  BY <1>1, AtWork DEF At
<1>3. PICK i \in Requests :
        /\ i = th[t].req /\ Home[i] = t /\ req[i].phase = "open" /\ ~Mapped(i)
        /\ i \notin Elements(Data(t).queue)
  BY <1>1, <1>2 DEF Local, HandOK, Hand, At, Connecting
<1>4. PICK c \in Conns : c = th[t].conn /\ Taken(t, c) /\ c # th[t].closing
  BY <1>1 DEF Local, HandOK, Hand, Taken, At
<1>5. PICK r \in 1 .. nextId - 1 :
        /\ r = th[t].id
        /\ \A a \in Conns : conn[a].requestId # r
        /\ \A j \in Requests : req[j].id # r
        /\ \A u \in Threads : At(u, "bind") /\ th[u].id = r => u = t
  BY <1>1 DEF IdsOK
<1>6. r \in Nat \ {0} /\ nextId \in Nat /\ r < nextId
  BY <1>5 DEF Types
<1> DEFINE l == Returned(t)
           n == [id |-> r, req |-> i, conn |-> c]
<1>7. /\ req' = [req EXCEPT ![i].id = r]
      /\ conn' = [conn EXCEPT ![c].requestId = r,
                              ![c].phase = IF @ = "up" THEN "up" ELSE "dialing"]
      /\ list' = {e \in list : e.id # r} \cup {n}
  BY <1>3, <1>4, <1>5 DEF Bind
<1>8. n \in EntrySet /\ n.id = r /\ n.req = i /\ n.conn = c
  BY <1>6 DEF EntrySet
<1> HIDE DEF n
<1>9. list' = list \cup {n}
  <2>1. \A e \in list : e.id # r
    BY <1>5, EntryOf
  <2> QED BY <1>7, <2>1
<1>10. /\ l \in Locals
       /\ \/ l.pc = "idle"
          \/ /\ l.pc = "close" /\ l.conn = th[t].closing
             /\ th[t].closing \in Conns /\ conn[th[t].closing].thread = t
  BY <1>1, ReturnedType DEF At, Connecting
<1>11. l.pc \notin {"setup", "setspecific", "bumpid", "bind"} /\ Go(t, l)
  BY <1>1, <1>10
<1> HIDE DEF l
<1>12. /\ KeysOK' /\ th' \in [Threads -> Locals] /\ th'[t] = l
       /\ \A u \in Threads : u # t => th'[u] = th[u]
       /\ \A u \in Threads : Ready(u)' = Ready(u) /\ Data(u)' = Data(u)
  BY <1>1, <1>2, <1>10, <1>11, DataKept DEF At
<1>13. /\ req' \in [Requests -> Request]
       /\ req'[i].id = r /\ req'[i].phase = "open"
       /\ \A j \in Requests : j # i => req'[j] = req[j]
  BY <1>3, <1>6, <1>7 DEF Types, Request
<1>14. /\ conn' \in [Conns -> Connection]
       /\ conn'[c].requestId = r /\ conn'[c].thread = t /\ conn'[c].phase # "none"
       /\ \A a \in Conns : a # c => conn'[a] = conn[a]
  <2>1. conn[c] \in Connection /\ conn[c].thread = t
    BY <1>4 DEF Types, Taken
  <2>2. conn'[c] = [conn[c] EXCEPT !.requestId = r,
                      !.phase = IF conn[c].phase = "up" THEN "up" ELSE "dialing"]
    BY <1>7 DEF Types
  <2>3. conn'[c] \in Connection
    BY <1>6, <2>1, <2>2 DEF Connection
  <2>4. \A a \in Conns : a # c => conn'[a] = conn[a]
    BY <1>7 DEF Types
  <2>5. conn' \in [Conns -> Connection]
    <3>1. DOMAIN conn' = Conns /\ conn' = [a \in Conns |-> conn'[a]]
      BY <1>7 DEF Types
    <3> QED BY <2>3, <2>4, <3>1 DEF Types
  <2> QED BY <2>1, <2>2, <2>4, <2>5 DEF Connection
<1>15. Types'
  BY <1>1, <1>8, <1>9, <1>12, <1>13, <1>14 DEF Types
<1>16. IdsOK'
  <2>1. \A u \in Threads : /\ At(u, "bumpid")' <=> At(u, "bumpid")
                           /\ At(u, "bind")' => At(u, "bind") /\ u # t /\ th'[u] = th[u]
    BY <1>1, <1>11, <1>12 DEF At
  <2>2. {u \in Threads : At(u, "bumpid")'} = {idMutex'} \ {NULL}
    BY <1>1, <2>1 DEF IdsOK
  <2>3. \A u \in Threads : At(u, "bumpid")' => th'[u].id = nextId'
    BY <1>1, <1>12, <2>1 DEF IdsOK, At
  <2>4. \A u \in Threads : At(u, "bind")' =>
          /\ th'[u].id \in 1 .. nextId' - 1
          /\ \A a \in Conns : conn'[a].requestId # th'[u].id
          /\ \A j \in Requests : req'[j].id # th'[u].id
          /\ \A v \in Threads : At(v, "bind")' /\ th'[v].id = th'[u].id => v = u
    BY <1>1, <1>5, <1>13, <1>14, <2>1 DEF IdsOK
  <2>5. /\ \A a \in Conns : conn'[a].requestId < nextId'
        /\ \A j \in Requests : req'[j].id < nextId'
    BY <1>1, <1>6, <1>13, <1>14 DEF IdsOK
  <2>6. \A a, b \in Conns :
          conn'[a].requestId = conn'[b].requestId /\ conn'[a].requestId # 0 => a = b
    BY <1>5, <1>14 DEF IdsOK
  <2>7. \A j, k \in Requests : req'[j].id = req'[k].id /\ req'[j].id # 0 => j = k
    BY <1>5, <1>13 DEF IdsOK
  <2> QED BY <2>2, <2>3, <2>4, <2>5, <2>6, <2>7 DEF IdsOK
<1>17. \A e \in list : /\ e.conn \in Conns /\ e.conn # c /\ e.req \in Requests /\ e.req # i
                       /\ conn[e.conn].thread \in Threads
  BY <1>3, <1>4, EntryOf DEF Taken, Mapped
<1>18. FreshOK'
  BY <1>8, <1>9, <1>14, <1>17, ThreadsAssumption DEF FreshOK
<1>19. Elsewhere(t)
  BY <1>3, <1>4, <1>8, <1>9, <1>12, <1>13, <1>14 DEF Elsewhere, Taken
<1>20. Mapped(i)' /\ \A j : j # i => (Mapped(j)' <=> Mapped(j))
  BY <1>8, <1>9 DEF Mapped
<1>21. PoolOK(t)'
  <2>1. {a \in Conns : conn'[a].thread = t} = {a \in Conns : conn[a].thread = t}
    BY <1>4, <1>14 DEF Taken
  <2>2. \A a \in Elements(Data(t).idle) : conn'[a] = conn[a]
    BY <1>2, <1>4, <1>14 DEF Taken
  <2>3. \A a \in Conns : conn'[a].thread = t => Ready(t)' /\ conn'[a].phase # "none"
    BY <1>2, <1>12, <1>14 DEF Local, PoolOK
  <2> QED BY <1>2, <1>12, <2>1, <2>2, <2>3 DEF Local, PoolOK
<1>22. QueueOK(t)'
  BY <1>2, <1>3, <1>12, <1>13, <1>20 DEF Local, QueueOK
<1>23. ListOK(t)'
  BY <1>3, <1>8, <1>9, <1>13, <1>14, <1>17 DEF Local, ListOK
<1>24. HandOK(t)'
  BY <1>4, <1>10, <1>12, <1>14 DEF HandOK, Hand, Connecting
<1>25. KeptOK(t)'
  BY <1>1, <1>3, <1>12, <1>13, <1>20 DEF Local, KeptOK, At
<1> QED BY <1>12, <1>15, <1>16, <1>18, <1>19, <1>21, <1>22, <1>23, <1>24, <1>25,
           Combine DEF Local

-----------------------------------------------------------------------------
(***************************************************************************)
(* The events of connections and of transactions.                          *)
(***************************************************************************)

LEMMA DeliverInv ==
  ASSUME IInv, NEW t \in Threads, NEW c \in Conns, NEW event \in Events \ {"abort", "recycle"},
         Deliver(t, c, event)
  PROVE  IInv'
<1> USE DEF IInv
<1> DEFINE l == [Idle EXCEPT !.pc = "find", !.event = event, !.conn = c]
<1>1. /\ At(t, "idle") /\ conn[c].thread = t /\ Go(t, l)
      /\ UNCHANGED <<threadKey, keys, data, list, nextId, idMutex, conn, req>>
  BY DEF Deliver
<1>2. event \in {"connect", "read", "failed", "eos"}
  BY ThreadsAssumption DEF EventKinds
<1>3. l \in Locals /\ l.pc = "find" /\ l.event = event /\ l.conn = c
  BY <1>2 DEF Idle, Locals, Stages, EventKinds
<1> HIDE DEF l
<1>4. Ready(t) /\ threadKey[t] # 0
  BY <1>1 DEF Local, PoolOK, Ready
<1>5. IdsOK'
  BY <1>1, <1>3, IdsKept DEF At
<1>6. Hand(t, l)
  BY <1>1, <1>2, <1>3 DEF Hand, Connecting
<1>7. nextId' \in Nat \ {0}
  BY <1>1 DEF Types
<1> QED BY <1>1, <1>3, <1>4, <1>5, <1>6, <1>7, HandMove DEF At, Connecting

LEMMA AbortInv ==
  ASSUME IInv, NEW t \in Threads, NEW i \in Requests, Abort(t, i)
  PROVE  IInv'
<1> USE DEF IInv
<1> DEFINE l == [Idle EXCEPT !.pc = "remove", !.req = i]
<1>1. /\ At(t, "idle") /\ Home[i] = t /\ Go(t, l) /\ \E e \in list : e.req = i
      /\ UNCHANGED <<threadKey, keys, data, list, nextId, idMutex, conn, req>>
  BY DEF Abort
<1>3. l \in Locals /\ l.pc = "remove" /\ l.req = i
  BY DEF Idle, Locals, Stages, EventKinds
<1> HIDE DEF l
<1>4. Ready(t) /\ threadKey[t] # 0
  BY <1>1, EntryOf DEF Local, PoolOK, Ready
<1>5. IdsOK'
  BY <1>1, <1>3, IdsKept DEF At
<1>6. Hand(t, l)
  BY <1>1, <1>3 DEF Hand, Connecting
<1>7. nextId' \in Nat \ {0}
  BY <1>1 DEF Types
<1> QED BY <1>1, <1>3, <1>4, <1>5, <1>6, <1>7, HandMove DEF At, Connecting

\* The entry found is the one of the connection.
LEMMA FindInv ==
  ASSUME IInv, NEW t \in Threads, Find(t)
  PROVE  IInv'
<1> USE DEF IInv
<1> DEFINE found == Entries(conn[th[t].conn].requestId)
           itr == IF found = {} THEN NULL ELSE CHOOSE e \in found : TRUE
           l == [th[t] EXCEPT !.pc = "deref", !.itr = itr]
<1>1. /\ At(t, "find") /\ Go(t, l)
      /\ UNCHANGED <<threadKey, keys, data, list, nextId, idMutex, conn, req>>
  BY DEF Find
<1>2. /\ threadKey[t] # 0 /\ th[t] \in Locals
      /\ th[t].conn \in Conns /\ conn[th[t].conn].thread = t
      /\ th[t].event \in {"connect", "read", "failed", "eos"}
  BY <1>1, AtWork DEF At, Local, HandOK, Hand
<1>3. \A e \in found : e \in list /\ e \in EntrySet /\ e.conn = th[t].conn
  <2> TAKE e \in found
  <2>1. e \in list /\ e.id = conn[th[t].conn].requestId
    BY DEF Entries
  <2> QED BY <1>2, <2>1, EntryOf DEF IdsOK
<1>4. \/ itr = NULL
      \/ itr \in list /\ itr \in EntrySet /\ itr.conn = th[t].conn
  BY <1>3
<1> HIDE DEF found, itr
<1>5. /\ l \in Locals /\ l.pc = "deref" /\ l.itr = itr /\ l.conn = th[t].conn
      /\ l.event = th[t].event
  BY <1>2, <1>4 DEF Locals, Stages
<1> HIDE DEF l
<1>6. IdsOK'
  BY <1>1, <1>5, IdsKept DEF At
<1>7. Hand(t, l)
  BY <1>2, <1>4, <1>5 DEF Hand, Connecting
<1>8. nextId' \in Nat \ {0}
  BY <1>1 DEF Types
<1> QED BY <1>1, <1>2, <1>5, <1>6, <1>7, <1>8, HandMove DEF At, Connecting

LEMMA DerefOtherInv ==
  ASSUME IInv, NEW t \in Threads, DerefOther(t)
  PROVE  IInv'
<1> USE DEF IInv
<1>1. /\ At(t, "deref") /\ th[t].event \in {"read", "failed", "eos"}
      /\ UNCHANGED <<threadKey, keys, data, list, nextId, idMutex, conn, req>>
  BY DEF DerefOther
<1>2. /\ threadKey[t] # 0 /\ th[t] \in Locals
      /\ th[t].conn \in Conns /\ conn[th[t].conn].thread = t
  BY <1>1, AtWork DEF At, Local, HandOK, Hand
<1>3. Found(t) # NULL =>
        /\ Found(t) \in Requests /\ Home[Found(t)] = t
        /\ \E e \in list : e.conn = th[t].conn /\ e.req = Found(t)
  <2>1. SUFFICES ASSUME th[t].itr # NULL
                 PROVE  /\ th[t].itr.req \in Requests /\ Home[th[t].itr.req] = t
                        /\ th[t].itr \in list /\ th[t].itr.conn = th[t].conn
    BY DEF Found
  <2>2. th[t].itr \in list /\ th[t].itr.conn = th[t].conn
    BY <1>1, <2>1 DEF At, Local, HandOK, Hand
  <2> QED BY <1>2, <2>2, EntryOf
<1>4. Found(t) \in Requests \cup {NULL}
  BY <1>3
<1>5. PICK l :
        /\ Go(t, l)
        /\ \/ /\ Found(t) # NULL
              /\ \/ l = [th[t] EXCEPT !.pc = "remove", !.req = Found(t)]
                 \/ l = [th[t] EXCEPT !.pc = "erase", !.req = Found(t)]
           \/ l = Idle
           \/ l = [th[t] EXCEPT !.pc = "close", !.req = Found(t)]
  BY <1>1 DEF DerefOther
<1>6. /\ l \in Locals
      /\ \/ l.pc = "idle"
         \/ l.pc = "remove" /\ l.req = Found(t) /\ Found(t) # NULL
         \/ l.pc = "erase" /\ l.req = Found(t) /\ Found(t) # NULL /\ l.conn = th[t].conn
         \/ l.pc = "close" /\ l.conn = th[t].conn
  <2> DEFINE m(pc) == [th[t] EXCEPT !.pc = pc, !.req = Found(t)]
  <2>1. \A pc \in Stages : /\ m(pc) \in Locals /\ m(pc).pc = pc
                            /\ m(pc).req = Found(t) /\ m(pc).conn = th[t].conn
    BY <1>2, <1>4 DEF Locals
  <2>2. Idle \in Locals /\ Idle.pc = "idle"
    BY DEF Idle, Locals, Stages
  <2>3. \/ l = Idle \/ l = m("close")
        \/ Found(t) # NULL /\ (l = m("remove") \/ l = m("erase"))
    BY <1>5
  <2> HIDE DEF m
  <2>4. {"close", "remove", "erase"} \subseteq Stages
    BY DEF Stages
  <2> QED BY <2>1, <2>2, <2>3, <2>4
<1>7. /\ l.pc \notin {"setup", "setspecific", "bumpid", "bind"}
      /\ ~At(t, "bumpid") /\ ~At(t, "setspecific") /\ th[t].pc \notin Connecting
  BY <1>1, <1>6 DEF At, Connecting
<1>8. IdsOK'
  BY <1>1, <1>5, <1>6, <1>7, IdsKept
<1>9. Hand(t, l)
  BY <1>2, <1>3, <1>6 DEF Hand, Connecting
<1>10. nextId' \in Nat \ {0}
  BY <1>1 DEF Types
<1> QED BY <1>1, <1>2, <1>5, <1>6, <1>7, <1>8, <1>9, <1>10, HandMove

LEMMA DerefConnectInv ==
  ASSUME IInv, NEW t \in Threads, DerefConnect(t)
  PROVE  IInv'
<1> USE DEF IInv
<1>1. /\ At(t, "deref") /\ Go(t, Idle)
      /\ conn' = [conn EXCEPT ![th[t].conn].phase = "up"]
      /\ UNCHANGED <<threadKey, keys, data, list, nextId, idMutex, req>>
  BY DEF DerefConnect
<1>2. /\ threadKey[t] # 0 /\ Ready(t) /\ Elements(Data(t).idle) \subseteq Conns
      /\ th[t].conn \in Conns /\ conn[th[t].conn].thread = t
  BY <1>1, AtWork DEF At, Local, HandOK, Hand
<1>3. Idle \in Locals /\ Idle.pc = "idle"
  BY DEF Idle, Locals, Stages
<1>4. /\ KeysOK' /\ th' \in [Threads -> Locals] /\ th'[t] = Idle
      /\ \A u \in Threads : u # t => th'[u] = th[u]
      /\ \A u \in Threads : Ready(u)' = Ready(u) /\ Data(u)' = Data(u)
  BY <1>1, <1>3, DataKept DEF At
<1>5. /\ conn' \in [Conns -> Connection]
      /\ conn'[th[t].conn].phase = "up"
      /\ \A a \in Conns : /\ conn'[a].thread = conn[a].thread
                          /\ conn'[a].requestId = conn[a].requestId
                          /\ a # th[t].conn => conn'[a] = conn[a]
  BY <1>1, <1>2 DEF Types, Connection
<1>6. Types'
  BY <1>1, <1>4, <1>5 DEF Types
<1>7. IdsOK'
  BY <1>1, <1>3, <1>5, IdsKept DEF At
<1>8. \A e \in list : e.conn \in Conns
  BY EntryOf
<1>9. FreshOK'
  BY <1>1, <1>2, <1>5, <1>8, ThreadsAssumption DEF FreshOK
<1>10. Elsewhere(t)
  BY <1>1, <1>2, <1>4, <1>5 DEF Elsewhere
<1>11. PoolOK(t)'
  BY <1>2, <1>4, <1>5 DEF Local, PoolOK
<1>12. \A j : Mapped(j)' <=> Mapped(j)
  BY <1>1 DEF Mapped
<1>13. QueueOK(t)' /\ ListOK(t)'
  BY <1>1, <1>4, <1>5, <1>8, <1>12 DEF Local, QueueOK, ListOK
<1>14. HandOK(t)'
  BY <1>3, <1>4 DEF HandOK, Hand, Connecting
<1>15. KeptOK(t)'
  BY <1>1, <1>4, <1>12 DEF Local, KeptOK, At, Connecting
<1> QED BY <1>4, <1>6, <1>7, <1>9, <1>10, <1>11, <1>13, <1>14, <1>15, Combine DEF Local

\* reConnect forgets the one entry of the connection and has its request in hand.
LEMMA EraseInv ==
  ASSUME IInv, NEW t \in Threads, Erase(t)
  PROVE  IInv'
<1> USE DEF IInv
<1>1. /\ At(t, "erase")
      /\ list' = list \ Entries(conn[th[t].conn].requestId)
      /\ Go(t, [Idle EXCEPT !.pc = "connect", !.req = th[t].req, !.closing = th[t].conn])
      /\ UNCHANGED <<threadKey, keys, data, nextId, idMutex, conn, req>>
  BY DEF Erase
<1>2. /\ threadKey[t] # 0 /\ Ready(t) /\ Elements(Data(t).queue) \subseteq Requests
      /\ Elements(Data(t).idle) \subseteq Conns
  BY <1>1, AtWork DEF At
<1>3. PICK e \in list : e.conn = th[t].conn /\ e.req = th[t].req
  BY <1>1 DEF At, Local, HandOK, Hand
<1>4. PICK c \in Conns : c = e.conn /\ conn[c].thread = t
  BY <1>1, <1>3, EntryOf DEF At, Local, HandOK, Hand
<1>5. PICK i \in Requests : i = e.req /\ Home[i] = t /\ req[i].phase = "open"
  BY <1>3, <1>4, EntryOf
<1>6. e.id # 0 /\ conn[c].requestId = e.id
  BY <1>4, EntryOf
<1>7. list' = list \ {e}
  <2>1. Entries(conn[th[t].conn].requestId) = {e}
    BY <1>3, <1>4, <1>6, EntryUnique DEF Entries
  <2> QED BY <1>1, <2>1
<1> DEFINE l == [Idle EXCEPT !.pc = "connect", !.req = i, !.closing = c]
<1>8. l \in Locals /\ l.pc = "connect" /\ l.req = i /\ l.closing = c /\ Go(t, l)
  BY <1>1, <1>3, <1>4, <1>5 DEF Idle, Locals, Stages
<1> HIDE DEF l
<1>9. /\ KeysOK' /\ th' \in [Threads -> Locals] /\ th'[t] = l
      /\ \A u \in Threads : u # t => th'[u] = th[u]
      /\ \A u \in Threads : Ready(u)' = Ready(u) /\ Data(u)' = Data(u)
  BY <1>1, <1>2, <1>8, DataKept DEF At
<1>10. Types'
  BY <1>1, <1>7, <1>9 DEF Types
<1>11. IdsOK'
  BY <1>1, <1>8, IdsKept DEF At
<1>12. FreshOK' /\ Elsewhere(t)
  BY <1>1, <1>5, <1>7, <1>9 DEF FreshOK, Elsewhere
<1>13. ~Mapped(i)' /\ \A j : j # i => (Mapped(j)' <=> Mapped(j))
  BY <1>5, <1>7, EntryUnique DEF Mapped
<1>14. Taken(t, c)'
  <2>1. c \notin Elements(Data(t).idle)
    BY <1>2, <1>6 DEF Local, PoolOK
  <2>2. \A f \in list' : f.conn # c
    BY <1>4, <1>7, EntryUnique
  <2> QED BY <1>1, <1>4, <1>9, <2>1, <2>2 DEF Taken
<1>15. i \notin Elements(Data(t).queue)
  BY <1>2, <1>5 DEF Local, QueueOK, Mapped
<1>16. PoolOK(t)'
  BY <1>1, <1>9 DEF Local, PoolOK
<1>17. QueueOK(t)'
  BY <1>1, <1>2, <1>9, <1>13, <1>15 DEF Local, QueueOK
<1>18. ListOK(t)'
  BY <1>1, <1>7 DEF Local, ListOK
<1>19. HandOK(t)'
  BY <1>1, <1>2, <1>5, <1>8, <1>9, <1>13, <1>14, <1>15 DEF HandOK, Hand, Connecting
<1>20. KeptOK(t)'
  BY <1>1, <1>8, <1>9, <1>13 DEF Local, KeptOK, At, Connecting
<1> QED BY <1>9, <1>10, <1>11, <1>12, <1>16, <1>17, <1>18, <1>19, <1>20, Combine DEF Local

\* removeIntercept forgets the one entry of the request and has its connection
\* in hand.
LEMMA RemoveInv ==
  ASSUME IInv, NEW t \in Threads, Remove(t)
  PROVE  IInv'
<1> USE DEF IInv
<1>1. /\ At(t, "remove") /\ UNCHANGED <<threadKey, keys, data, nextId, idMutex, conn>>
  BY DEF Remove
<1>2. /\ threadKey[t] # 0 /\ Ready(t) /\ Elements(Data(t).queue) \subseteq Requests
      /\ Elements(Data(t).idle) \subseteq Conns /\ th[t] \in Locals
  BY <1>1, AtWork DEF At
<1>3. PICK e \in list : e.req = th[t].req /\ Home[e.req] = t
  BY <1>1 DEF At, Local, HandOK, Hand
<1>4. PICK c \in Conns : c = e.conn /\ conn[c].thread = t /\ conn[c].requestId # 0
  BY <1>3, EntryOf
<1>5. PICK i \in Requests : /\ i = th[t].req /\ i = e.req /\ Home[i] = t
                            /\ req[i].phase = "open" /\ req[i].id = e.id
  BY <1>3, EntryOf
<1>6. Entries(req[th[t].req].id) = {e}
  BY <1>5, EntryUnique DEF Entries
<1> DEFINE l == [th[t] EXCEPT !.pc = "release", !.conn = c]
<1>7. /\ list' = list \ {e} /\ Go(t, l)
      /\ req' = [req EXCEPT ![i].phase = "over"]
  <2>1. (CHOOSE f \in {e} : TRUE) = e /\ {e} # {}
    OBVIOUS
  <2> QED BY <1>4, <1>5, <1>6, <2>1 DEF Remove
<1>8. l \in Locals /\ l.pc = "release" /\ l.conn = c
  BY <1>2 DEF Locals, Stages
<1> HIDE DEF l
<1>9. /\ KeysOK' /\ th' \in [Threads -> Locals] /\ th'[t] = l
      /\ \A u \in Threads : u # t => th'[u] = th[u]
      /\ \A u \in Threads : Ready(u)' = Ready(u) /\ Data(u)' = Data(u)
  BY <1>1, <1>2, <1>7, <1>8, DataKept DEF At
<1>10. /\ req' \in [Requests -> Request]
       /\ \A j \in Requests : req'[j].id = req[j].id
       /\ req'[i].phase = "over" /\ \A j \in Requests : j # i => req'[j] = req[j]
  BY <1>7 DEF Types, Request
<1>11. Types'
  BY <1>1, <1>7, <1>9, <1>10 DEF Types
<1>12. IdsOK'
  BY <1>1, <1>7, <1>8, <1>10, IdsKept DEF At
<1>13. FreshOK' /\ Elsewhere(t)
  BY <1>1, <1>5, <1>7, <1>9, <1>10 DEF FreshOK, Elsewhere
<1>14. ~Mapped(i)' /\ \A j : j # i => (Mapped(j)' <=> Mapped(j))
  BY <1>5, <1>7, EntryUnique DEF Mapped
<1>15. Taken(t, c)'
  <2>1. c \notin Elements(Data(t).idle)
    BY <1>2, <1>4 DEF Local, PoolOK
  <2>2. \A f \in list' : f.conn # c
    BY <1>4, <1>7, EntryUnique
  <2> QED BY <1>1, <1>4, <1>9, <2>1, <2>2 DEF Taken
<1>16. i \notin Elements(Data(t).queue)
  BY <1>2, <1>5 DEF Local, QueueOK, Mapped
<1>17. PoolOK(t)'
  BY <1>1, <1>9 DEF Local, PoolOK
<1>18. QueueOK(t)'
  BY <1>2, <1>9, <1>10, <1>14, <1>16 DEF Local, QueueOK
<1>19. ListOK(t)'
  <2>1. \A f \in list' : f \in list /\ f.req \in Requests /\ f.req # i
    BY <1>5, <1>7, EntryOf, EntryUnique
  <2> QED BY <1>1, <1>10, <2>1 DEF Local, ListOK
<1>20. HandOK(t)'
  BY <1>8, <1>9, <1>15 DEF HandOK, Hand, Connecting
<1>21. KeptOK(t)'
  BY <1>1, <1>9, <1>10, <1>14 DEF Local, KeptOK, At, Connecting
<1> QED BY <1>9, <1>11, <1>12, <1>13, <1>17, <1>18, <1>19, <1>20, <1>21, Combine DEF Local

\* The queue after the head, if there is one, was taken, and what the thread does.
Popped(q) == IF q = <<>> THEN q ELSE Tail(q)

LEMMA PopQueue ==
  ASSUME IInv, NEW t \in Threads, Ready(t), NEW q, q = Data(t).queue, ServeNext(t, q)
  PROVE  \E l \in Locals :
           /\ Go(t, l) /\ l.closing = NULL
           /\ Popped(q) \in Seq(Requests) /\ Injective(Popped(q))
           /\ Len(Popped(q)) <= QueueSize
           /\ \/ l.pc = "idle" /\ Elements(Popped(q)) = Elements(q) /\ Elements(q) = {}
              \/ /\ l.pc = "connect" /\ l.req \in Elements(q)
                 /\ Elements(Popped(q)) = Elements(q) \ {l.req}
<1>1. /\ q \in Seq(Requests) /\ Injective(q) /\ Len(q) <= QueueSize
      /\ Elements(q) \subseteq Requests
  <2>1. Data(t) \in ThreadData /\ Elements(q) \subseteq Requests
    BY DataType DEF IInv
  <2> QED BY <2>1 DEF IInv, Local, QueueOK, ThreadData
<1>2. CASE q = <<>>
  <2>1. Idle \in Locals /\ Idle.pc = "idle" /\ Idle.closing = NULL
    BY DEF Idle, Locals, Stages
  <2>2. Elements(q) = {}
    BY <1>2 DEF Elements
  <2>3. Popped(q) = q /\ Go(t, Idle)
    BY <1>2 DEF Popped, ServeNext
  <2> QED BY <1>1, <2>1, <2>2, <2>3
<1>3. CASE q # <<>>
  <2> DEFINE l == [Idle EXCEPT !.pc = "connect", !.req = Head(q)]
  <2>1. /\ Head(q) \in Requests /\ Head(q) \in Elements(q) /\ Tail(q) \in Seq(Requests)
        /\ Injective(Tail(q)) /\ Elements(Tail(q)) = Elements(q) \ {Head(q)}
    BY <1>1, <1>3, ListTail
  <2>2. l \in Locals /\ l.pc = "connect" /\ l.req = Head(q) /\ l.closing = NULL
    BY <2>1 DEF Idle, Locals, Stages
  <2>3. Popped(q) = Tail(q) /\ Go(t, l)
    BY <1>3 DEF Popped, ServeNext
  <2>4. Len(Tail(q)) <= QueueSize
    BY <1>1, <1>3, ThreadsAssumption
  <2> HIDE DEF l
  <2> QED BY <2>1, <2>2, <2>3, <2>4
<1> QED BY <1>2, <1>3

\* A thread that has taken the head of the queue has that request in hand.
LEMMA Served ==
  ASSUME IInv, NEW t \in Threads, At(t, "release"), Ready(t), Ready(t)',
         NEW l \in Locals, th'[t] = l, l.closing = NULL,
         list' = list, req' = req,
         Data(t)'.queue = Popped(Data(t).queue),
         Injective(Popped(Data(t).queue)), Len(Popped(Data(t).queue)) <= QueueSize,
         \/ /\ l.pc = "idle" /\ Elements(Popped(Data(t).queue)) = Elements(Data(t).queue)
            /\ Elements(Data(t).queue) = {}
         \/ /\ l.pc = "connect" /\ l.req \in Elements(Data(t).queue)
            /\ Elements(Popped(Data(t).queue)) = Elements(Data(t).queue) \ {l.req}
  PROVE  QueueOK(t)' /\ HandOK(t)' /\ KeptOK(t)'
<1> USE DEF IInv
<1>1. \A j : Mapped(j)' <=> Mapped(j)
  BY DEF Mapped
<1>2. Elements(Data(t).queue) \subseteq Requests
  BY DataType
<1>3. QueueOK(t)'
  BY <1>1 DEF Local, QueueOK
<1>4. HandOK(t)'
  BY <1>1, <1>2 DEF Local, QueueOK, HandOK, Hand, Connecting
<1>5. KeptOK(t)'
  BY <1>1 DEF Local, KeptOK, At, Connecting
<1> QED BY <1>3, <1>4, <1>5

\* What is left of a pool when a connection goes.
LEMMA PoolShrinks ==
  ASSUME IInv, NEW t \in Threads, Ready(t), NEW c
  PROVE  /\ IsFiniteSet(Data(t).pool \ {c})
         /\ Cardinality(Data(t).pool \ {c}) <= PoolLimit
<1>1. IsFiniteSet(Data(t).pool) /\ Cardinality(Data(t).pool) <= PoolLimit
  BY DEF IInv, Local, PoolOK
<1>2. /\ IsFiniteSet(Data(t).pool \ {c})
      /\ Cardinality(Data(t).pool \ {c}) <= Cardinality(Data(t).pool)
  BY <1>1, FS_Subset
<1>3. Cardinality(Data(t).pool) \in Nat /\ Cardinality(Data(t).pool \ {c}) \in Nat
  BY <1>1, <1>2, FS_CardinalityType
<1> QED BY <1>1, <1>2, <1>3, ShareType

LEMMA ReleaseInv ==
  ASSUME IInv, NEW t \in Threads, Release(t)
  PROVE  IInv'
<1> USE DEF IInv
<1>1. /\ At(t, "release") /\ ServeNext(t, Data(t).queue)
      /\ UNCHANGED <<threadKey, keys, list, nextId, idMutex, req>>
  BY DEF Release
<1>2. /\ threadKey[t] # 0 /\ Ready(t) /\ Data(t) \in ThreadData
      /\ Data(t).idle \in Seq(Conns) /\ Elements(Data(t).idle) \subseteq Conns
      /\ Injective(Data(t).idle)
  BY <1>1, AtWork DEF At, Local, PoolOK
<1>3. PICK c \in Conns : c = th[t].conn /\ Taken(t, c)
  BY <1>1 DEF At, Local, HandOK, Hand, Taken
<1>4. PICK l \in Locals :
        /\ Go(t, l) /\ l.closing = NULL
        /\ Popped(Data(t).queue) \in Seq(Requests) /\ Injective(Popped(Data(t).queue))
        /\ Len(Popped(Data(t).queue)) <= QueueSize
        /\ \/ /\ l.pc = "idle" /\ Elements(Popped(Data(t).queue)) = Elements(Data(t).queue)
              /\ Elements(Data(t).queue) = {}
           \/ /\ l.pc = "connect" /\ l.req \in Elements(Data(t).queue)
              /\ Elements(Popped(Data(t).queue)) = Elements(Data(t).queue) \ {l.req}
  BY <1>1, <1>2, PopQueue
<1> DEFINE d == [Data(t) EXCEPT !.idle = Append(@, c), !.queue = Popped(@)]
<1>5. data' = [data EXCEPT ![t][threadKey[t]] = d] /\ conn' = [conn EXCEPT ![c].requestId = 0]
  BY <1>3 DEF Release, Popped
<1>6. /\ Append(Data(t).idle, c) \in Seq(Conns) /\ Injective(Append(Data(t).idle, c))
      /\ Elements(Append(Data(t).idle, c)) = Elements(Data(t).idle) \cup {c}
  BY <1>2, <1>3, ListAppend DEF Taken
<1>7. d \in ThreadData /\ d.pool = Data(t).pool /\ d.idle = Append(Data(t).idle, c)
      /\ d.queue = Popped(Data(t).queue)
  BY <1>2, <1>4, <1>6 DEF ThreadData
<1> HIDE DEF d
<1>8. l.pc \notin {"setup", "setspecific", "bumpid", "bind"} /\ ~At(t, "bumpid")
  BY <1>1, <1>4 DEF At
<1>9. /\ KeysOK' /\ data' \in [Threads -> [Keys -> ThreadData \cup {NULL}]]
      /\ th' \in [Threads -> Locals] /\ th'[t] = l
      /\ \A u \in Threads : u # t => th'[u] = th[u]
      /\ \A u \in Threads : Ready(u)' = Ready(u)
      /\ \A u \in Threads : u # t => Data(u)' = Data(u)
      /\ Data(t)' = d
  BY <1>1, <1>2, <1>4, <1>5, <1>7, <1>8, DataSet
<1>10. /\ conn' \in [Conns -> Connection]
       /\ conn'[c].requestId = 0
       /\ \A a \in Conns : /\ conn'[a].thread = conn[a].thread
                           /\ conn'[a].phase = conn[a].phase
                           /\ a # c => conn'[a] = conn[a]
  BY <1>5 DEF Types, Connection
<1>11. Types'
  BY <1>1, <1>9, <1>10 DEF Types
<1>12. IdsOK'
  <2>1. \A a \in Conns : conn'[a].requestId \in {conn[a].requestId, 0}
    BY <1>10
  <2> QED BY <1>1, <1>4, <1>8, <2>1, IdsKept
<1>13. \A e \in list : e.conn \in Conns /\ e.conn # c
  BY <1>3, EntryOf DEF Taken
<1>14. FreshOK'
  BY <1>1, <1>10, <1>13 DEF FreshOK
<1>15. Elsewhere(t)
  BY <1>1, <1>3, <1>9, <1>10 DEF Elsewhere, Taken
<1>16. PoolOK(t)'
  <2>1. {a \in Conns : conn'[a].thread = t} = {a \in Conns : conn[a].thread = t}
    BY <1>10
  <2>2. \A a \in Elements(d.idle) : conn'[a].thread = t /\ conn'[a].requestId = 0
    BY <1>2, <1>3, <1>6, <1>7, <1>10 DEF Local, PoolOK, Taken
  <2>3. \A a \in Conns : conn'[a].thread = t => Ready(t)' /\ conn'[a].phase # "none"
    BY <1>2, <1>9, <1>10 DEF Local, PoolOK
  <2> QED BY <1>2, <1>6, <1>7, <1>9, <2>1, <2>2, <2>3 DEF Local, PoolOK
<1>17. ListOK(t)'
  BY <1>1, <1>10, <1>13 DEF Local, ListOK
<1>18. QueueOK(t)' /\ HandOK(t)' /\ KeptOK(t)'
  BY <1>1, <1>2, <1>4, <1>7, <1>9, Served
<1> QED BY <1>9, <1>11, <1>12, <1>14, <1>15, <1>16, <1>17, <1>18, Combine DEF Local

LEMMA RecycleInv ==
  ASSUME IInv, NEW t \in Threads, Recycle(t)
  PROVE  IInv'
<1> USE DEF IInv
<1>1. /\ At(t, "release") /\ ServeNext(t, Data(t).queue)
      /\ UNCHANGED <<threadKey, keys, list, nextId, idMutex, req>>
  BY DEF Recycle
<1>2. /\ threadKey[t] # 0 /\ Ready(t) /\ Data(t) \in ThreadData
      /\ Data(t).pool \subseteq Conns
      /\ Data(t).idle \in Seq(Conns) /\ Elements(Data(t).idle) \subseteq Conns
      /\ Injective(Data(t).idle)
  BY <1>1, AtWork DEF At, Local, PoolOK
<1>3. PICK c \in Conns : c = th[t].conn /\ Taken(t, c)
  BY <1>1 DEF At, Local, HandOK, Hand, Taken
<1>4. PICK l \in Locals :
        /\ Go(t, l) /\ l.closing = NULL
        /\ Popped(Data(t).queue) \in Seq(Requests) /\ Injective(Popped(Data(t).queue))
        /\ Len(Popped(Data(t).queue)) <= QueueSize
        /\ \/ /\ l.pc = "idle" /\ Elements(Popped(Data(t).queue)) = Elements(Data(t).queue)
              /\ Elements(Data(t).queue) = {}
           \/ /\ l.pc = "connect" /\ l.req \in Elements(Data(t).queue)
              /\ Elements(Popped(Data(t).queue)) = Elements(Data(t).queue) \ {l.req}
  BY <1>1, <1>2, PopQueue
<1> DEFINE d == [pool |-> Data(t).pool \ {c}, idle |-> ListRemove(Data(t).idle, c),
                 queue |-> Popped(Data(t).queue)]
<1>5. data' = [data EXCEPT ![t][threadKey[t]] = d] /\ conn' = [conn EXCEPT ![c] = NoConn]
  BY <1>3 DEF Recycle, Data, Popped, IdleWithout
<1>6. /\ ListRemove(Data(t).idle, c) \in Seq(Conns) /\ Injective(ListRemove(Data(t).idle, c))
      /\ Elements(ListRemove(Data(t).idle, c)) = Elements(Data(t).idle) \ {c}
  BY <1>2, ListRemoval
<1>7. d \in ThreadData /\ d.pool = Data(t).pool \ {c}
      /\ d.idle = ListRemove(Data(t).idle, c) /\ d.queue = Popped(Data(t).queue)
  BY <1>2, <1>4, <1>6 DEF ThreadData
<1> HIDE DEF d
<1>8. l.pc \notin {"setup", "setspecific", "bumpid", "bind"} /\ ~At(t, "bumpid")
  BY <1>1, <1>4 DEF At
<1>9. /\ KeysOK' /\ data' \in [Threads -> [Keys -> ThreadData \cup {NULL}]]
      /\ th' \in [Threads -> Locals] /\ th'[t] = l
      /\ \A u \in Threads : u # t => th'[u] = th[u]
      /\ \A u \in Threads : Ready(u)' = Ready(u)
      /\ \A u \in Threads : u # t => Data(u)' = Data(u)
      /\ Data(t)' = d
  BY <1>1, <1>2, <1>4, <1>5, <1>7, <1>8, DataSet
<1>10. /\ conn' \in [Conns -> Connection]
       /\ conn'[c].requestId = 0 /\ conn'[c].thread = NULL /\ conn'[c].phase = "none"
       /\ \A a \in Conns : a # c => conn'[a] = conn[a]
  <2>1. /\ NoConn \in Connection /\ NoConn.requestId = 0 /\ NoConn.thread = NULL
        /\ NoConn.phase = "none"
    BY DEF NoConn, Connection
  <2> QED BY <1>5, <2>1 DEF Types
<1>11. Types'
  BY <1>1, <1>9, <1>10 DEF Types
<1>12. IdsOK'
  <2>1. \A a \in Conns : conn'[a].requestId \in {conn[a].requestId, 0}
    BY <1>10
  <2> QED BY <1>1, <1>4, <1>8, <2>1, IdsKept
<1>13. \A e \in list : e.conn \in Conns /\ e.conn # c
  BY <1>3, EntryOf DEF Taken
<1>14. FreshOK'
  BY <1>1, <1>10, <1>13 DEF FreshOK
<1>15. Elsewhere(t)
  BY <1>1, <1>3, <1>9, <1>10 DEF Elsewhere, Taken
<1>16. PoolOK(t)'
  <2>1. {a \in Conns : conn'[a].thread = t} = {a \in Conns : conn[a].thread = t} \ {c}
    BY <1>10, ThreadsAssumption
  <2>2. \A a \in Elements(d.idle) : conn'[a].thread = t /\ conn'[a].requestId = 0
    BY <1>2, <1>6, <1>7, <1>10 DEF Local, PoolOK
  <2>3. \A a \in Conns : conn'[a].thread = t => Ready(t)' /\ conn'[a].phase # "none"
    BY <1>2, <1>9, <1>10, ThreadsAssumption DEF Local, PoolOK
  <2>4. IsFiniteSet(d.pool) /\ Cardinality(d.pool) <= PoolLimit
    BY <1>2, <1>7, PoolShrinks
  <2> QED BY <1>2, <1>6, <1>7, <1>9, <2>1, <2>2, <2>3, <2>4 DEF Local, PoolOK
<1>17. ListOK(t)'
  BY <1>1, <1>10, <1>13 DEF Local, ListOK
<1>18. QueueOK(t)' /\ HandOK(t)' /\ KeptOK(t)'
  BY <1>1, <1>2, <1>4, <1>7, <1>9, Served
<1> QED BY <1>9, <1>11, <1>12, <1>14, <1>15, <1>16, <1>17, <1>18, Combine DEF Local

\* connectionClosed takes the connection away with its one entry, if it has one.
LEMMA CloseInv ==
  ASSUME IInv, NEW t \in Threads, Close(t)
  PROVE  IInv'
<1> USE DEF IInv
<1>1. /\ At(t, "close") /\ Go(t, Idle) /\ UNCHANGED <<threadKey, keys, nextId, idMutex>>
  BY DEF Close
<1>2. /\ threadKey[t] # 0 /\ Ready(t) /\ Data(t) \in ThreadData
      /\ Data(t).pool \subseteq Conns /\ Elements(Data(t).queue) \subseteq Requests
      /\ Data(t).idle \in Seq(Conns) /\ Elements(Data(t).idle) \subseteq Conns
      /\ Injective(Data(t).idle)
  BY <1>1, AtWork DEF At, Local, PoolOK
<1>3. PICK c \in Conns : c = th[t].conn /\ conn[c].thread = t
  BY <1>1 DEF At, Local, HandOK, Hand
<1>4. PICK found \in SUBSET list : found = Entries(conn[c].requestId)
  BY DEF Entries
<1> DEFINE d == [Data(t) EXCEPT !.pool = @ \ {c}, !.idle = ListRemove(@, c)]
<1>5. /\ data' = [data EXCEPT ![t][threadKey[t]] = d]
      /\ conn' = [conn EXCEPT ![c] = NoConn]
      /\ list' = list \ found
      /\ req' = [i \in Requests |-> IF \E e \in found : e.req = i
                                    THEN [req[i] EXCEPT !.phase = "over"] ELSE req[i]]
  BY <1>3, <1>4 DEF Close, IdleWithout
<1>6. \A e \in list : e \in found <=> e.conn = c
  BY <1>3, <1>4, EntryOf DEF Entries, IdsOK
<1>7. \A e \in found : Home[e.req] = t /\ e.req \in Requests
  BY <1>3, <1>6, EntryOf
<1>8. /\ ListRemove(Data(t).idle, c) \in Seq(Conns) /\ Injective(ListRemove(Data(t).idle, c))
      /\ Elements(ListRemove(Data(t).idle, c)) = Elements(Data(t).idle) \ {c}
  BY <1>2, ListRemoval
<1>9. d \in ThreadData /\ d.pool = Data(t).pool \ {c}
      /\ d.idle = ListRemove(Data(t).idle, c) /\ d.queue = Data(t).queue
  BY <1>2, <1>8 DEF ThreadData
<1> HIDE DEF d
<1>10. Idle \in Locals /\ Idle.pc = "idle" /\ ~At(t, "bumpid")
  BY <1>1 DEF Idle, Locals, Stages, At
<1>11. /\ KeysOK' /\ data' \in [Threads -> [Keys -> ThreadData \cup {NULL}]]
       /\ th' \in [Threads -> Locals] /\ th'[t] = Idle
       /\ \A u \in Threads : u # t => th'[u] = th[u]
       /\ \A u \in Threads : Ready(u)' = Ready(u)
       /\ \A u \in Threads : u # t => Data(u)' = Data(u)
       /\ Data(t)' = d
  BY <1>1, <1>2, <1>5, <1>9, <1>10, DataSet
<1>12. /\ conn' \in [Conns -> Connection]
       /\ conn'[c].requestId = 0 /\ conn'[c].thread = NULL /\ conn'[c].phase = "none"
       /\ \A a \in Conns : a # c => conn'[a] = conn[a]
  <2>1. /\ NoConn \in Connection /\ NoConn.requestId = 0 /\ NoConn.thread = NULL
        /\ NoConn.phase = "none"
    BY DEF NoConn, Connection
  <2> QED BY <1>5, <2>1 DEF Types
<1>13. /\ req' \in [Requests -> Request]
       /\ \A i \in Requests : req'[i].id = req[i].id
       /\ \A i \in Requests : ~(\E e \in found : e.req = i) => req'[i] = req[i]
       /\ \A i \in Requests : (\E e \in found : e.req = i) => req'[i].phase = "over"
  <2>1. \A i \in Requests : /\ req[i] \in Request
                            /\ [req[i] EXCEPT !.phase = "over"] \in Request
                            /\ [req[i] EXCEPT !.phase = "over"].id = req[i].id
                            /\ [req[i] EXCEPT !.phase = "over"].phase = "over"
    BY DEF Types, Request
  <2> QED BY <1>5, <2>1
<1>14. Types'
  BY <1>1, <1>5, <1>11, <1>12, <1>13 DEF Types
<1>15. IdsOK'
  <2>1. \A a \in Conns : conn'[a].requestId \in {conn[a].requestId, 0}
    BY <1>12
  <2> QED BY <1>1, <1>10, <1>13, <2>1, IdsKept
<1>16. \A e \in list' : e \in list /\ e.conn \in Conns /\ e.conn # c /\ e.req \in Requests
  BY <1>5, <1>6, EntryOf
<1>17. FreshOK'
  BY <1>12, <1>16 DEF FreshOK
<1>18. Elsewhere(t)
  BY <1>3, <1>5, <1>7, <1>11, <1>12, <1>13 DEF Elsewhere
<1>19. \A e \in list', f \in found : e.req # f.req
  BY <1>4, <1>5, EntryUnique
<1>20. \A i \in Requests : /\ Mapped(i)' => Mapped(i)
                           /\ Mapped(i) /\ ~Mapped(i)' => req'[i].phase = "over"
  BY <1>5, <1>13 DEF Mapped
<1>21. PoolOK(t)'
  <2>1. {a \in Conns : conn'[a].thread = t} = {a \in Conns : conn[a].thread = t} \ {c}
    BY <1>12, ThreadsAssumption
  <2>2. \A a \in Elements(d.idle) : conn'[a].thread = t /\ conn'[a].requestId = 0
    BY <1>2, <1>8, <1>9, <1>12 DEF Local, PoolOK
  <2>3. \A a \in Conns : conn'[a].thread = t => Ready(t)' /\ conn'[a].phase # "none"
    BY <1>2, <1>11, <1>12, ThreadsAssumption DEF Local, PoolOK
  <2>4. IsFiniteSet(d.pool) /\ Cardinality(d.pool) <= PoolLimit
    BY <1>2, <1>9, PoolShrinks
  <2> QED BY <1>2, <1>8, <1>9, <1>11, <2>1, <2>2, <2>3, <2>4 DEF Local, PoolOK
<1>22. QueueOK(t)'
  <2>1. \A i \in Elements(Data(t).queue) :
          Home[i] = t /\ req'[i].phase = "open" /\ ~Mapped(i)'
    <3> TAKE i \in Elements(Data(t).queue)
    <3>1. i \in Requests /\ Home[i] = t /\ req[i].phase = "open" /\ ~Mapped(i)
      BY <1>2 DEF Local, QueueOK
    <3>2. req'[i] = req[i]
      BY <1>4, <1>13, <3>1 DEF Mapped
    <3> QED BY <1>20, <3>1, <3>2
  <2> QED BY <1>2, <1>9, <1>11, <2>1 DEF Local, QueueOK
<1>23. ListOK(t)'
  <2>1. \A e \in list' : req'[e.req] = req[e.req] /\ conn'[e.conn] = conn[e.conn]
    BY <1>12, <1>13, <1>16, <1>19
  <2> QED BY <1>16, <2>1 DEF Local, ListOK
<1>24. HandOK(t)'
  BY <1>10, <1>11 DEF HandOK, Hand, Connecting
<1>25. KeptOK(t)'
  <2> SUFFICES ASSUME NEW i \in Requests, Home[i] = t, req'[i].phase = "open"
               PROVE  Mapped(i)' \/ (Ready(t)' /\ i \in Elements(Data(t)'.queue))
    BY DEF KeptOK
  <2>1. req[i].phase = "open"
    BY <1>13
  <2>2. Mapped(i) \/ i \in Elements(Data(t).queue)
    <3>1. th[t].pc \notin Connecting
      BY <1>1 DEF At, Connecting
    <3>2. \/ Mapped(i)
          \/ Ready(t) /\ i \in Elements(Data(t).queue)
          \/ th[t].pc \in Connecting /\ th[t].req = i
      BY <2>1 DEF Local, KeptOK
    <3> QED BY <3>1, <3>2
  <2>3. CASE Mapped(i)
    BY <1>20, <2>3
  <2>4. CASE i \in Elements(Data(t).queue)
    BY <1>2, <1>9, <1>11, <2>4
  <2> QED BY <2>2, <2>3, <2>4
<1> QED BY <1>11, <1>14, <1>15, <1>17, <1>18, <1>21, <1>22, <1>23, <1>24, <1>25,
           Combine DEF Local

-----------------------------------------------------------------------------

LEMMA NextInv == IInv /\ [Next]_vars => IInv'
<1> SUFFICES ASSUME IInv, [Next]_vars PROVE IInv'
  OBVIOUS
<1>1. CASE UNCHANGED vars
  <2>1. /\ threadKey' = threadKey /\ keys' = keys /\ data' = data /\ list' = list
        /\ nextId' = nextId /\ idMutex' = idMutex /\ conn' = conn /\ req' = req
        /\ th' = th
    BY <1>1 DEF vars
  <2>2. /\ \A t \in Threads : Ready(t)' = Ready(t) /\ Data(t)' = Data(t)
        /\ \A i : Mapped(i)' <=> Mapped(i)
        /\ \A t \in Threads, pc \in Stages : At(t, pc)' <=> At(t, pc)
    BY <2>1 DEF Ready, Data, Mapped, At
  <2>3. \A t \in Threads : \A c : Taken(t, c)' <=> Taken(t, c)
    BY <2>1, <2>2 DEF Taken
  <2>4. Types' /\ FreshOK'
    BY <2>1 DEF IInv, Types, FreshOK
  <2>5. KeysOK'
    BY <2>1, <2>2 DEF IInv, KeysOK, At
  <2>6. IdsOK'
    BY <2>1 DEF IInv, IdsOK, At
  <2>7. ASSUME NEW t \in Threads
        PROVE  Local(t)'
    <3>1. PoolOK(t)'
      BY <2>1, <2>2 DEF IInv, Local, PoolOK
    <3>2. QueueOK(t)' /\ ListOK(t)' /\ KeptOK(t)'
      BY <2>1, <2>2 DEF IInv, Local, QueueOK, ListOK, KeptOK
    <3>3. HandOK(t)'
      BY <2>1, <2>2, <2>3 DEF IInv, Local, HandOK, Hand
    <3> QED BY <3>1, <3>2, <3>3 DEF Local
  <2> QED BY <2>4, <2>5, <2>6, <2>7 DEF IInv
<1>2. ASSUME NEW t \in Threads, NEW i \in Requests,
             Hook(t, i) \/ HookPasses(t, i) \/ Abort(t, i)
      PROVE  IInv'
  BY <1>2, HookInv, HookPassesInv, AbortInv
<1>3. ASSUME NEW t \in Threads, NEW c \in Conns,
             NEW event \in Events \ {"abort", "recycle"}, Deliver(t, c, event)
      PROVE  IInv'
  BY <1>3, DeliverInv
<1>4. ASSUME NEW t \in Threads, Step(t)
      PROVE  IInv'
  BY <1>4, CreateKeyInv, SetSpecificInv, SetSpecificFailsInv, ConnectReusesInv,
     ConnectAddsInv, ConnectQueuesInv, LockIdInv, BumpIdInv, BindInv, FindInv,
     DerefConnectInv, DerefOtherInv, EraseInv, RemoveInv, ReleaseInv, RecycleInv,
     CloseInv DEF Step
<1> QED BY <1>1, <1>2, <1>3, <1>4 DEF Next

\* The threads keep their keys, pools, queues and requests apart, and ids are
\* drawn once: the invariant that the properties below follow from.
THEOREM Invariance == Spec => []IInv
BY InitInv, NextInv, PTL DEF Spec

\* Every variable has its type; pools and queues are within their limits, and the
\* mutex of the ids is held by the one thread that is at the counter.
THEOREM TypeCorrect == Spec => []TypeOK
<1>1. IInv => TypeOK
  <2> SUFFICES ASSUME IInv PROVE TypeOK
    OBVIOUS
  <2>1. ASSUME NEW t \in Threads, NEW k \in Keys, data[t][k] # NULL
        PROVE  IsThreadData(data[t][k])
    <3>1. Ready(t) /\ data[t][k] = Data(t)
      BY <2>1 DEF IInv, KeysOK, Data
    <3>2. Data(t) \in ThreadData
      BY <3>1, DataType DEF IInv
    <3> QED BY <3>1, <3>2 DEF IInv, Local, PoolOK, QueueOK, IsThreadData, ThreadData
  <2>2. list \subseteq Entry
    <3> SUFFICES ASSUME NEW e \in list PROVE e \in Entry
      OBVIOUS
    <3>1. e \in EntrySet /\ e.id < nextId /\ nextId \in Nat
      BY EntryOf DEF IInv, IdsOK, Types
    <3>2. e.id \in 1 .. nextId - 1
      BY <3>1 DEF EntrySet
    <3> QED BY <3>1, <3>2 DEF Entry, EntrySet
  <2> QED BY <2>1, <2>2 DEF IInv, Types, IdsOK, TypeOK
<1> QED BY <1>1, Invariance, PTL

\* The iterator of getIntercept is used after the mutex is given up, and no other
\* thread has removed the entry in between.
THEOREM EntriesAlive == Spec => []EntryAlive
<1>1. IInv => EntryAlive
  BY DEF IInv, Local, HandOK, Hand, EntryAlive, At
<1> QED BY <1>1, Invariance, PTL

\* No request gets lost between the threads, the map and the queues.
THEOREM NoneLost == Spec => []Accounted
<1>1. IInv => Accounted
  <2> SUFFICES ASSUME IInv, NEW i \in Requests, req[i].phase = "open"
               PROVE  \/ \E e \in list : e.req = i
                      \/ Queued(i)
                      \/ ~At(Home[i], "idle") /\ th[Home[i]].req = i
    BY DEF Accounted
  <2>1. Home[i] \in Threads
    BY ThreadsAssumption
  <2>2. ASSUME Ready(Home[i]), i \in Elements(Data(Home[i]).queue)
        PROVE  Queued(i)
    <3>1. threadKey[Home[i]] \in Keys /\ Data(Home[i]) # NULL
      BY <2>1, <2>2, DataType DEF IInv
    <3> QED BY <2>1, <2>2, <3>1 DEF Queued, Data, Elements
  <2>3. \/ Mapped(i)
        \/ Ready(Home[i]) /\ i \in Elements(Data(Home[i]).queue)
        \/ th[Home[i]].pc \in Connecting /\ th[Home[i]].req = i
    BY <2>1 DEF IInv, Local, KeptOK
  <2> QED BY <2>2, <2>3 DEF Mapped, Connecting, At
<1> QED BY <1>1, Invariance, PTL

\* A request, its connection and the pool of that connection belong to one thread.
THEOREM PoolsApart == Spec => []HomePool
<1>1. IInv => HomePool
  <2> SUFFICES ASSUME IInv PROVE HomePool
    OBVIOUS
  <2>1. ASSUME NEW e \in list
        PROVE  conn[e.conn].thread = Home[e.req] /\ e.conn \in Data(Home[e.req]).pool
    <3>1. /\ e.conn \in Conns /\ conn[e.conn].thread = Home[e.req]
          /\ Home[e.req] \in Threads
      BY EntryOf
    <3> QED BY <3>1 DEF IInv, Local, PoolOK
  <2>2. ASSUME NEW t \in Threads, NEW k \in Keys, data[t][k] # NULL,
               NEW n \in DOMAIN data[t][k].idle
        PROVE  data[t][k].idle[n] \in data[t][k].pool
    <3>1. Ready(t) /\ data[t][k] = Data(t)
      BY <2>2 DEF IInv, KeysOK, Data
    <3>2. data[t][k].idle[n] \in Elements(Data(t).idle)
      BY <3>1 DEF Elements
    <3>3. Elements(Data(t).idle) \subseteq Conns
      BY <3>1, DataType DEF IInv
    <3> QED BY <3>1, <3>2, <3>3 DEF IInv, Local, PoolOK
  <2> QED BY <2>1, <2>2 DEF HomePool
<1> QED BY <1>1, Invariance, PTL

\* However many threads there are, the pools together have no more connections
\* than max_connections as long as it is divided among all of them.
THEOREM ConnectionsLimited == Spec => []TotalLimit
<1>1. IInv => TotalLimit
  <2> SUFFICES ASSUME IInv, Cardinality(Threads) <= PoolShare
               PROVE  Cardinality({c \in Conns : conn[c].phase # "none"}) <= MaxConnections
    BY DEF TotalLimit
  <2> DEFINE C == {c \in Conns : conn[c].phase # "none"}
             owner == [c \in C |-> conn[c].thread]
  <2>1. C \subseteq Conns /\ \A c \in C : conn[c].thread \in Threads
    BY DEF IInv, FreshOK, Types, Connection
  <2> HIDE DEF C
  <2>2. owner \in [C -> Threads] /\ \A c \in C : owner[c] = conn[c].thread
    BY <2>1
  <2> HIDE DEF owner
  <2>3. \A t \in Threads : {c \in C : owner[c] = t} = {c \in C : conn[c].thread = t}
    BY <2>2
  <2>4. \A t \in Threads : /\ IsFiniteSet({c \in C : owner[c] = t})
                           /\ Cardinality({c \in C : owner[c] = t}) <= PoolLimit
    BY <2>1, <2>3, OwnedPool DEF IInv, Local
  <2>5. IsFiniteSet(C) /\ Cardinality(C) <= Cardinality(Threads) * PoolLimit
    BY <2>2, <2>4, PoolSum
  <2>6. Cardinality(Threads) \in Nat /\ Cardinality(C) \in Nat
    BY <2>5, ThreadsAssumption, FS_CardinalityType
  <2>7. Cardinality(Threads) * PoolLimit <= MaxConnections
    BY <2>6, ShareType
  <2>8. Cardinality(Threads) * PoolLimit \in Nat /\ MaxConnections \in Nat
    BY <2>6, ShareType, ThreadsAssumption
  <2>9. Cardinality(C) <= MaxConnections
    BY <2>5, <2>6, <2>7, <2>8
  <2> QED BY <2>9 DEF C
<1> QED BY <1>1, Invariance, PTL

=============================================================================
