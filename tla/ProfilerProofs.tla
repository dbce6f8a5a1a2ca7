--------------------------- MODULE ProfilerProofs ---------------------------
(***************************************************************************)
(* Proofs about Profiler, for any number of threads, profiles and          *)
(* switches: the mutex keeps the profiles, and few of them come late.      *)
(***************************************************************************)
EXTENDS Profiler, FiniteSetTheorems, SequenceTheorems, TLAPS

Stages == {"B", "E"}

ProfileSet == [taker: Takers, stage: Stages]

Local == [pc: {"idle", "taking", "check", "lock", "push"},
          taker: Takers \cup {NULL}, stage: Stages, size: Nat]

Types ==
  /\ record_enabled \in BOOLEAN
  /\ profiles \in Seq(ProfileSet)
  /\ mutex \in Threads \cup {NULL}
  /\ th \in [Threads -> Local]
  /\ switching \in {"idle", "clear"}
  /\ untaken \subseteq Takers
  /\ kept \subseteq ProfileSet

Busy(t) == th[t].pc # "idle"

\* A taker is on the stack of one thread.
OnOneStack ==
  /\ \A t \in Threads : Busy(t) => th[t].taker \in Takers \ untaken
  /\ \A t, u \in Threads :
       Busy(t) /\ Busy(u) /\ th[t].taker = th[u].taker => t = u

\* What a thread has still to submit is not among the profiles.
Fresh ==
  /\ \A p \in kept : p.taker \notin untaken
  /\ \A t \in Threads : th[t].pc = "taking" => th[t].stage = "B"
  /\ \A t \in Threads : Busy(t) =>
       \A p \in kept :
         p.taker = th[t].taker => p.stage = "B" /\ th[t].stage = "E"

Holder == {t \in Threads : th[t].pc = "push"} = {mutex} \ {NULL}

EndKnown == \A t \in Threads : th[t].pc = "push" => th[t].size = Len(profiles)

\* The profiles are kept, in some order, without repetition.
Stored ==
  /\ {profiles[n] : n \in DOMAIN profiles} = kept
  /\ IsFiniteSet(kept)
  /\ Len(profiles) = Cardinality(kept)

\* The threads that have looked at record_enabled_ and not yet stored.
Looked == {t \in Threads : th[t].pc \in {"lock", "push"}}

\* Once the recording is off, each of these threads has one profile to go.
Late ==
  ~record_enabled /\ switching = "idle" =>
    /\ Len(profiles) + Cardinality(Looked) <= Cardinality(Threads)
    /\ \A p, q \in kept : p.taker = q.taker => p = q
    /\ \A t \in Looked : \A p \in kept : p.taker # th[t].taker

IInv == Types /\ OnOneStack /\ Fresh /\ Holder /\ EndKnown /\ Stored /\ Late

-----------------------------------------------------------------------------

LEMMA InitInv == Init => IInv
<1> SUFFICES ASSUME Init PROVE IInv
  OBVIOUS
<1>1. Idle \in Local
  BY DEF Idle, Local, Stages
<1>2. Types
  <2>1. record_enabled \in BOOLEAN
    BY Zenon DEF Init
  <2>2. profiles \in Seq(ProfileSet)
    BY DEF Init
  <2>3. th \in [Threads -> Local]
    BY <1>1 DEF Init
  <2> QED BY <2>1, <2>2, <2>3 DEF Init, Types
<1>3. \A t \in Threads : th[t] = Idle /\ th[t].pc = "idle"
  BY DEF Init, Idle
<1>4. OnOneStack /\ Fresh /\ Holder /\ EndKnown
  BY <1>3 DEF Init, OnOneStack, Fresh, Holder, EndKnown, Busy
<1>5. Stored
  <2>1. profiles = <<>> /\ kept = {} /\ Len(profiles) = 0
    BY DEF Init
  <2>2. {profiles[n] : n \in DOMAIN profiles} = kept
    BY <2>1
  <2>3. IsFiniteSet(kept) /\ Cardinality(kept) = 0
    BY <2>1, FS_EmptySet
  <2> QED BY <2>1, <2>2, <2>3 DEF Stored
<1>6. Looked = {}
  BY <1>3 DEF Looked
<1>7. Cardinality(Looked) = 0 /\ Cardinality(Threads) \in Nat /\ Len(profiles) = 0
  <2>1. Cardinality(Looked) = 0
    BY <1>6, FS_EmptySet
  <2>2. Cardinality(Threads) \in Nat
    BY FS_CardinalityType, ProfilerAssumption
  <2> QED BY <2>1, <2>2 DEF Init
<1>8. Late
  BY <1>6, <1>7 DEF Init, Late
<1> QED BY <1>2, <1>4, <1>5, <1>8 DEF IInv

\* The threads that have looked are finitely many, and what one thread does
\* changes their number by one at most.
LEMMA LookedFinite ==
  ASSUME NEW S \in SUBSET Threads
  PROVE  IsFiniteSet(S) /\ Cardinality(S) \in Nat /\ Cardinality(S) <= Cardinality(Threads)
         /\ Cardinality(Threads) \in Nat
BY FS_Subset, FS_CardinalityType, ProfilerAssumption

\* Constructor, destructor and SubmitProfile up to the mutex: a thread moves on
\* and no profile is stored.
LEMMA ConstructInv ==
  ASSUME IInv, NEW t \in Threads, NEW k \in Takers, Construct(t, k)
  PROVE  IInv'
<1> DEFINE l == [Idle EXCEPT !.pc = "taking", !.taker = k]
<1>1. /\ l \in Local /\ l.pc = "taking" /\ l.taker = k /\ l.stage = "B"
  BY DEF Idle, Local, Stages
<1>2. /\ th' = [th EXCEPT ![t] = l] /\ th[t].pc = "idle" /\ k \in untaken
      /\ untaken' = untaken \ {k}
      /\ UNCHANGED <<record_enabled, profiles, mutex, switching, kept>>
  BY DEF Construct, Go
<1> HIDE DEF l
<1> USE DEF IInv
<1>3. Types'
  BY <1>1, <1>2 DEF Types
<1>4. th'[t] = l /\ \A u \in Threads : u # t => th'[u] = th[u]
  BY <1>2 DEF Types
<1>5. OnOneStack'
  BY <1>1, <1>2, <1>4 DEF OnOneStack, Busy, Types
<1>6. Fresh'
  BY <1>1, <1>2, <1>4 DEF Fresh, Busy, Types
<1>7. Holder' /\ EndKnown' /\ Stored' /\ Looked' = Looked
  BY <1>1, <1>2, <1>4 DEF Holder, EndKnown, Stored, Looked, Types
<1>8. Late'
  <2>1. \A u \in Looked : th'[u] = th[u]
    BY <1>2, <1>4 DEF Looked
  <2> QED BY <1>2, <1>7, <2>1 DEF Late
<1> QED BY <1>3, <1>5, <1>6, <1>7, <1>8

\* ~ProfileTaker begins to submit.
LEMMA DestructInv ==
  ASSUME IInv, NEW t \in Threads, Destruct(t)
  PROVE  IInv'
<1> DEFINE l == [th[t] EXCEPT !.pc = "check"]
<1> USE DEF IInv
<1>1. /\ l \in Local /\ l.pc = "check" /\ l.taker = th[t].taker /\ l.stage = th[t].stage
  BY DEF Types, Local
<1>2. /\ th' = [th EXCEPT ![t] = l] /\ th[t].pc = "taking"
      /\ UNCHANGED <<record_enabled, profiles, mutex, switching, untaken, kept>>
  BY DEF Destruct, Go
<1> HIDE DEF l
<1>3. Types'
  BY <1>1, <1>2 DEF Types
<1>4. th'[t] = l /\ \A u \in Threads : u # t => th'[u] = th[u]
  BY <1>2 DEF Types
<1>5. OnOneStack' /\ Fresh'
  BY <1>1, <1>2, <1>4 DEF OnOneStack, Fresh, Busy
<1>6. Holder' /\ EndKnown' /\ Stored' /\ Looked' = Looked
  BY <1>1, <1>2, <1>4 DEF Holder, EndKnown, Stored, Looked
<1>7. Late'
  <2>1. \A u \in Looked : th'[u] = th[u]
    BY <1>2, <1>4 DEF Looked
  <2> QED BY <1>2, <1>6, <2>1 DEF Late
<1> QED BY <1>3, <1>5, <1>6, <1>7

\* Where a thread is after SubmitProfile: at the end of the task, or done.
LEMMA SubmittedType ==
  ASSUME th \in [Threads -> Local], NEW t \in Threads
  PROVE  /\ Submitted(t) \in Local
         /\ \/ /\ th[t].stage = "B" /\ Submitted(t).pc = "check"
               /\ Submitted(t).stage = "E" /\ Submitted(t).taker = th[t].taker
            \/ th[t].stage = "E" /\ Submitted(t) = Idle /\ Submitted(t).pc = "idle"
<1>1. Idle \in Local /\ Idle.pc = "idle"
  BY DEF Idle, Local, Stages
<1>2. th[t] \in Local
  OBVIOUS
<1>3. CASE th[t].stage = "B"
  BY <1>2, <1>3 DEF Submitted, Local, Stages
<1>4. CASE th[t].stage # "B"
  BY <1>1, <1>2, <1>4 DEF Submitted, Local, Stages
<1> QED BY <1>3, <1>4

\* SubmitProfile looks at record_enabled_.
LEMMA CheckInv ==
  ASSUME IInv, NEW t \in Threads, Check(t)
  PROVE  IInv'
<1> USE DEF IInv
<1>1. /\ th[t].pc = "check"
      /\ UNCHANGED <<record_enabled, profiles, mutex, switching, untaken, kept>>
  BY DEF Check
<1>2. CASE record_enabled
  <2> DEFINE l == [th[t] EXCEPT !.pc = "lock"]
  <2>1. /\ l \in Local /\ l.pc = "lock" /\ l.taker = th[t].taker /\ l.stage = th[t].stage
    BY DEF Types, Local
  <2>2. th' = [th EXCEPT ![t] = l]
    BY <1>2 DEF Check, Go
  <2> HIDE DEF l
  <2>3. Types'
    BY <1>1, <2>1, <2>2 DEF Types
  <2>4. th'[t] = l /\ \A u \in Threads : u # t => th'[u] = th[u]
    BY <2>2 DEF Types
  <2>5. OnOneStack' /\ Fresh'
    BY <1>1, <2>1, <2>4 DEF OnOneStack, Fresh, Busy
  <2>6. Holder' /\ EndKnown' /\ Stored'
    BY <1>1, <2>1, <2>4 DEF Holder, EndKnown, Stored
  <2>7. Late'
    BY <1>1, <1>2 DEF Late
  <2> QED BY <2>3, <2>5, <2>6, <2>7
<1>3. CASE ~record_enabled
  <2> DEFINE l == Submitted(t)
  <2>1. /\ l \in Local
        /\ \/ l.pc = "check" /\ l.stage = "E" /\ l.taker = th[t].taker
           \/ l.pc = "idle"
    BY SubmittedType DEF Types
  <2>2. th' = [th EXCEPT ![t] = l]
    BY <1>3 DEF Check, Go
  <2> HIDE DEF l
  <2>3. Types'
    BY <1>1, <2>1, <2>2 DEF Types
  <2>4. th'[t] = l /\ \A u \in Threads : u # t => th'[u] = th[u]
    BY <2>2 DEF Types
  <2>5. OnOneStack'
    BY <1>1, <2>1, <2>4 DEF OnOneStack, Busy
  <2>6. Fresh'
    BY <1>1, <2>1, <2>4 DEF Fresh, Busy
  <2>7. Holder' /\ EndKnown' /\ Stored' /\ Looked' = Looked
    BY <1>1, <2>1, <2>4 DEF Holder, EndKnown, Stored, Looked
  <2>8. Late'
    <3>1. \A u \in Looked : th'[u] = th[u]
      BY <1>1, <2>4 DEF Looked
    <3> QED BY <1>1, <2>7, <3>1 DEF Late
  <2> QED BY <2>3, <2>5, <2>6, <2>7, <2>8
<1> QED BY <1>2, <1>3

\* The mutex is taken: the thread knows the end of the vector.
LEMMA LockInv ==
  ASSUME IInv, NEW t \in Threads, Lock(t)
  PROVE  IInv'
<1> DEFINE l == [th[t] EXCEPT !.pc = "push", !.size = Len(profiles)]
<1> USE DEF IInv
<1>1. /\ l \in Local /\ l.pc = "push" /\ l.taker = th[t].taker /\ l.stage = th[t].stage
      /\ l.size = Len(profiles)
  <2>1. Len(profiles) \in Nat /\ th[t] \in Local
    BY LenProperties DEF Types
  <2> QED BY <2>1 DEF Local
<1>2. /\ th' = [th EXCEPT ![t] = l] /\ th[t].pc = "lock" /\ mutex = NULL /\ mutex' = t
      /\ UNCHANGED <<record_enabled, profiles, switching, untaken, kept>>
  BY DEF Lock, Go
<1> HIDE DEF l
<1>3. Types'
  BY <1>1, <1>2 DEF Types
<1>4. th'[t] = l /\ \A u \in Threads : u # t => th'[u] = th[u]
  BY <1>2 DEF Types
<1>5. OnOneStack' /\ Fresh'
  BY <1>1, <1>2, <1>4 DEF OnOneStack, Fresh, Busy
<1>6. Holder' /\ EndKnown'
  BY <1>1, <1>2, <1>4, ProfilerAssumption DEF Holder, EndKnown
<1>7. Stored' /\ Looked' = Looked
  BY <1>1, <1>2, <1>4 DEF Stored, Looked
<1>8. Late'
  <2>1. \A u \in Looked : th'[u].taker = th[u].taker
    BY <1>1, <1>4 DEF Looked
  <2> QED BY <1>2, <1>7, <2>1 DEF Late
<1> QED BY <1>3, <1>5, <1>6, <1>7, <1>8

\* push_back at the end of the vector: the profile is new there.
LEMMA PushInv ==
  ASSUME IInv, NEW t \in Threads, Push(t)
  PROVE  IInv'
<1> DEFINE p == Profile(th[t].taker, th[t].stage)
           l == Submitted(t)
<1> USE DEF IInv
<1>1. th[t] \in Local /\ th[t].taker \in Takers /\ Busy(t) /\ th[t].pc = "push"
  BY DEF Push, Types, OnOneStack, Busy
<1>2. p \in ProfileSet /\ p.taker = th[t].taker /\ p.stage = th[t].stage
  BY <1>1 DEF Profile, ProfileSet, Local
<1>3. /\ l \in Local
      /\ \/ /\ l.pc = "check" /\ l.stage = "E" /\ l.taker = th[t].taker
            /\ th[t].stage = "B"
         \/ l.pc = "idle"
  BY SubmittedType DEF Types
<1>4. profiles' = Append(profiles, p)
  <2>1. profiles' = Append(SubSeq(profiles, 1, Len(profiles)), p)
    BY <1>1 DEF Push, EndKnown
  <2> QED BY <2>1, SubSeqFull DEF Types
<1>5. /\ th' = [th EXCEPT ![t] = l] /\ mutex' = NULL /\ kept' = kept \cup {p}
      /\ UNCHANGED <<record_enabled, switching, untaken>>
  BY DEF Push, Go
<1> HIDE DEF p, l
<1>6. mutex = t /\ \A u \in Threads : th[u].pc = "push" => u = t
  BY <1>1 DEF Holder
<1>7. p \notin kept
  BY <1>1, <1>2 DEF Fresh
<1>8. Types'
  BY <1>2, <1>3, <1>4, <1>5, AppendProperties DEF Types
<1>9. th'[t] = l /\ \A u \in Threads : u # t => th'[u] = th[u]
  BY <1>5 DEF Types
<1>10. OnOneStack'
  BY <1>1, <1>3, <1>5, <1>9 DEF OnOneStack, Busy
<1>11. Fresh'
  <2>1. \A q \in kept' : q.taker \notin untaken'
    BY <1>1, <1>2, <1>5 DEF Fresh, OnOneStack
  <2>2. ASSUME NEW u \in Threads, Busy(u)', NEW q \in kept', q.taker = th'[u].taker
        PROVE  q.stage = "B" /\ th'[u].stage = "E"
    <3>1. CASE u = t
      BY <1>1, <1>2, <1>3, <1>5, <1>9, <2>2, <3>1 DEF Fresh, Busy
    <3>2. CASE u # t
      BY <1>1, <1>2, <1>5, <1>9, <2>2, <3>2 DEF Fresh, Busy, OnOneStack
    <3> QED BY <3>1, <3>2
  <2>3. \A u \in Threads : th'[u].pc = "taking" => th'[u].stage = "B"
    BY <1>3, <1>9 DEF Fresh
  <2> QED BY <2>1, <2>2, <2>3 DEF Fresh
<1>12. Holder' /\ EndKnown'
  BY <1>3, <1>5, <1>6, <1>9 DEF Holder, EndKnown
<1>13. Stored'
  <2>1. Len(profiles') = Len(profiles) + 1
    BY <1>2, <1>4, AppendProperties DEF Types
  <2>2. IsFiniteSet(kept') /\ Cardinality(kept') = Cardinality(kept) + 1
    BY <1>5, <1>7, FS_AddElement DEF Stored
  <2>3. {profiles'[n] : n \in DOMAIN profiles'} = kept'
    <3>1. /\ DOMAIN profiles = 1 .. Len(profiles) /\ Len(profiles) \in Nat
          /\ DOMAIN profiles' = 1 .. Len(profiles) + 1
      BY <1>8, <2>1, LenProperties DEF Types
    <3>2. /\ \A n \in 1 .. Len(profiles) : profiles'[n] = profiles[n]
          /\ profiles'[Len(profiles) + 1] = p
      BY <1>2, <1>4, AppendProperties DEF Types
    <3>3. \A n \in DOMAIN profiles' : n \in DOMAIN profiles \/ n = Len(profiles) + 1
      BY <3>1
    <3>4. \A n \in DOMAIN profiles' : profiles'[n] \in kept'
      BY <1>5, <3>1, <3>2, <3>3 DEF Stored
    <3>5. \A q \in kept' : \E n \in DOMAIN profiles' : q = profiles'[n]
      <4> TAKE q \in kept'
      <4>1. CASE q = p
        BY <3>1, <3>2, <4>1
      <4>2. CASE q \in kept
        <5>1. PICK n \in DOMAIN profiles : q = profiles[n]
          BY <4>2 DEF Stored
        <5> QED BY <3>1, <3>2, <5>1
      <4> QED BY <1>5, <4>1, <4>2
    <3> QED BY <3>4, <3>5
  <2> QED BY <2>1, <2>2, <2>3 DEF Stored
<1>14. Late'
  <2> SUFFICES ASSUME ~record_enabled, switching = "idle"
               PROVE  /\ Len(profiles') + Cardinality(Looked') <= Cardinality(Threads)
                      /\ \A q, r \in kept' : q.taker = r.taker => q = r
                      /\ \A u \in Looked' : \A q \in kept' : q.taker # th'[u].taker
    BY <1>5 DEF Late
  <2>1. t \in Looked /\ Looked' = Looked \ {t}
    BY <1>1, <1>3, <1>9 DEF Looked
  <2>2. /\ IsFiniteSet(Looked) /\ Cardinality(Looked) \in Nat
        /\ Cardinality(Threads) \in Nat
    BY LookedFinite DEF Looked
  <2>3. Cardinality(Looked') = Cardinality(Looked) - 1
    BY <2>1, <2>2, FS_RemoveElement
  <2>4. Len(profiles') = Len(profiles) + 1 /\ Len(profiles) \in Nat
    BY <1>2, <1>4, AppendProperties, LenProperties DEF Types
  <2>5. Len(profiles') + Cardinality(Looked') <= Cardinality(Threads)
    BY <2>2, <2>3, <2>4 DEF Late
  <2>6. \A q \in kept : q.taker # p.taker
    BY <1>2, <2>1 DEF Late
  <2>7. \A q, r \in kept' : q.taker = r.taker => q = r
    BY <1>5, <2>6 DEF Late
  <2>8. \A u \in Looked' : \A q \in kept' : q.taker # th'[u].taker
    <3> TAKE u \in Looked'
    <3>1. u \in Threads /\ u # t /\ Busy(u) /\ th'[u] = th[u] /\ u \in Looked
      BY <1>9, <2>1 DEF Looked, Busy
    <3>2. th[u].taker # p.taker
      BY <1>1, <1>2, <3>1 DEF OnOneStack
    <3> QED BY <1>5, <3>1, <3>2 DEF Late
  <2> QED BY <2>5, <2>7, <2>8
<1> QED BY <1>8, <1>10, <1>11, <1>12, <1>13, <1>14

\* set_record_enabled(true) stores nothing; set_record_enabled(false) goes on
\* to Clear.
LEMMA SetRecordEnabledInv ==
  ASSUME IInv, NEW enabled \in BOOLEAN, SetRecordEnabled(enabled)
  PROVE  IInv'
<1> USE DEF IInv, SetRecordEnabled
<1>1. Types'
  BY DEF Types
<1>2. OnOneStack' /\ Fresh' /\ Holder' /\ EndKnown' /\ Stored'
  BY DEF OnOneStack, Fresh, Holder, EndKnown, Stored, Busy
<1>3. Late'
  BY DEF Late
<1> QED BY <1>1, <1>2, <1>3

\* Clear: nobody is inside push_back.
LEMMA ClearInv ==
  ASSUME IInv, Clear
  PROVE  IInv'
<1> USE DEF IInv, Clear
<1>1. Types'
  BY DEF Types
<1>2. OnOneStack' /\ Fresh' /\ Holder'
  BY DEF OnOneStack, Fresh, Holder, Busy
<1>3. EndKnown'
  BY DEF Holder, EndKnown
<1>4. Stored'
  BY FS_EmptySet DEF Stored
<1>5. Late'
  <2>1. Looked' = Looked /\ Len(profiles') = 0
    BY DEF Looked
  <2>2. Cardinality(Looked) \in Nat /\ Cardinality(Looked) <= Cardinality(Threads)
    BY LookedFinite DEF Looked
  <2> QED BY <2>1, <2>2 DEF Late
<1> QED BY <1>1, <1>2, <1>3, <1>4, <1>5

LEMMA NextInv == IInv /\ [Next]_vars => IInv'
<1> SUFFICES ASSUME IInv, [Next]_vars PROVE IInv'
  OBVIOUS
<1>1. ASSUME NEW t \in Threads, NEW k \in Takers, Construct(t, k) PROVE IInv'
  BY <1>1, ConstructInv
<1>2. ASSUME NEW t \in Threads, Destruct(t) \/ Check(t) \/ Lock(t) \/ Push(t)
      PROVE  IInv'
  BY <1>2, DestructInv, CheckInv, LockInv, PushInv
<1>3. ASSUME NEW enabled \in BOOLEAN, SetRecordEnabled(enabled) PROVE IInv'
  BY <1>3, SetRecordEnabledInv
<1>4. CASE Clear
  BY <1>4, ClearInv
<1>5. CASE UNCHANGED vars
  BY <1>5 DEF vars, IInv, Types, OnOneStack, Fresh, Holder, EndKnown, Stored,
              Late, Looked, Busy
<1> QED BY <1>1, <1>2, <1>3, <1>4, <1>5 DEF Next

-----------------------------------------------------------------------------

\* The inductive invariant holds in every state of the profiler.
THEOREM Invariance == Spec => []IInv
BY InitInv, NextInv, PTL DEF Spec

\* profiles_mutex_ belongs to the one thread that is inside push_back, which
\* knows the end of the vector, for any number of threads.
THEOREM MutexCorrect == Spec => []TypeOK
<1>1. IInv => TypeOK
  BY DEF IInv, Types, Holder, EndKnown, TypeOK
<1> QED BY <1>1, Invariance, PTL

\* SubmitProfile and Clear: no submitted profile is lost or stored twice,
\* whatever any number of threads do at the same time.
THEOREM ProfilesKept == Spec => []NoneLost
<1>1. IInv => NoneLost
  BY DEF IInv, Stored, NoneLost
<1> QED BY <1>1, Invariance, PTL

\* SubmitProfile against set_record_enabled: once the recording is off there is
\* at most one late profile for each thread, and one for each task.
THEOREM LateBounded == Spec => []FewLate
<1>1. IInv => FewLate
  <2> SUFFICES ASSUME IInv, ~record_enabled, switching = "idle"
               PROVE  /\ Len(profiles) <= Cardinality(Threads)
                      /\ \A m, n \in DOMAIN profiles :
                           profiles[m].taker = profiles[n].taker => m = n
    BY DEF FewLate
  <2> USE DEF IInv
  <2>1. Cardinality(Looked) \in Nat /\ Cardinality(Threads) \in Nat
    BY LookedFinite DEF Looked
  <2>2. Len(profiles) \in Nat /\ DOMAIN profiles = 1 .. Len(profiles)
    BY LenProperties DEF Types
  <2>3. Len(profiles) <= Cardinality(Threads)
    BY <2>1, <2>2 DEF Late
  <2>4. [n \in DOMAIN profiles |-> profiles[n]] \in Surjection(DOMAIN profiles, kept)
    BY DEF Stored, Surjection
  <2>5. IsFiniteSet(DOMAIN profiles) /\ Cardinality(DOMAIN profiles) = Len(profiles)
    <3>1. /\ IsFiniteSet(1 .. Len(profiles))
          /\ Cardinality(1 .. Len(profiles)) =
               IF 1 > Len(profiles) THEN 0 ELSE Len(profiles) - 1 + 1
      BY <2>2, FS_Interval
    <3> QED BY <2>2, <3>1
  <2>6. [n \in DOMAIN profiles |-> profiles[n]] \in Injection(DOMAIN profiles, kept)
    BY <2>4, <2>5, FS_SurjSameCardinalityImpliesInj DEF Stored
  <2>7. \A m, n \in DOMAIN profiles : profiles[m] = profiles[n] => m = n
    <3> DEFINE f == [n \in DOMAIN profiles |-> profiles[n]]
    <3>1. \A m, n \in DOMAIN profiles : f[m] = f[n] => m = n
      BY <2>6, Zenon DEF Injection, IsInjective
    <3> QED BY <3>1
  <2>8. \A n \in DOMAIN profiles : profiles[n] \in kept
    BY DEF Stored
  <2> QED BY <2>3, <2>7, <2>8 DEF Late
<1> QED BY <1>1, Invariance, PTL

=============================================================================
