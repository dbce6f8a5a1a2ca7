------------------------------ MODULE Profiler ------------------------------
(***************************************************************************)
(* Profiler and ProfileTaker (Profiler.h), used by several threads: each   *)
(* takes profiles while one thread switches the recording on and off.      *)
(*                                                                         *)
(* record_enabled_ is a plain bool that is looked at without the mutex of  *)
(* the profiles: a reader sees the value before or after a write, which    *)
(* the interleaving covers. std::vector::push_back is two steps, so that   *)
(* it is the mutex that keeps two of them apart. A profile is the taker it *)
(* comes from and its stage: "B" for the one of the constructor (the phase *)
(* the caller gives), "E" for the one the destructor makes. Times and      *)
(* names only go through.                                                  *)
(***************************************************************************)
EXTENDS Integers, Sequences, FiniteSets

CONSTANTS Threads, Takers, NULL,
          MaxSwitches   \* bound on calls of set_record_enabled

ASSUME ProfilerAssumption ==
  /\ NULL \notin Threads \cup Takers
  /\ IsFiniteSet(Threads)
  /\ MaxSwitches \in Nat

VARIABLES record_enabled,
          profiles,
          mutex,        \* the thread that holds profiles_mutex_, or NULL
          th,           \* where each thread is, and the taker on its stack
          switching,    \* what the switching thread is doing
          untaken,      \* the takers that have not been constructed
          switches,
          kept          \* the profiles submitted since the last Clear

vars == <<record_enabled, profiles, mutex, th, switching, untaken, switches, kept>>

Profile(taker, stage) == [taker |-> taker, stage |-> stage]

Idle == [pc |-> "idle", taker |-> NULL, stage |-> "B", size |-> 0]

Init ==
  /\ record_enabled = FALSE
  /\ profiles = <<>>
  /\ mutex = NULL
  /\ th = [t \in Threads |-> Idle]
  /\ switching = "idle"
  /\ untaken = Takers
  /\ switches = 0
  /\ kept = {}

Go(t, local) == th' = [th EXCEPT ![t] = local]

-----------------------------------------------------------------------------

\* ProfileTaker::ProfileTaker
Construct(t, k) ==
  /\ th[t].pc = "idle"
  /\ k \in untaken
  /\ untaken' = untaken \ {k}
  /\ Go(t, [Idle EXCEPT !.pc = "taking", !.taker = k])
  /\ UNCHANGED <<record_enabled, profiles, mutex, switching, switches, kept>>

\* ~ProfileTaker submits the profile it has, then one for the end.
Destruct(t) ==
  /\ th[t].pc = "taking"
  /\ Go(t, [th[t] EXCEPT !.pc = "check"])
  /\ UNCHANGED <<record_enabled, profiles, mutex, switching, untaken, switches, kept>>

\* Where a thread goes on after SubmitProfile.
Submitted(t) ==
  IF th[t].stage = "B"
  THEN [th[t] EXCEPT !.pc = "check", !.stage = "E", !.size = 0]
  ELSE Idle

\* Mutant: the profile of the end is submitted without a look at record_enabled_.
CheckBegin(t) ==
  /\ th[t].pc = "check"
  /\ Go(t, IF record_enabled \/ th[t].stage = "E"
           THEN [th[t] EXCEPT !.pc = "lock"] ELSE Submitted(t))
  /\ UNCHANGED <<record_enabled, profiles, mutex, switching, untaken, switches, kept>>

\* SubmitProfile looks at record_enabled_ before it takes the mutex.
Check(t) ==
  /\ th[t].pc = "check"
  /\ Go(t, IF record_enabled THEN [th[t] EXCEPT !.pc = "lock"] ELSE Submitted(t))
  /\ UNCHANGED <<record_enabled, profiles, mutex, switching, untaken, switches, kept>>

\* Mutant: the mutex is not waited for.
LockAtOnce(t) ==
  /\ th[t].pc = "lock"
  /\ mutex' = t
  /\ Go(t, [th[t] EXCEPT !.pc = "push", !.size = Len(profiles)])
  /\ UNCHANGED <<record_enabled, profiles, switching, untaken, switches, kept>>

\* push_back finds the end of the vector ...
Lock(t) ==
  /\ th[t].pc = "lock"
  /\ mutex = NULL
  /\ mutex' = t
  /\ Go(t, [th[t] EXCEPT !.pc = "push", !.size = Len(profiles)])
  /\ UNCHANGED <<record_enabled, profiles, switching, untaken, switches, kept>>

\* ... and puts the profile there; the mutex is given up.
Push(t) ==
  /\ th[t].pc = "push"
  /\ LET p == Profile(th[t].taker, th[t].stage)
     IN  /\ profiles' = Append(SubSeq(profiles, 1, th[t].size), p)
         /\ kept' = kept \cup {p}
  /\ mutex' = NULL
  /\ Go(t, Submitted(t))
  /\ UNCHANGED <<record_enabled, switching, untaken, switches>>

-----------------------------------------------------------------------------

\* set_record_enabled up to its call of Clear.
SetRecordEnabled(enabled) ==
  /\ switching = "idle"
  /\ switches < MaxSwitches
  /\ switches' = switches + 1
  /\ record_enabled' = enabled
  /\ switching' = IF enabled THEN "idle" ELSE "clear"
  /\ UNCHANGED <<profiles, mutex, th, untaken, kept>>

\* Clear.
Clear ==
  /\ mutex = NULL
  /\ switching = "clear"
  /\ switching' = "idle"
  /\ profiles' = <<>>
  /\ kept' = {}
  /\ UNCHANGED <<record_enabled, mutex, th, untaken, switches>>

-----------------------------------------------------------------------------

Next ==
  \/ \E t \in Threads :
       \/ \E k \in Takers : Construct(t, k)
       \/ Destruct(t) \/ Check(t) \/ Lock(t) \/ Push(t)
  \/ \E enabled \in BOOLEAN : SetRecordEnabled(enabled)
  \/ Clear

Spec == Init /\ [][Next]_vars

-----------------------------------------------------------------------------

\* The mutex belongs to the one thread that is inside push_back, which knows the
\* end of the vector.
TypeOK ==
  /\ {t \in Threads : th[t].pc = "push"} = {mutex} \ {NULL}
  /\ \A t \in Threads : th[t].pc = "push" => th[t].size = Len(profiles)
  /\ record_enabled \in BOOLEAN
  /\ switching \in {"idle", "clear"}

\* SubmitProfile and Clear: whatever the threads do at the same time, a profile
\* that was submitted while the recording is on is stored once, until Clear.
NoneLost ==
  /\ {profiles[n] : n \in DOMAIN profiles} = kept
  /\ Len(profiles) = Cardinality(kept)

\* SubmitProfile ("Ignore if not enabled") looks at record_enabled_ before it
\* waits for the mutex, so a profile may be stored after set_record_enabled(false)
\* has cleared them; but there is at most one of these for each thread, and none
\* for both ends of the same task.
FewLate ==
  ~record_enabled /\ switching = "idle" =>
    /\ Len(profiles) <= Cardinality(Threads)
    /\ \A m, n \in DOMAIN profiles : profiles[m].taker = profiles[n].taker => m = n

=============================================================================
