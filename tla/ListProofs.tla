----------------------------- MODULE ListProofs -----------------------------
(***************************************************************************)
(* What the operations on lists without duplicates return: the facts about *)
(* Tail, Append and ListRemove that the proofs about the pool, the queue   *)
(* and the threads share.                                                  *)
(***************************************************************************)
EXTENDS Lists, SequenceTheorems, FiniteSetTheorems, TLAPS

\* Induction over the natural numbers, in the form of sets: a set of them that
\* is not empty has a least element. The sets 0 .. k - 1 are ordered by
\* inclusion as their bounds are.
LEMMA LeastNumber ==
  ASSUME NEW T, T \subseteq Nat, T # {}
  PROVE  \E x \in T : \A y \in T : x <= y
<1> DEFINE Initial(k) == 0 .. (k - 1)
           U == {Initial(k) : k \in T}
<1>1. IsWellFoundedOn(StrictSubsetOrdering(Nat), FiniteSubsetsOf(Nat))
  BY FS_StrictSubsetOrderingWellFounded
<1>2. U # {}
  OBVIOUS
<1>3. U \subseteq FiniteSubsetsOf(Nat)
  <2> SUFFICES ASSUME NEW k \in T
               PROVE  Initial(k) \in FiniteSubsetsOf(Nat)
    OBVIOUS
  <2>1. IsFiniteSet(0 .. (k - 1))
    BY FS_Interval
  <2> QED BY <2>1 DEF FiniteSubsetsOf
<1> HIDE DEF U
<1>4. \E u \in U : \A v \in U : <<v, u>> \notin StrictSubsetOrdering(Nat)
  BY <1>1, <1>2, <1>3, WFMin
<1>5. PICK x \in T :
        \A y \in T : <<Initial(y), Initial(x)>> \notin StrictSubsetOrdering(Nat)
  BY <1>4 DEF U
<1>6. ASSUME NEW y \in T, y < x
      PROVE  FALSE
  <2>1. Initial(y) \subseteq Initial(x) /\ Initial(y) # Initial(x)
    <3>1. y \in Initial(x) /\ y \notin Initial(y)
      BY <1>6
    <3> QED BY <1>6, <3>1
  <2>2. Initial(y) \in SUBSET Nat /\ Initial(x) \in SUBSET Nat
    OBVIOUS
  <2>3. <<Initial(y), Initial(x)>> \in StrictSubsetOrdering(Nat)
    BY <2>1, <2>2 DEF StrictSubsetOrdering
  <2> QED BY <2>3, <1>5
<1> QED BY <1>6

\* pop_front.
LEMMA ListTail ==
  ASSUME NEW S, NEW s \in Seq(S), s # <<>>, Injective(s)
  PROVE  /\ Head(s) \in S
         /\ Head(s) \in Elements(s)
         /\ Tail(s) \in Seq(S)
         /\ Injective(Tail(s))
         /\ Elements(Tail(s)) = Elements(s) \ {Head(s)}
<1>1. /\ Head(s) = s[1] /\ 1 \in DOMAIN s /\ s[1] \in S
      /\ Tail(s) \in Seq(S) /\ Len(Tail(s)) = Len(s) - 1
      /\ \A k \in 1 .. Len(Tail(s)) : Tail(s)[k] = s[k + 1]
      /\ DOMAIN s = 1 .. Len(s) /\ DOMAIN Tail(s) = 1 .. Len(s) - 1
      /\ Len(s) \in Nat \ {0}
  OBVIOUS
<1>2. Injective(Tail(s))
  BY <1>1 DEF Injective
<1>3. ASSUME NEW k \in DOMAIN Tail(s)
      PROVE  Tail(s)[k] \in Elements(s) \ {Head(s)}
  BY <1>1 DEF Injective, Elements
<1>4. ASSUME NEW k \in DOMAIN s, s[k] # Head(s)
      PROVE  s[k] \in Elements(Tail(s))
  <2>1. k - 1 \in DOMAIN Tail(s) /\ Tail(s)[k - 1] = s[k]
    BY <1>1, <1>4
  <2> QED BY <2>1 DEF Elements
<1>5. Head(s) \in Elements(s)
  BY <1>1 DEF Elements
<1>6. Elements(Tail(s)) = Elements(s) \ {Head(s)}
  <2> HIDE DEF Injective
  <2> QED BY <1>3, <1>4, Zenon DEF Elements
<1> QED BY <1>1, <1>2, <1>5, <1>6

\* push_back of something that is not in the list.
LEMMA ListAppend ==
  ASSUME NEW S, NEW s \in Seq(S), NEW e \in S, Injective(s), e \notin Elements(s)
  PROVE  /\ Append(s, e) \in Seq(S)
         /\ Injective(Append(s, e))
         /\ Elements(Append(s, e)) = Elements(s) \cup {e}
<1>1. /\ Append(s, e) \in Seq(S) /\ Len(Append(s, e)) = Len(s) + 1
      /\ DOMAIN s = 1 .. Len(s) /\ DOMAIN Append(s, e) = 1 .. Len(s) + 1
      /\ \A k \in 1 .. Len(s) : Append(s, e)[k] = s[k]
      /\ Append(s, e)[Len(s) + 1] = e
      /\ Len(s) \in Nat
  OBVIOUS
<1>2. Injective(Append(s, e))
  BY <1>1 DEF Injective, Elements
<1>3. Elements(Append(s, e)) = Elements(s) \cup {e}
  <2>1. ASSUME NEW k \in DOMAIN Append(s, e)
        PROVE  Append(s, e)[k] \in Elements(s) \cup {e}
    BY <1>1 DEF Elements
  <2>2. ASSUME NEW k \in DOMAIN s
        PROVE  s[k] \in Elements(Append(s, e))
    BY <1>1 DEF Elements
  <2>3. e \in Elements(Append(s, e))
    BY <1>1 DEF Elements
  <2> QED BY <2>1, <2>2, <2>3 DEF Elements
<1> QED BY <1>1, <1>2, <1>3

\* std::list::remove.
LEMMA ListRemoval ==
  ASSUME NEW S, NEW s \in Seq(S), NEW e, Injective(s)
  PROVE  /\ ListRemove(s, e) \in Seq(S)
         /\ Injective(ListRemove(s, e))
         /\ Elements(ListRemove(s, e)) = Elements(s) \ {e}
<1>1. CASE e \notin Elements(s)
  BY <1>1 DEF ListRemove
<1>2. CASE e \in Elements(s)
  <2> DEFINE n == CHOOSE k \in DOMAIN s : s[k] = e
             t == [k \in 1 .. Len(s) - 1 |-> IF k < n THEN s[k] ELSE s[k + 1]]
  <2>1. n \in DOMAIN s /\ s[n] = e
    BY <1>2 DEF Elements
  <2> HIDE DEF n
  <2>2. /\ n \in 1 .. Len(s) /\ Len(s) \in Nat /\ DOMAIN s = 1 .. Len(s)
        /\ t \in Seq(S) /\ DOMAIN t = 1 .. Len(s) - 1
        /\ \A k \in 1 .. Len(s) - 1 : t[k] = IF k < n THEN s[k] ELSE s[k + 1]
    <3>1. /\ n \in 1 .. Len(s) /\ Len(s) \in Nat /\ DOMAIN s = 1 .. Len(s)
          /\ \A k \in 1 .. Len(s) : s[k] \in S
      BY <2>1
    <3>2. \A k \in 1 .. Len(s) - 1 : (IF k < n THEN s[k] ELSE s[k + 1]) \in S
      BY <3>1
    <3>3. Len(s) - 1 \in Nat
      BY <3>1
    <3>4. t \in Seq(S)
      BY <3>2, <3>3
    <3>5. /\ DOMAIN t = 1 .. Len(s) - 1
          /\ \A k \in 1 .. Len(s) - 1 : t[k] = IF k < n THEN s[k] ELSE s[k + 1]
      BY Zenon
    <3> HIDE DEF t
    <3> QED BY <3>1, <3>4, <3>5
  <2> HIDE DEF t
  <2>3. Injective(t)
    <3>1. SUFFICES ASSUME NEW k \in 1 .. Len(s) - 1, NEW m \in 1 .. Len(s) - 1,
                          t[k] = t[m]
                   PROVE  k = m
      BY <2>2 DEF Injective
    <3>2. /\ k \in DOMAIN s /\ k + 1 \in DOMAIN s
          /\ m \in DOMAIN s /\ m + 1 \in DOMAIN s
          /\ k \in Int /\ m \in Int /\ n \in Int
      BY <2>2
    <3>3. CASE k < n /\ m < n
      <4>1. s[k] = s[m]
        BY <2>2, <3>1, <3>3
      <4> QED BY <3>2, <4>1 DEF Injective
    <3>4. CASE k < n /\ ~(m < n)
      <4>1. s[k] = s[m + 1]
        BY <2>2, <3>1, <3>4
      <4>2. k = m + 1
        BY <3>2, <4>1 DEF Injective
      <4> QED BY <3>2, <3>4, <4>2
    <3>5. CASE ~(k < n) /\ m < n
      <4>1. s[k + 1] = s[m]
        BY <2>2, <3>1, <3>5
      <4>2. k + 1 = m
        BY <3>2, <4>1 DEF Injective
      <4> QED BY <3>2, <3>5, <4>2
    <3>6. CASE ~(k < n) /\ ~(m < n)
      <4>1. s[k + 1] = s[m + 1]
        BY <2>2, <3>1, <3>6
      <4>2. k + 1 = m + 1
        BY <3>2, <4>1 DEF Injective
      <4> QED BY <3>2, <4>2
    <3> QED BY <3>3, <3>4, <3>5, <3>6
  <2>4. ASSUME NEW k \in DOMAIN t
        PROVE  t[k] \in Elements(s) \ {e}
    <3>1. PICK m \in DOMAIN s : m # n /\ t[k] = s[m]
      <4>1. CASE k < n
        <5>1. k \in DOMAIN s /\ k # n /\ t[k] = s[k]
          BY <2>2, <4>1
        <5> QED BY <5>1
      <4>2. CASE ~(k < n)
        <5>1. k + 1 \in DOMAIN s /\ k + 1 # n /\ t[k] = s[k + 1]
          BY <2>2, <4>2
        <5> QED BY <5>1
      <4> QED BY <4>1, <4>2
    <3> QED BY <2>1, <3>1 DEF Injective, Elements
  <2>5. ASSUME NEW k \in DOMAIN s, s[k] # e
        PROVE  s[k] \in Elements(t)
    <3>1. PICK m \in DOMAIN t : t[m] = s[k]
      <4>1. CASE k < n
        BY <2>2, <4>1
      <4>2. CASE k > n
        <5>1. k - 1 \in DOMAIN t /\ t[k - 1] = s[k]
          BY <2>2, <4>2
        <5> QED BY <5>1
      <4> QED BY <2>1, <2>2, <2>5, <4>1, <4>2
    <3> QED BY <3>1 DEF Elements
  <2>6. ListRemove(s, e) = t
    BY <1>2 DEF ListRemove, n, t
  <2> QED BY <2>2, <2>3, <2>4, <2>5, <2>6 DEF Elements
<1> QED BY <1>1, <1>2

=============================================================================
