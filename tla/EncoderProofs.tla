---------------------------- MODULE EncoderProofs ----------------------------
(***************************************************************************)
(* Proofs about FcgiEncoder: the application parses what is sent.          *)
(*                                                                         *)
(* Bytes, Parse, ParsePairs and Content are folds. The first part proves   *)
(* what a fold is for nothing and for one more element, the next ones what *)
(* Content is made of, that ParsePairs finds the pairs in it, whatever the *)
(* lengths of strings, and that Parse finds the records by their lengths.  *)
(* A statement about all the items of a sequence follows by taking the     *)
(* first prefix for which it fails. Then Shape and Arrived are shown to be *)
(* inductive: between two operations the application is between two       *)
(* records, and has got what was sent.                                     *)
(***************************************************************************)
EXTENDS FcgiEncoder, ListProofs

-----------------------------------------------------------------------------
(***************************************************************************)
(* Largest elements.                                                       *)
(***************************************************************************)

\* The largest number of an interval.
LEMMA TopOfInterval ==
  ASSUME NEW m \in Nat \ {0}
  PROVE  Max(1 .. m) = m /\ (1 .. m) \ {m} = 1 .. m - 1
<1>1. m \in 1 .. m /\ \A i \in 1 .. m : m >= i
  OBVIOUS
<1>2. \A j \in 1 .. m : (\A i \in 1 .. m : j >= i) => j = m
  OBVIOUS
<1>3. Max(1 .. m) = m
  BY <1>1, <1>2 DEF Max
<1> QED BY <1>3

\* Without its largest element a set of numbers up to m has numbers up to
\* m - 1.
LEMMA TopRemoved ==
  ASSUME NEW m \in Nat \ {0}, NEW U \in SUBSET (1 .. m)
  PROVE  U \ {Max(U)} \in SUBSET (1 .. m - 1)
<1>1. CASE m \notin U
  <2>1. \A i \in U : i \in 1 .. m /\ i # m
    BY <1>1
  <2>2. \A i \in U : i \in 1 .. m - 1
    BY <2>1

  <2>3. U \ {Max(U)} \subseteq U
    OBVIOUS
  <2> QED BY <2>2, <2>3
<1>2. CASE m \in U
  <2>1. \A i \in U : m >= i
    OBVIOUS
  <2>2. \A j \in U : (\A i \in U : j >= i) => j = m
    BY <1>2
  <2>3. Max(U) = m
    BY <1>2, <2>1, <2>2 DEF Max
  <2> QED BY <2>3
<1> QED BY <1>1, <1>2

-----------------------------------------------------------------------------
(***************************************************************************)
(* The three folds of the model, by their steps. FoldLeft is defined by a  *)
(* recursive function on sets of indices, so that first of all there has   *)
(* to be such a function.                                                  *)
(***************************************************************************)

\* The function that adds up sizes.
Summing(s, k, f) ==
  [U \in SUBSET (1 .. k) |->
     IF U = {} THEN 0
     ELSE f[U \ {Max(U)}] + Size(s[Max(U)])]

\* There is such a function for every length.
LEMMA SummingExists ==
  ASSUME NEW s, NEW k \in Nat
  PROVE  \E f : f = Summing(s, k, f)
<1> DEFINE Bad == {m \in Nat : ~ \E f : f = Summing(s, m, f)}
<1> SUFFICES ASSUME Bad # {}
             PROVE  FALSE
  OBVIOUS
<1>1. PICK m \in Bad : \A i \in Bad : m <= i
  <2>1. Bad \subseteq Nat
    OBVIOUS
  <2> HIDE DEF Bad
  <2> QED BY <2>1, LeastNumber
<1>2. m \in Nat /\ ~ \E f : f = Summing(s, m, f)
  OBVIOUS
<1>3. CASE m = 0
  <2> DEFINE f == [U \in SUBSET (1 .. 0) |-> 0]
  <2>1. \A U \in SUBSET (1 .. 0) : U = {}
    OBVIOUS
  <2>2. f = Summing(s, 0, f)
    BY <2>1 DEF Summing
  <2> QED BY <1>2, <1>3, <2>2
<1>4. CASE m # 0
  <2>1. m - 1 \in Nat /\ m - 1 \notin Bad
    BY <1>1, <1>2, <1>4
  <2>2. PICK f : f = Summing(s, m - 1, f)
    BY <2>1
  <2> DEFINE g == Summing(s, m, f)
  <2>3. ASSUME NEW U \in SUBSET (1 .. m)
        PROVE  U \ {Max(U)} \in SUBSET (1 .. m - 1)
    BY <1>2, <1>4, TopRemoved
  <2>4. ASSUME NEW V \in SUBSET (1 .. m - 1)
        PROVE  f[V] = g[V]
    <3>1. f[V] = Summing(s, m - 1, f)[V]
      BY <2>2
    <3>2. V \in SUBSET (1 .. m)
      BY <1>2
    <3> QED BY <3>1, <3>2 DEF Summing
  <2> HIDE DEF g
  <2>5. \A U \in SUBSET (1 .. m) : f[U \ {Max(U)}] = g[U \ {Max(U)}]
    BY <2>3, <2>4
  <2>6. g = Summing(s, m, f)
    BY DEF g
  <2>7. g = Summing(s, m, g)
    BY <2>5, <2>6 DEF Summing
  <2> QED BY <1>2, <2>7
<1> QED BY <1>3, <1>4

\* Its values for the first m elements.
LEMMA SummingSteps ==
  ASSUME NEW s, NEW k \in Nat, NEW f, f = Summing(s, k, f)
  PROVE  /\ f[1 .. 0] = 0
         /\ \A m \in 1 .. k : f[1 .. m] = f[1 .. m - 1] + Size(s[m])
<1>1. f[1 .. 0] = 0
  <2>1. 1 .. 0 = {} /\ {} \in SUBSET (1 .. k)
    OBVIOUS
  <2> QED BY <2>1 DEF Summing
<1>2. ASSUME NEW m \in 1 .. k
      PROVE  f[1 .. m] = f[1 .. m - 1] + Size(s[m])
  <2>1. 1 .. m \in SUBSET (1 .. k) /\ 1 .. m # {}
    OBVIOUS
  <2>2. Max(1 .. m) = m /\ (1 .. m) \ {m} = 1 .. m - 1
    BY TopOfInterval
  <2>3. f[1 .. m] = Summing(s, k, f)[1 .. m]
    OBVIOUS
  <2> QED BY <2>1, <2>2, <2>3 DEF Summing
<1> QED BY <1>1, <1>2

\* Bytes is the last of them.
LEMMA BytesDef ==
  ASSUME NEW S, NEW s \in Seq(S)
  PROVE  \E f : f = Summing(s, Len(s), f) /\ Bytes(s) = f[1 .. Len(s)]
<1> DEFINE g == CHOOSE f : f = Summing(s, Len(s), f)
<1>1. DOMAIN s = 1 .. Len(s) /\ Len(s) \in Nat
  OBVIOUS
<1>2. g = Summing(s, Len(s), g)
  BY <1>1, SummingExists
<1>3. Bytes(s) = (CHOOSE f : f = [U \in SUBSET (DOMAIN s) |->
                       IF U = {} THEN 0
                       ELSE f[U \ {Max(U)}] + Size(s[Max(U)])])[DOMAIN s]
  BY DEF Bytes, FoldLeft, MapThenFoldSet
<1>4. Bytes(s) = g[1 .. Len(s)]
  BY <1>1, <1>3 DEF Summing
<1> HIDE DEF g
<1> QED BY <1>2, <1>4

\* Nothing has no bytes.
LEMMA BytesEmpty == Bytes(<<>>) = 0
<1>1. <<>> \in Seq({}) /\ Len(<<>>) = 0
  OBVIOUS
<1>2. PICK f : f = Summing(<<>>, 0, f) /\ Bytes(<<>>) = f[1 .. 0]
  BY <1>1, BytesDef
<1> QED BY <1>2, SummingSteps

\* Bytes adds up the sizes of the items, one by one.
LEMMA BytesAppend ==
  ASSUME NEW S, NEW s \in Seq(S), NEW e \in S
  PROVE  Bytes(Append(s, e)) = Bytes(s) + Size(e)
<1> DEFINE n == Len(s)
           t == Append(s, e)
<1>1. /\ n \in Nat /\ t \in Seq(S) /\ Len(t) = n + 1
      /\ \A m \in 1 .. n : t[m] = s[m]
      /\ t[n + 1] = e
  OBVIOUS
<1> HIDE DEF n, t
<1>2. PICK f : f = Summing(s, n, f) /\ Bytes(s) = f[1 .. n]
  BY BytesDef DEF n
<1>3. PICK g : g = Summing(t, n + 1, g) /\ Bytes(t) = g[1 .. n + 1]
  BY <1>1, BytesDef
<1>4. /\ f[1 .. 0] = 0
      /\ \A m \in 1 .. n : f[1 .. m] = f[1 .. m - 1] + Size(s[m])
  BY <1>1, <1>2, SummingSteps
<1>5. /\ g[1 .. 0] = 0
      /\ \A m \in 1 .. n + 1 : g[1 .. m] = g[1 .. m - 1] + Size(t[m])
  BY <1>1, <1>3, SummingSteps
<1> DEFINE Bad == {m \in 0 .. n : f[1 .. m] # g[1 .. m]}
<1>6. Bad = {}
  <2> SUFFICES ASSUME Bad # {}
               PROVE  FALSE
    OBVIOUS
  <2>1. PICK m \in Bad : \A i \in Bad : m <= i
    <3>1. Bad \subseteq Nat
      BY <1>1
    <3> HIDE DEF Bad
    <3> QED BY <3>1, LeastNumber
  <2>2. m \in 0 .. n /\ f[1 .. m] # g[1 .. m]
    OBVIOUS
  <2>3. m # 0
    BY <1>4, <1>5, <2>2
  <2>4. m - 1 \in 0 .. n /\ m \in 1 .. n /\ m \in 1 .. n + 1 /\ ~(m <= m - 1)
    BY <1>1, <2>2, <2>3
  <2>5. f[1 .. m - 1] = g[1 .. m - 1]
    BY <2>1, <2>4
  <2> QED BY <1>1, <1>4, <1>5, <2>2, <2>4, <2>5
<1>7. f[1 .. n] = g[1 .. n]
  BY <1>1, <1>6
<1>8. n + 1 \in 1 .. n + 1 /\ (n + 1) - 1 = n
  BY <1>1
<1>9. g[1 .. n + 1] = g[1 .. n] + Size(e)
  BY <1>1, <1>5, <1>8
<1> QED BY <1>2, <1>3, <1>7, <1>9 DEF t

\* The function that receives items.
Receiving(s, k, f) ==
  [U \in SUBSET (1 .. k) |->
     IF U = {} THEN Silence
     ELSE Receive(f[U \ {Max(U)}], s[Max(U)])]

\* There is such a function for every length.
LEMMA ReceivingExists ==
  ASSUME NEW s, NEW k \in Nat
  PROVE  \E f : f = Receiving(s, k, f)
<1> DEFINE Bad == {m \in Nat : ~ \E f : f = Receiving(s, m, f)}
<1> SUFFICES ASSUME Bad # {}
             PROVE  FALSE
  OBVIOUS
<1>1. PICK m \in Bad : \A i \in Bad : m <= i
  <2>1. Bad \subseteq Nat
    OBVIOUS
  <2> HIDE DEF Bad
  <2> QED BY <2>1, LeastNumber
<1>2. m \in Nat /\ ~ \E f : f = Receiving(s, m, f)
  OBVIOUS
<1>3. CASE m = 0
  <2> DEFINE f == [U \in SUBSET (1 .. 0) |-> Silence]
  <2>1. \A U \in SUBSET (1 .. 0) : U = {}
    OBVIOUS
  <2>2. f = Receiving(s, 0, f)
    BY <2>1 DEF Receiving
  <2> QED BY <1>2, <1>3, <2>2
<1>4. CASE m # 0
  <2>1. m - 1 \in Nat /\ m - 1 \notin Bad
    BY <1>1, <1>2, <1>4
  <2>2. PICK f : f = Receiving(s, m - 1, f)
    BY <2>1
  <2> DEFINE g == Receiving(s, m, f)
  <2>3. ASSUME NEW U \in SUBSET (1 .. m)
        PROVE  U \ {Max(U)} \in SUBSET (1 .. m - 1)
    BY <1>2, <1>4, TopRemoved
  <2>4. ASSUME NEW V \in SUBSET (1 .. m - 1)
        PROVE  f[V] = g[V]
    <3>1. f[V] = Receiving(s, m - 1, f)[V]
      BY <2>2
    <3>2. V \in SUBSET (1 .. m)
      BY <1>2
    <3> QED BY <3>1, <3>2 DEF Receiving
  <2> HIDE DEF g
  <2>5. \A U \in SUBSET (1 .. m) : f[U \ {Max(U)}] = g[U \ {Max(U)}]
    BY <2>3, <2>4
  <2>6. g = Receiving(s, m, f)
    BY DEF g
  <2>7. g = Receiving(s, m, g)
    BY <2>5, <2>6 DEF Receiving
  <2> QED BY <1>2, <2>7
<1> QED BY <1>3, <1>4

\* Its values for the first m elements.
LEMMA ReceivingSteps ==
  ASSUME NEW s, NEW k \in Nat, NEW f, f = Receiving(s, k, f)
  PROVE  /\ f[1 .. 0] = Silence
         /\ \A m \in 1 .. k : f[1 .. m] = Receive(f[1 .. m - 1], s[m])
<1>1. f[1 .. 0] = Silence
  <2>1. 1 .. 0 = {} /\ {} \in SUBSET (1 .. k)
    OBVIOUS
  <2> QED BY <2>1 DEF Receiving
<1>2. ASSUME NEW m \in 1 .. k
      PROVE  f[1 .. m] = Receive(f[1 .. m - 1], s[m])
  <2>1. 1 .. m \in SUBSET (1 .. k) /\ 1 .. m # {}
    OBVIOUS
  <2>2. Max(1 .. m) = m /\ (1 .. m) \ {m} = 1 .. m - 1
    BY TopOfInterval
  <2>3. f[1 .. m] = Receiving(s, k, f)[1 .. m]
    OBVIOUS
  <2> QED BY <2>1, <2>2, <2>3 DEF Receiving
<1> QED BY <1>1, <1>2

\* Parse is the last of them.
LEMMA ParseDef ==
  ASSUME NEW S, NEW s \in Seq(S)
  PROVE  \E f : f = Receiving(s, Len(s), f) /\ Parse(s) = f[1 .. Len(s)]
<1> DEFINE g == CHOOSE f : f = Receiving(s, Len(s), f)
<1>1. DOMAIN s = 1 .. Len(s) /\ Len(s) \in Nat
  OBVIOUS
<1>2. g = Receiving(s, Len(s), g)
  BY <1>1, ReceivingExists
<1>3. Parse(s) = (CHOOSE f : f = [U \in SUBSET (DOMAIN s) |->
                       IF U = {} THEN Silence
                       ELSE Receive(f[U \ {Max(U)}], s[Max(U)])])[DOMAIN s]
  BY DEF Parse, FoldLeft, MapThenFoldSet
<1>4. Parse(s) = g[1 .. Len(s)]
  BY <1>1, <1>3 DEF Receiving
<1> HIDE DEF g
<1> QED BY <1>2, <1>4

\* A peer that received nothing.
LEMMA ParseEmpty == Parse(<<>>) = Silence
<1>1. <<>> \in Seq({}) /\ Len(<<>>) = 0
  OBVIOUS
<1>2. PICK f : f = Receiving(<<>>, 0, f) /\ Parse(<<>>) = f[1 .. 0]
  BY <1>1, ParseDef
<1> QED BY <1>2, ReceivingSteps

\* Parse receives the items one by one.
LEMMA ParseAppend ==
  ASSUME NEW S, NEW s \in Seq(S), NEW e \in S
  PROVE  Parse(Append(s, e)) = Receive(Parse(s), e)
<1> DEFINE n == Len(s)
           t == Append(s, e)
<1>1. /\ n \in Nat /\ t \in Seq(S) /\ Len(t) = n + 1
      /\ \A m \in 1 .. n : t[m] = s[m]
      /\ t[n + 1] = e
  OBVIOUS
<1> HIDE DEF n, t
<1>2. PICK f : f = Receiving(s, n, f) /\ Parse(s) = f[1 .. n]
  BY ParseDef DEF n
<1>3. PICK g : g = Receiving(t, n + 1, g) /\ Parse(t) = g[1 .. n + 1]
  BY <1>1, ParseDef
<1>4. /\ f[1 .. 0] = Silence
      /\ \A m \in 1 .. n : f[1 .. m] = Receive(f[1 .. m - 1], s[m])
  BY <1>1, <1>2, ReceivingSteps
<1>5. /\ g[1 .. 0] = Silence
      /\ \A m \in 1 .. n + 1 : g[1 .. m] = Receive(g[1 .. m - 1], t[m])
  BY <1>1, <1>3, ReceivingSteps
<1> DEFINE Bad == {m \in 0 .. n : f[1 .. m] # g[1 .. m]}
<1>6. Bad = {}
  <2> SUFFICES ASSUME Bad # {}
               PROVE  FALSE
    OBVIOUS
  <2>1. PICK m \in Bad : \A i \in Bad : m <= i
    <3>1. Bad \subseteq Nat
      BY <1>1
    <3> HIDE DEF Bad
    <3> QED BY <3>1, LeastNumber
  <2>2. m \in 0 .. n /\ f[1 .. m] # g[1 .. m]
    OBVIOUS
  <2>3. m # 0
    BY <1>4, <1>5, <2>2
  <2>4. m - 1 \in 0 .. n /\ m \in 1 .. n /\ m \in 1 .. n + 1 /\ ~(m <= m - 1)
    BY <1>1, <2>2, <2>3
  <2>5. f[1 .. m - 1] = g[1 .. m - 1]
    BY <2>1, <2>4
  <2> QED BY <1>1, <1>4, <1>5, <2>2, <2>4, <2>5
<1>7. f[1 .. n] = g[1 .. n]
  BY <1>1, <1>6
<1>8. n + 1 \in 1 .. n + 1 /\ (n + 1) - 1 = n
  BY <1>1
<1>9. g[1 .. n + 1] = Receive(g[1 .. n], e)
  BY <1>1, <1>5, <1>8
<1> QED BY <1>2, <1>3, <1>7, <1>9 DEF t

\* What is decoded of nothing.
NoPairs == [map |-> <<>>, pair |-> NoPair, garbled |-> FALSE]

\* The function that decodes pairs.
Decoding(s, k, f) ==
  [U \in SUBSET (1 .. k) |->
     IF U = {} THEN NoPairs
     ELSE Decode(f[U \ {Max(U)}], s[Max(U)])]

\* There is such a function for every length.
LEMMA DecodingExists ==
  ASSUME NEW s, NEW k \in Nat
  PROVE  \E f : f = Decoding(s, k, f)
<1> DEFINE Bad == {m \in Nat : ~ \E f : f = Decoding(s, m, f)}
<1> SUFFICES ASSUME Bad # {}
             PROVE  FALSE
  OBVIOUS
<1>1. PICK m \in Bad : \A i \in Bad : m <= i
  <2>1. Bad \subseteq Nat
    OBVIOUS
  <2> HIDE DEF Bad
  <2> QED BY <2>1, LeastNumber
<1>2. m \in Nat /\ ~ \E f : f = Decoding(s, m, f)
  OBVIOUS
<1>3. CASE m = 0
  <2> DEFINE f == [U \in SUBSET (1 .. 0) |-> NoPairs]
  <2>1. \A U \in SUBSET (1 .. 0) : U = {}
    OBVIOUS
  <2>2. f = Decoding(s, 0, f)
    BY <2>1 DEF Decoding
  <2> QED BY <1>2, <1>3, <2>2
<1>4. CASE m # 0
  <2>1. m - 1 \in Nat /\ m - 1 \notin Bad
    BY <1>1, <1>2, <1>4
  <2>2. PICK f : f = Decoding(s, m - 1, f)
    BY <2>1
  <2> DEFINE g == Decoding(s, m, f)
  <2>3. ASSUME NEW U \in SUBSET (1 .. m)
        PROVE  U \ {Max(U)} \in SUBSET (1 .. m - 1)
    BY <1>2, <1>4, TopRemoved
  <2>4. ASSUME NEW V \in SUBSET (1 .. m - 1)
        PROVE  f[V] = g[V]
    <3>1. f[V] = Decoding(s, m - 1, f)[V]
      BY <2>2
    <3>2. V \in SUBSET (1 .. m)
      BY <1>2
    <3> QED BY <3>1, <3>2 DEF Decoding
  <2> HIDE DEF g
  <2>5. \A U \in SUBSET (1 .. m) : f[U \ {Max(U)}] = g[U \ {Max(U)}]
    BY <2>3, <2>4
  <2>6. g = Decoding(s, m, f)
    BY DEF g
  <2>7. g = Decoding(s, m, g)
    BY <2>5, <2>6 DEF Decoding
  <2> QED BY <1>2, <2>7
<1> QED BY <1>3, <1>4

\* Its values for the first m elements.
LEMMA DecodingSteps ==
  ASSUME NEW s, NEW k \in Nat, NEW f, f = Decoding(s, k, f)
  PROVE  /\ f[1 .. 0] = NoPairs
         /\ \A m \in 1 .. k : f[1 .. m] = Decode(f[1 .. m - 1], s[m])
<1>1. f[1 .. 0] = NoPairs
  <2>1. 1 .. 0 = {} /\ {} \in SUBSET (1 .. k)
    OBVIOUS
  <2> QED BY <2>1 DEF Decoding
<1>2. ASSUME NEW m \in 1 .. k
      PROVE  f[1 .. m] = Decode(f[1 .. m - 1], s[m])
  <2>1. 1 .. m \in SUBSET (1 .. k) /\ 1 .. m # {}
    OBVIOUS
  <2>2. Max(1 .. m) = m /\ (1 .. m) \ {m} = 1 .. m - 1
    BY TopOfInterval
  <2>3. f[1 .. m] = Decoding(s, k, f)[1 .. m]
    OBVIOUS
  <2> QED BY <2>1, <2>2, <2>3 DEF Decoding
<1> QED BY <1>1, <1>2

\* ParsePairs is the last of them.
LEMMA ParsePairsDef ==
  ASSUME NEW S, NEW s \in Seq(S)
  PROVE  \E f : f = Decoding(s, Len(s), f) /\ ParsePairs(s) = f[1 .. Len(s)]
<1> DEFINE g == CHOOSE f : f = Decoding(s, Len(s), f)
<1>1. DOMAIN s = 1 .. Len(s) /\ Len(s) \in Nat
  OBVIOUS
<1>2. g = Decoding(s, Len(s), g)
  BY <1>1, DecodingExists
<1>3. ParsePairs(s) = (CHOOSE f : f = [U \in SUBSET (DOMAIN s) |->
                       IF U = {} THEN NoPairs
                       ELSE Decode(f[U \ {Max(U)}], s[Max(U)])])[DOMAIN s]
  BY DEF ParsePairs, NoPairs, FoldLeft, MapThenFoldSet
<1>4. ParsePairs(s) = g[1 .. Len(s)]
  BY <1>1, <1>3 DEF Decoding
<1> HIDE DEF g
<1> QED BY <1>2, <1>4

\* Before the first pair.
LEMMA ParsePairsEmpty == ParsePairs(<<>>) = NoPairs
<1>1. <<>> \in Seq({}) /\ Len(<<>>) = 0
  OBVIOUS
<1>2. PICK f : f = Decoding(<<>>, 0, f) /\ ParsePairs(<<>>) = f[1 .. 0]
  BY <1>1, ParsePairsDef
<1> QED BY <1>2, DecodingSteps

\* ParsePairs decodes the items one by one.
LEMMA ParsePairsAppend ==
  ASSUME NEW S, NEW s \in Seq(S), NEW e \in S
  PROVE  ParsePairs(Append(s, e)) = Decode(ParsePairs(s), e)
<1> DEFINE n == Len(s)
           t == Append(s, e)
<1>1. /\ n \in Nat /\ t \in Seq(S) /\ Len(t) = n + 1
      /\ \A m \in 1 .. n : t[m] = s[m]
      /\ t[n + 1] = e
  OBVIOUS
<1> HIDE DEF n, t
<1>2. PICK f : f = Decoding(s, n, f) /\ ParsePairs(s) = f[1 .. n]
  BY ParsePairsDef DEF n
<1>3. PICK g : g = Decoding(t, n + 1, g) /\ ParsePairs(t) = g[1 .. n + 1]
  BY <1>1, ParsePairsDef
<1>4. /\ f[1 .. 0] = NoPairs
      /\ \A m \in 1 .. n : f[1 .. m] = Decode(f[1 .. m - 1], s[m])
  BY <1>1, <1>2, DecodingSteps
<1>5. /\ g[1 .. 0] = NoPairs
      /\ \A m \in 1 .. n + 1 : g[1 .. m] = Decode(g[1 .. m - 1], t[m])
  BY <1>1, <1>3, DecodingSteps
<1> DEFINE Bad == {m \in 0 .. n : f[1 .. m] # g[1 .. m]}
<1>6. Bad = {}
  <2> SUFFICES ASSUME Bad # {}
               PROVE  FALSE
    OBVIOUS
  <2>1. PICK m \in Bad : \A i \in Bad : m <= i
    <3>1. Bad \subseteq Nat
      BY <1>1
    <3> HIDE DEF Bad
    <3> QED BY <3>1, LeastNumber
  <2>2. m \in 0 .. n /\ f[1 .. m] # g[1 .. m]
    OBVIOUS
  <2>3. m # 0
    BY <1>4, <1>5, <2>2
  <2>4. m - 1 \in 0 .. n /\ m \in 1 .. n /\ m \in 1 .. n + 1 /\ ~(m <= m - 1)
    BY <1>1, <2>2, <2>3
  <2>5. f[1 .. m - 1] = g[1 .. m - 1]
    BY <2>1, <2>4
  <2> QED BY <1>1, <1>4, <1>5, <2>2, <2>4, <2>5
<1>7. f[1 .. n] = g[1 .. n]
  BY <1>1, <1>6
<1>8. n + 1 \in 1 .. n + 1 /\ (n + 1) - 1 = n
  BY <1>1
<1>9. g[1 .. n + 1] = Decode(g[1 .. n], e)
  BY <1>1, <1>5, <1>8
<1> QED BY <1>2, <1>3, <1>7, <1>9 DEF t

-----------------------------------------------------------------------------
(***************************************************************************)
(* Items. Every item that is sent has a size, which is not 0.              *)
(***************************************************************************)

Headers == [kind : {"header"}, type : Streams, idB1 : Uchar, idB0 : Uchar,
            lenB1 : Uchar, lenB0 : Uchar]

ByteItems == [kind : {"byte"}, byte : Uchar]

\* The items of strings of which one is in S.
DataItems(S) == {[kind |-> "data", data |-> string] : string \in S}

\* The strings of requests.
Names(r)  == DOMAIN PostParams(r)
Values(r) == {PostParams(r)[name] : name \in Names(r)}
Chunks(r) == {<<r.chunks[k]>> : k \in DOMAIN r.chunks}
Strings == {string \in UNION {Names(r) \cup Values(r) \cup Chunks(r) : r \in Requests} :
              StrLen(string) # 0}

Contents == {BeginBody} \cup ByteItems \cup DataItems(Strings)

Items == Headers \cup Contents

\* Every string of a request has a length.
LEMMA StringLengths ==
  ASSUME NEW r \in Requests, NEW string \in Names(r) \cup Values(r) \cup Chunks(r)
  PROVE  StrLen(string) \in Nat
BY EncoderAssumption DEF Names, Values, Chunks

\* Items take bytes, and contents of records are no headers.
LEMMA Sizes ==
  /\ \A item \in Items : Size(item) \in Nat \ {0}
  /\ \A item \in Contents : item.kind # "header"
  /\ \A item \in Headers : item.kind = "header"
<1>1. \A item \in Headers : Size(item) = 8 /\ item.kind = "header"
  BY DEF Headers, Size
<1>2. Size(BeginBody) = 8 /\ BeginBody.kind # "header"
  BY DEF BeginBody, Size
<1>3. \A item \in ByteItems : Size(item) = 1 /\ item.kind # "header"
  BY DEF ByteItems, Size
<1>4. ASSUME NEW item \in DataItems(Strings)
      PROVE  Size(item) \in Nat \ {0} /\ item.kind # "header"
  <2>1. PICK string \in Strings : item = [kind |-> "data", data |-> string]
    BY DEF DataItems
  <2>2. StrLen(string) \in Nat \ {0}
    BY StringLengths DEF Strings
  <2> QED BY <2>1, <2>2 DEF Size
<1> QED BY <1>1, <1>2, <1>3, <1>4 DEF Items, Contents

\* One more element of a sequence that is put at the end of another.
LEMMA PrefixSteps ==
  ASSUME NEW S, NEW s \in Seq(S), NEW t \in Seq(S)
  PROVE  /\ Len(t) \in Nat
         /\ SubSeq(t, 1, 0) = <<>> /\ s \o <<>> = s
         /\ SubSeq(t, 1, Len(t)) = t
         /\ \A k \in 0 .. Len(t) : SubSeq(t, 1, k) \in Seq(S) /\ s \o SubSeq(t, 1, k) \in Seq(S)
         /\ \A k \in 1 .. Len(t) :
              /\ t[k] \in S
              /\ SubSeq(t, 1, k) = Append(SubSeq(t, 1, k - 1), t[k])
              /\ s \o SubSeq(t, 1, k) = Append(s \o SubSeq(t, 1, k - 1), t[k])
<1>1. Len(t) \in Nat /\ DOMAIN t = 1 .. Len(t)
  OBVIOUS
<1>2. SubSeq(t, 1, 0) = <<>> /\ s \o <<>> = s
  OBVIOUS
<1>3. SubSeq(t, 1, Len(t)) = t
  OBVIOUS
<1>4. ASSUME NEW k \in 0 .. Len(t)
      PROVE  SubSeq(t, 1, k) \in Seq(S) /\ s \o SubSeq(t, 1, k) \in Seq(S)
  <2>1. SubSeq(t, 1, k) \in Seq(S)
    BY <1>1
  <2> QED BY <2>1
<1>5. ASSUME NEW k \in 1 .. Len(t)
      PROVE  /\ t[k] \in S
             /\ SubSeq(t, 1, k) = Append(SubSeq(t, 1, k - 1), t[k])
             /\ s \o SubSeq(t, 1, k) = Append(s \o SubSeq(t, 1, k - 1), t[k])
  <2> DEFINE u == SubSeq(t, 1, k - 1)
  <2>1. t[k] \in S
    BY <1>1
  <2>2. u \in Seq(S) /\ Len(u) = k - 1 /\ \A i \in 1 .. k - 1 : u[i] = t[i]
    BY <1>1
  <2>3. /\ SubSeq(t, 1, k) \in Seq(S) /\ Len(SubSeq(t, 1, k)) = k
        /\ \A i \in 1 .. k : SubSeq(t, 1, k)[i] = t[i]
    BY <1>1
  <2> HIDE DEF u
  <2>4. SubSeq(t, 1, k) = Append(u, t[k])
    BY <2>1, <2>2, <2>3
  <2>5. s \o Append(u, t[k]) = Append(s \o u, t[k])
    BY <2>1, <2>2
  <2> QED BY <2>1, <2>4, <2>5 DEF u
<1> QED BY <1>1, <1>2, <1>3, <1>4, <1>5

\* Bytes counts.
LEMMA BytesCount ==
  ASSUME NEW s \in Seq(Items), NEW t \in Seq(Items)
  PROVE  /\ Bytes(s) \in Nat
         /\ Bytes(s \o t) = Bytes(s) + Bytes(t)
<1>1. ASSUME NEW u \in Seq(Items), NEW item \in Items
      PROVE  Bytes(Append(u, item)) = Bytes(u) + Size(item) /\ Size(item) \in Nat
  BY BytesAppend, Sizes
<1>2. ASSUME NEW u \in Seq(Items)
      PROVE  Bytes(u) \in Nat
  <2>0. /\ SubSeq(u, 1, 0) = <<>> /\ SubSeq(u, 1, Len(u)) = u
        /\ Len(u) \in 0 .. Len(u)
    OBVIOUS
  <2> DEFINE Bad == {k \in 0 .. Len(u) : Bytes(SubSeq(u, 1, k)) \notin Nat}
  <2> SUFFICES ASSUME Bad # {}
               PROVE  FALSE
    BY <2>0
  <2>1. PICK k \in Bad : \A i \in Bad : k <= i
    <3>1. Bad \subseteq Nat
      OBVIOUS
    <3> HIDE DEF Bad
    <3> QED BY <3>1, LeastNumber
  <2>2. k # 0
    <3>1. Bytes(SubSeq(u, 1, 0)) = 0
      BY <2>0, BytesEmpty, Zenon
    <3> QED BY <3>1
  <2>3. k \in 1 .. Len(u) /\ k - 1 \in 0 .. Len(u) /\ k - 1 \notin Bad
    BY <2>1, <2>2
  <2>4. /\ SubSeq(u, 1, k) = Append(SubSeq(u, 1, k - 1), u[k]) /\ u[k] \in Items
        /\ SubSeq(u, 1, k - 1) \in Seq(Items)
    BY <2>3, PrefixSteps
  <2>5. Bytes(SubSeq(u, 1, k - 1)) \in Nat
    BY <2>3
  <2>6. Bytes(SubSeq(u, 1, k)) \in Nat
    <3>1. /\ Bytes(SubSeq(u, 1, k)) = Bytes(SubSeq(u, 1, k - 1)) + Size(u[k])
          /\ Size(u[k]) \in Nat
      BY <1>1, <2>4, Zenon
    <3> QED BY <2>5, <3>1
  <2> QED BY <2>6
<1> DEFINE P(k) == Bytes(s \o SubSeq(t, 1, k)) = Bytes(s) + Bytes(SubSeq(t, 1, k))
           Bad == {k \in 0 .. Len(t) : ~P(k)}
<1>3. Bad = {}
  <2> SUFFICES ASSUME Bad # {}
               PROVE  FALSE
    OBVIOUS
  <2>1. PICK k \in Bad : \A i \in Bad : k <= i
    <3>1. Bad \subseteq Nat
      OBVIOUS
    <3> HIDE DEF Bad
    <3> QED BY <3>1, LeastNumber
  <2>2. k # 0
    <3>1. SubSeq(t, 1, 0) = <<>> /\ s \o <<>> = s
      OBVIOUS
    <3>2. Bytes(s \o SubSeq(t, 1, 0)) = Bytes(s) /\ Bytes(SubSeq(t, 1, 0)) = 0
      BY <3>1, BytesEmpty, Zenon
    <3> QED BY <1>2, <3>2
  <2>3. k \in 1 .. Len(t) /\ k - 1 \in 0 .. Len(t) /\ k - 1 \notin Bad
    BY <2>1, <2>2
  <2>4. /\ SubSeq(t, 1, k) = Append(SubSeq(t, 1, k - 1), t[k]) /\ t[k] \in Items
        /\ s \o SubSeq(t, 1, k) = Append(s \o SubSeq(t, 1, k - 1), t[k])
        /\ SubSeq(t, 1, k - 1) \in Seq(Items) /\ s \o SubSeq(t, 1, k - 1) \in Seq(Items)
    BY <2>3, PrefixSteps
  <2>5. P(k - 1)
    BY <2>3
  <2>6. /\ Bytes(SubSeq(t, 1, k)) = Bytes(SubSeq(t, 1, k - 1)) + Size(t[k])
        /\ Bytes(s \o SubSeq(t, 1, k)) = Bytes(s \o SubSeq(t, 1, k - 1)) + Size(t[k])
        /\ Size(t[k]) \in Nat
    BY <1>1, <2>4, Zenon
  <2>7. Bytes(SubSeq(t, 1, k - 1)) \in Nat /\ Bytes(s) \in Nat
    BY <1>2, <2>4
  <2>8. P(k)
    BY <2>5, <2>6, <2>7
  <2> QED BY <2>8
<1>4. P(Len(t))
  <2>1. Len(t) \in 0 .. Len(t)
    OBVIOUS
  <2> QED BY <1>3, <2>1
<1> QED BY <1>2, <1>4, PrefixSteps

\* The bytes of one item.
LEMMA BytesOne ==
  ASSUME NEW item \in Items
  PROVE  Bytes(<<item>>) = Size(item)
<1>1. <<>> \in Seq(Items) /\ <<item>> = Append(<<>>, item)
  OBVIOUS
<1>2. Bytes(<<item>>) = Bytes(<<>>) + Size(item)
  BY <1>1, BytesAppend, Zenon
<1> QED BY <1>2, BytesEmpty, Sizes

-----------------------------------------------------------------------------
(***************************************************************************)
(* Content, by the pairs it has: a fold over a set, in an order that is    *)
(* not known.                                                              *)
(***************************************************************************)

\* Induction over the subsets of a finite set.
LEMMA SmallestSubset ==
  ASSUME NEW S, IsFiniteSet(S), NEW B \in SUBSET (SUBSET S), B # {}
  PROVE  \E T \in B : \A x \in T : T \ {x} \notin B
<1> DEFINE N == {Cardinality(T) : T \in B}
<1>1. \A T \in B : IsFiniteSet(T) /\ Cardinality(T) \in Nat
  BY FS_Subset, FS_CardinalityType
<1>2. N \subseteq Nat /\ N # {}
  BY <1>1
<1> HIDE DEF N
<1>3. PICK n \in N : \A m \in N : n <= m
  BY <1>2, LeastNumber
<1>4. PICK T \in B : Cardinality(T) = n
  BY <1>3 DEF N
<1>5. ASSUME NEW x \in T, T \ {x} \in B
      PROVE  FALSE
  <2>1. Cardinality(T \ {x}) = Cardinality(T) - 1
    BY <1>1, FS_RemoveElement
  <2>2. Cardinality(T) <= Cardinality(T \ {x})
    BY <1>3, <1>4, <1>5 DEF N
  <2> QED BY <1>1, <2>1, <2>2
<1> QED BY <1>4, <1>5

\* A set of numbers has a largest element.
LEMMA LargestNumber ==
  ASSUME NEW S, IsFiniteSet(S), S \subseteq Nat, S # {}
  PROVE  Max(S) \in S /\ \A x \in S : x <= Max(S)
<1> DEFINE HasMax(T) == \E m \in T : \A x \in T : m >= x
           B == {T \in SUBSET S : T # {} /\ ~HasMax(T)}
<1>1. B = {}
  <2> SUFFICES ASSUME B # {}
               PROVE  FALSE
    OBVIOUS
  <2>1. B \in SUBSET (SUBSET S)
    OBVIOUS
  <2>2. PICK T \in B : \A x \in T : T \ {x} \notin B
    <3> HIDE DEF B
    <3> QED BY <2>1, SmallestSubset
  <2>3. PICK x \in T : TRUE
    OBVIOUS
  <2>4. CASE T = {x}
    <3>1. HasMax(T)
      BY <2>4
    <3> QED BY <3>1
  <2>5. CASE T # {x}
    <3>1. T \ {x} # {} /\ T \ {x} \in SUBSET S
      BY <2>5
    <3>2. HasMax(T \ {x})
      BY <2>2, <2>3, <3>1
    <3>3. PICK m \in T \ {x} : \A y \in T \ {x} : m >= y
      BY <3>2
    <3>4. x \in Nat /\ m \in Nat /\ m \in T /\ T \subseteq Nat
      BY <2>3
    <3>5. CASE m >= x
      <4>1. \A y \in T : m >= y
        BY <3>3, <3>5
      <4> QED BY <3>4, <4>1
    <3>6. CASE x >= m
      <4>1. \A y \in T : x >= y
        BY <3>3, <3>4, <3>6
      <4> QED BY <4>1, <2>3
    <3> QED BY <3>4, <3>5, <3>6
  <2> QED BY <2>4, <2>5
<1>2. HasMax(S)
  BY <1>1
<1>3. Max(S) \in S /\ \A x \in S : Max(S) >= x
  BY <1>2 DEF Max
<1>4. \A x, y \in Nat : y >= x => x <= y
  OBVIOUS
<1> QED BY <1>3, <1>4

Pair(map, name) == serializeNameValue(name, map[name])

\* The function that writes pairs one after the other, for at most n of them.
Filling(map, n, f) ==
  [T \in {U \in SUBSET DOMAIN map : Cardinality(U) <= n} |->
     IF T = {} THEN <<>>
     ELSE f[T \ {CHOOSE x \in T : TRUE}] \o Pair(map, CHOOSE x \in T : TRUE)]

\* There is such a function for every finite set.
LEMMA FillingExists ==
  ASSUME NEW map, IsFiniteSet(DOMAIN map), NEW n \in Nat
  PROVE  \E f : f = Filling(map, n, f)
<1> DEFINE Upto(k) == {U \in SUBSET DOMAIN map : Cardinality(U) <= k}
           Bad == {m \in Nat : ~ \E f : f = Filling(map, m, f)}
<1> SUFFICES ASSUME Bad # {}
             PROVE  FALSE
  OBVIOUS
<1>1. PICK m \in Bad : \A i \in Bad : m <= i
  <2>1. Bad \subseteq Nat
    OBVIOUS
  <2> HIDE DEF Bad
  <2> QED BY <2>1, LeastNumber
<1>2. m \in Nat /\ ~ \E f : f = Filling(map, m, f)
  OBVIOUS
<1>3. \A U \in SUBSET DOMAIN map :
        IsFiniteSet(U) /\ Cardinality(U) \in Nat /\ (Cardinality(U) = 0 <=> U = {})
  BY FS_Subset, FS_CardinalityType, FS_EmptySet
<1>4. CASE m = 0
  <2> DEFINE f == [U \in Upto(0) |-> <<>>]
  <2>1. \A U \in Upto(0) : U = {}
    BY <1>3
  <2>2. f = Filling(map, 0, f)
    BY <2>1 DEF Filling
  <2> QED BY <1>2, <1>4, <2>2
<1>5. CASE m # 0
  <2>1. m - 1 \in Nat /\ m - 1 \notin Bad
    BY <1>1, <1>2, <1>5
  <2>2. PICK f : f = Filling(map, m - 1, f)
    BY <2>1
  <2> DEFINE g == Filling(map, m, f)
  <2>3. ASSUME NEW U \in Upto(m), U # {}
        PROVE  U \ {CHOOSE x \in U : TRUE} \in Upto(m - 1)
    <3> DEFINE y == CHOOSE x \in U : TRUE
    <3>1. y \in U
      BY <2>3
    <3> HIDE DEF y
    <3>2. Cardinality(U \ {y}) = Cardinality(U) - 1
      BY <1>3, <3>1, FS_RemoveElement
    <3>3. Cardinality(U \ {y}) <= m - 1
      BY <1>2, <1>3, <3>2
    <3> QED BY <3>3 DEF y
  <2>4. ASSUME NEW V \in Upto(m - 1)
        PROVE  f[V] = g[V]
    <3>1. f[V] = Filling(map, m - 1, f)[V]
      BY <2>2
    <3>2. V \in Upto(m)
      BY <1>2, <1>3
    <3> QED BY <3>1, <3>2 DEF Filling
  <2> HIDE DEF g
  <2>5. \A U \in Upto(m) : U # {} =>
           f[U \ {CHOOSE x \in U : TRUE}] = g[U \ {CHOOSE x \in U : TRUE}]
    BY <2>3, <2>4
  <2>6. g = Filling(map, m, f)
    BY DEF g
  <2>7. g = Filling(map, m, g)
    <3> DEFINE Filled(h, T) ==
                 IF T = {} THEN <<>>
                 ELSE h[T \ {CHOOSE x \in T : TRUE}] \o Pair(map, CHOOSE x \in T : TRUE)
    <3>1. \A h : Filling(map, m, h) = [T \in Upto(m) |-> Filled(h, T)]
      BY DEF Filling
    <3>2. \A T \in Upto(m) : Filled(f, T) = Filled(g, T)
      BY <2>5
    <3> HIDE DEF Filled, Upto
    <3> QED BY <2>6, <3>1, <3>2
  <2> QED BY <1>2, <2>7
<1> QED BY <1>4, <1>5

\* createBeginRequest writes all the pairs, each behind those before it.
LEMMA ContentSteps ==
  ASSUME NEW map, IsFiniteSet(DOMAIN map)
  PROVE  \E c : /\ c[{}] = <<>>
                /\ c[DOMAIN map] = Content(map)
                /\ \A T \in SUBSET DOMAIN map :
                     T # {} => \E name \in T : c[T] = c[T \ {name}] \o Pair(map, name)
<1> DEFINE n == Cardinality(DOMAIN map)
           c == CHOOSE f : f = Filling(map, n, f)
<1>1. n \in Nat
  BY FS_CardinalityType
<1>2. {U \in SUBSET DOMAIN map : Cardinality(U) <= n} = SUBSET DOMAIN map
  BY FS_Subset
<1>3. c = Filling(map, n, c)
  <2> HIDE DEF n
  <2> QED BY <1>1, FillingExists
<1>4. Content(map) =
        (CHOOSE f : f = [T \in SUBSET DOMAIN map |->
            IF T = {} THEN <<>>
            ELSE f[T \ {CHOOSE x \in T : TRUE}] \o
                   Pair(map, CHOOSE x \in T : TRUE)])[DOMAIN map]
  BY DEF Content, FoldSet, MapThenFoldSet, Pair
<1>5. c[DOMAIN map] = Content(map)
  BY <1>2, <1>4 DEF Filling
<1> HIDE DEF c, n
<1>6. c = [T \in SUBSET DOMAIN map |->
             IF T = {} THEN <<>>
             ELSE c[T \ {CHOOSE x \in T : TRUE}] \o Pair(map, CHOOSE x \in T : TRUE)]
  BY <1>2, <1>3 DEF Filling
<1>7. c[{}] = <<>>
  <2>1. {} \in SUBSET DOMAIN map
    OBVIOUS
  <2> QED BY <1>6, <2>1
<1>8. ASSUME NEW T \in SUBSET DOMAIN map, T # {}
      PROVE  \E name \in T : c[T] = c[T \ {name}] \o Pair(map, name)
  <2> DEFINE name == CHOOSE x \in T : TRUE
  <2>1. name \in T
    BY <1>8
  <2>2. c[T] = c[T \ {name}] \o Pair(map, name)
    BY <1>6, <1>8
  <2> QED BY <2>1, <2>2
<1> QED BY <1>5, <1>7, <1>8

-----------------------------------------------------------------------------
(***************************************************************************)
(* The parameters of a request, and the items in which they are written.   *)
(***************************************************************************)

\* Sets of up to five elements.
LEMMA FewAreFinite ==
  ASSUME NEW a, NEW b, NEW c, NEW d, NEW e
  PROVE  IsFiniteSet({a, b, c, d, e})
<1>1. /\ IsFiniteSet({a}) /\ IsFiniteSet({b}) /\ IsFiniteSet({c})
      /\ IsFiniteSet({d}) /\ IsFiniteSet({e})
  BY FS_Singleton
<1>2. IsFiniteSet({a} \cup {b})
  BY <1>1, FS_Union
<1>3. IsFiniteSet(({a} \cup {b}) \cup {c})
  BY <1>1, <1>2, FS_Union
<1>4. IsFiniteSet((({a} \cup {b}) \cup {c}) \cup {d})
  BY <1>1, <1>3, FS_Union
<1>5. IsFiniteSet(((({a} \cup {b}) \cup {c}) \cup {d}) \cup {e})
  BY <1>1, <1>4, FS_Union
<1>6. ((({a} \cup {b}) \cup {c}) \cup {d}) \cup {e} = {a, b, c, d, e}
  OBVIOUS
<1> QED BY <1>5, <1>6, Zenon

\* The values of a function on a finite set.
LEMMA FiniteImage ==
  ASSUME NEW S, IsFiniteSet(S), NEW f, DOMAIN f = S
  PROVE  IsFiniteSet({f[x] : x \in S})
<1> DEFINE T == {f[x] : x \in S}
           g == [x \in S |-> f[x]]
<1>1. g \in [S -> T] /\ \A y \in T : \E x \in S : g[x] = y
  OBVIOUS
<1>2. g \in Surjection(S, T)
  BY <1>1 DEF Surjection
<1> HIDE DEF T, g
<1>3. IsFiniteSet(T)
  BY <1>2, FS_Surjection
<1> QED BY <1>3 DEF T

\* Assignments make functions, of the names of both.
LEMMA Assigned ==
  ASSUME NEW map, NEW set, IsFiniteSet(DOMAIN map), IsFiniteSet(DOMAIN set)
  PROVE  /\ IsFiniteSet(DOMAIN Assign(map, set))
         /\ DOMAIN Assign(map, set) = DOMAIN map \cup DOMAIN set
         /\ Assign(map, set) = [name \in DOMAIN Assign(map, set) |-> Assign(map, set)[name]]
<1>1. DOMAIN Assign(map, set) = DOMAIN map \cup DOMAIN set
  BY DEF Assign
<1>2. Assign(map, set) = [name \in DOMAIN Assign(map, set) |-> Assign(map, set)[name]]
  BY DEF Assign
<1>3. IsFiniteSet(DOMAIN map \cup DOMAIN set)
  BY FS_Union
<1> QED BY <1>1, <1>2, <1>3

\* GenerateFcgiRequestHeaders and the constructor: a request has parameters,
\* and finitely many.
LEMMA Parameters ==
  ASSUME NEW r \in Requests
  PROVE  /\ IsFiniteSet(Names(r)) /\ Names(r) # {}
         /\ PostParams(r) = [name \in Names(r) |-> PostParams(r)[name]]
<1> DEFINE Keys == {"DOCUMENT_ROOT", "SCRIPT_FILENAME", "GATEWAY_INTERFACE",
                    "REQUEST_METHOD", "SCRIPT_NAME"}
                   \cup {"QUERY_STRING", "REQUEST_URI", "SERVER_SOFTWARE",
                    "REMOTE_ADDR", "REMOTE_PORT"}
                   \cup {"SERVER_ADDR", "SERVER_PORT", "SERVER_NAME",
                    "SERVER_PROTOCOL", "FCGI_ROLE"}
<1>1. IsFiniteSet(Keys)
  BY FewAreFinite, FS_Union, Zenon
<1>2. ASSUME NEW record, IsFiniteSet(DOMAIN record)
      PROVE  IsFiniteSet(DOMAIN Map(record))
  <2>1. DOMAIN Map(record) = {<<key>> : key \in DOMAIN record}
    BY DEF Map
  <2> DEFINE f == [key \in DOMAIN record |-> <<key>>]
  <2>2. IsFiniteSet({f[key] : key \in DOMAIN record})
    <3>1. DOMAIN f = DOMAIN record
      OBVIOUS
    <3> HIDE DEF f
    <3> QED BY <1>2, <3>1, FiniteImage
  <2>3. {f[key] : key \in DOMAIN record} = {<<key>> : key \in DOMAIN record}
    OBVIOUS
  <2> QED BY <2>1, <2>2, <2>3
<1>3. IsFiniteSet(DOMAIN HttpParams(r.fields))
  <2>1. r.fields \in Seq([name : STRING, value : Seq(STRING)])
    BY EncoderAssumption
  <2>2. DOMAIN r.fields = 1 .. Len(r.fields) /\ Len(r.fields) \in Nat
    BY <2>1
  <2>3. IsFiniteSet(DOMAIN r.fields)
    BY <2>2, FS_Interval
  <2>4. DOMAIN HttpParams(r.fields) = {<<"HTTP_", r.fields[k].name>> : k \in DOMAIN r.fields}
    BY DEF HttpParams
  <2> DEFINE f == [k \in DOMAIN r.fields |-> <<"HTTP_", r.fields[k].name>>]
  <2>5. IsFiniteSet({f[k] : k \in DOMAIN r.fields})
    <3>1. DOMAIN f = DOMAIN r.fields
      OBVIOUS
    <3> HIDE DEF f
    <3> QED BY <2>3, <3>1, FiniteImage
  <2>6. {f[k] : k \in DOMAIN r.fields} = {<<"HTTP_", r.fields[k].name>> : k \in DOMAIN r.fields}
    OBVIOUS
  <2> QED BY <2>4, <2>5, <2>6
<1>4. /\ IsFiniteSet(DOMAIN GenerateFcgiRequestHeaders(r))
      /\ <<"DOCUMENT_ROOT">> \in DOMAIN GenerateFcgiRequestHeaders(r)
  <2> DEFINE script == IF r.slash THEN <<r.path, "index.php">> ELSE <<r.path>>
             fixed == [DOCUMENT_ROOT     |-> <<"/var/www/">>,
                       SCRIPT_FILENAME   |-> <<"/var/www/">> \o script,
                       GATEWAY_INTERFACE |-> <<"FastCGI/1.1">>,
                       REQUEST_METHOD    |-> <<r.method>>,
                       SCRIPT_NAME       |-> <<"/">> \o script,
                       QUERY_STRING      |-> r.query,
                       REQUEST_URI       |-> <<"/">> \o script,
                       SERVER_SOFTWARE   |-> <<"ATS 7.1.1">>,
                       REMOTE_ADDR       |-> <<"127.0.0.1">>,
                       REMOTE_PORT       |-> <<"8090">>,
                       SERVER_ADDR       |-> <<"127.0.0.1">>,
                       SERVER_PORT       |-> <<"60000">>,
                       SERVER_NAME       |-> <<"ATS 7.1.1">>,
                       SERVER_PROTOCOL   |-> <<"HTTP/1.1">>,
                       FCGI_ROLE         |-> <<"RESPONDER">>]
  <2>1. DOMAIN fixed = Keys
    OBVIOUS
  <2>2. GenerateFcgiRequestHeaders(r) = Assign(HttpParams(r.fields), Map(fixed))
    BY DEF GenerateFcgiRequestHeaders
  <2> HIDE DEF fixed
  <2>3. IsFiniteSet(DOMAIN Map(fixed))
    BY <1>1, <1>2, <2>1
  <2>4. <<"DOCUMENT_ROOT">> \in DOMAIN Map(fixed)
    BY <2>1 DEF Map
  <2> DEFINE base == HttpParams(r.fields)
             fix == Map(fixed)
  <2> HIDE DEF base, fix
  <2>5. /\ IsFiniteSet(DOMAIN Assign(base, fix))
        /\ DOMAIN Assign(base, fix) = DOMAIN base \cup DOMAIN fix
    BY <1>3, <2>3, Assigned, Zenon DEF base, fix
  <2> QED BY <2>2, <2>4, <2>5, Zenon DEF base, fix
<1> DEFINE length == IF r.length = NULL THEN <<>> ELSE <<ToString(r.length)>>
           type == IF r.type = NULL THEN <<>> ELSE Map([CONTENT_TYPE |-> r.type])
           post == Assign(type, Map([CONTENT_LENGTH |-> length]))
           set == IF r.method = "POST" THEN post ELSE <<>>
<1>5. IsFiniteSet(DOMAIN <<>>)
  <2>1. DOMAIN <<>> = {}
    OBVIOUS
  <2> QED BY <2>1, FS_EmptySet
<1>6. IsFiniteSet(DOMAIN type)
  <2>1. DOMAIN [CONTENT_TYPE |-> r.type] = {"CONTENT_TYPE"}
    OBVIOUS
  <2>2. IsFiniteSet(DOMAIN Map([CONTENT_TYPE |-> r.type]))
    BY <1>2, <2>1, FS_Singleton
  <2> QED BY <1>5, <2>2
<1>7. IsFiniteSet(DOMAIN post)
  <2>1. DOMAIN [CONTENT_LENGTH |-> length] = {"CONTENT_LENGTH"}
    OBVIOUS
  <2> HIDE DEF type, length
  <2>2. IsFiniteSet(DOMAIN Map([CONTENT_LENGTH |-> length]))
    BY <1>2, <2>1, FS_Singleton
  <2> QED BY <1>6, <2>2, Assigned
<1>8. PostParams(r) = Assign(GenerateFcgiRequestHeaders(r), set)
  BY DEF PostParams
<1>9. IsFiniteSet(DOMAIN set)
  <2> HIDE DEF post
  <2> QED BY <1>5, <1>7
<1> DEFINE map == GenerateFcgiRequestHeaders(r)
<1> HIDE DEF set, map
<1>10. /\ IsFiniteSet(DOMAIN Assign(map, set))
       /\ DOMAIN Assign(map, set) = DOMAIN map \cup DOMAIN set
       /\ Assign(map, set) = [name \in DOMAIN Assign(map, set) |-> Assign(map, set)[name]]
  BY <1>4, <1>9, Assigned, Zenon DEF map
<1>11. DOMAIN map # {}
  BY <1>4 DEF map
<1>12. PostParams(r) = Assign(map, set)
  BY <1>8, Zenon DEF map
<1> QED BY <1>10, <1>11, <1>12 DEF Names

\* BYTE_0 to BYTE_3 are bytes.
LEMMA BytesOfNumbers ==
  ASSUME NEW n \in Nat
  PROVE  /\ BYTE_0(n) \in Uchar /\ BYTE_1(n) \in Uchar /\ BYTE_2(n) \in Uchar
         /\ BYTE_3(n) \in 128 .. 255
BY DEF BYTE_0, BYTE_1, BYTE_2, BYTE_3, Uchar

\* A length takes one byte or four.
LEMMA LengthItems ==
  ASSUME NEW n \in Nat
  PROVE  Length(n) \in Seq(ByteItems)
<1>1. /\ Byte(BYTE_0(n)) \in ByteItems /\ Byte(BYTE_1(n)) \in ByteItems
      /\ Byte(BYTE_2(n)) \in ByteItems /\ Byte(BYTE_3(n)) \in ByteItems
  <2>1. BYTE_3(n) \in Uchar
    BY BytesOfNumbers DEF Uchar
  <2> QED BY <2>1, BytesOfNumbers DEF Byte, ByteItems
<1> QED BY <1>1 DEF Length

\* A string takes its length, as one item or, if it is empty, none.
LEMMA DataItem ==
  ASSUME NEW r \in Requests, NEW string \in Names(r) \cup Values(r) \cup Chunks(r)
  PROVE  /\ Data(string) \in Seq(Contents)
         /\ StrLen(string) # 0 =>
              /\ [kind |-> "data", data |-> string] \in Contents
              /\ Data(string) = <<[kind |-> "data", data |-> string]>>
         /\ Bytes(Data(string)) = StrLen(string)
<1>1. CASE StrLen(string) = 0
  <2>1. Data(string) = <<>>
    BY <1>1 DEF Data
  <2> QED BY <1>1, <2>1, BytesEmpty
<1>2. CASE StrLen(string) # 0
  <2> DEFINE item == [kind |-> "data", data |-> string]
  <2>1. item \in Contents
    BY <1>2 DEF Contents, DataItems, Strings
  <2>2. Data(string) = <<item>>
    BY <1>2 DEF Data
  <2>3. Size(item) = StrLen(string)
    BY DEF Size
  <2> HIDE DEF item
  <2>4. Bytes(<<item>>) = Size(item)
    BY <2>1, BytesOne DEF Items
  <2>5. Data(string) \in Seq(Contents)
    BY <2>1, <2>2
  <2> QED BY <1>2, <2>1, <2>2, <2>3, <2>4, <2>5 DEF item
<1> QED BY <1>1, <1>2

\* serializeNameValue
LEMMA PairItems ==
  ASSUME NEW r \in Requests, NEW name \in Names(r)
  PROVE  Pair(PostParams(r), name) \in Seq(Contents)
<1> DEFINE value == PostParams(r)[name]
<1>1. name \in Names(r) \cup Values(r) \cup Chunks(r) /\ value \in Names(r) \cup Values(r) \cup Chunks(r)
  BY DEF Values
<1> HIDE DEF value
<1>2. StrLen(name) \in Nat /\ StrLen(value) \in Nat
  BY <1>1, StringLengths
<1>3. Data(name) \in Seq(Contents) /\ Data(value) \in Seq(Contents)
  BY <1>1, DataItem
<1>4. Length(StrLen(name)) \in Seq(ByteItems) /\ Length(StrLen(value)) \in Seq(ByteItems)
  BY <1>2, LengthItems
<1>5. Seq(ByteItems) \subseteq Seq(Contents)
  BY DEF Contents
<1>6. Length(StrLen(name)) \in Seq(Contents) /\ Length(StrLen(value)) \in Seq(Contents)
  BY <1>4, <1>5
<1> QED BY <1>3, <1>6 DEF Pair, serializeNameValue, value

\* What a pair takes in the buffer.
LEMMA PairBytes ==
  ASSUME NEW r \in Requests, NEW name \in Names(r)
  PROVE  /\ Bytes(Pair(PostParams(r), name)) \in Nat \ {0}
         /\ StrLen(name) <= Bytes(Pair(PostParams(r), name))
         /\ StrLen(PostParams(r)[name]) <= Bytes(Pair(PostParams(r), name))
<1> DEFINE value == PostParams(r)[name]
           ln == Length(StrLen(name))
           lv == Length(StrLen(value))
<1>1. name \in Names(r) \cup Values(r) \cup Chunks(r) /\ value \in Names(r) \cup Values(r) \cup Chunks(r)
  BY DEF Values
<1>2. StrLen(name) \in Nat \ {0}
  BY EncoderAssumption DEF Names
<1>3. Pair(PostParams(r), name) = ((ln \o lv) \o Data(name)) \o Data(value)
  BY DEF Pair, serializeNameValue
<1> HIDE DEF value
<1>4. StrLen(value) \in Nat
  BY <1>1, StringLengths
<1>5. Seq(ByteItems) \subseteq Seq(Items) /\ Seq(Contents) \subseteq Seq(Items)
  BY DEF Contents, Items
<1>6. ln \in Seq(Items) /\ lv \in Seq(Items)
  BY <1>2, <1>4, <1>5, LengthItems
<1>7. /\ Data(name) \in Seq(Items) /\ Data(value) \in Seq(Items)
      /\ Bytes(Data(name)) = StrLen(name) /\ Bytes(Data(value)) = StrLen(value)
  BY <1>1, <1>5, DataItem
<1> HIDE DEF ln, lv
<1>8. ln \o lv \in Seq(Items) /\ (ln \o lv) \o Data(name) \in Seq(Items)
  BY <1>6, <1>7
<1>9. /\ Bytes(((ln \o lv) \o Data(name)) \o Data(value)) =
           Bytes((ln \o lv) \o Data(name)) + Bytes(Data(value))
      /\ Bytes((ln \o lv) \o Data(name)) = Bytes(ln \o lv) + Bytes(Data(name))
      /\ Bytes(ln \o lv) \in Nat
  BY <1>6, <1>7, <1>8, BytesCount, Zenon
<1> QED BY <1>2, <1>3, <1>4, <1>7, <1>9 DEF value

\* createBeginRequest: the content of the FCGI_PARAMS record has room for the
\* longest of its pairs, with which the first loop measures it.
LEMMA ContentOfRequest ==
  ASSUME NEW r \in Requests
  PROVE  /\ Content(PostParams(r)) \in Seq(Contents)
         /\ Bytes(Content(PostParams(r))) \in Nat \ {0}
         /\ LongestPair(PostParams(r)) \in Nat
         /\ LongestPair(PostParams(r)) <= Bytes(Content(PostParams(r)))
         /\ \A name \in Names(r) :
              Bytes(Pair(PostParams(r), name)) <= Bytes(Content(PostParams(r)))
<1> DEFINE map == PostParams(r)
           names == Names(r)
<1>1. IsFiniteSet(names) /\ names # {} /\ DOMAIN map = names
  BY Parameters DEF Names
<1>2. \A name \in names :
        /\ Pair(map, name) \in Seq(Contents)
        /\ Bytes(Pair(map, name)) \in Nat \ {0}
  BY PairItems, PairBytes
<1> HIDE DEF map, names
<1>3. PICK c : /\ c[{}] = <<>>
               /\ c[names] = Content(map)
               /\ \A T \in SUBSET names :
                    T # {} => \E name \in T : c[T] = c[T \ {name}] \o Pair(map, name)
  BY <1>1, ContentSteps
<1> DEFINE Right(T) == /\ c[T] \in Seq(Contents)
                       /\ \A name \in T : Bytes(Pair(map, name)) <= Bytes(c[T])
           B == {T \in SUBSET names : ~Right(T)}
<1>4. B = {}
  <2> SUFFICES ASSUME B # {}
               PROVE  FALSE
    OBVIOUS
  <2>1. PICK T \in B : \A x \in T : T \ {x} \notin B
    <3>1. B \in SUBSET (SUBSET names)
      OBVIOUS
    <3> HIDE DEF B
    <3> QED BY <1>1, <3>1, SmallestSubset
  <2>2. T \in SUBSET names /\ ~Right(T)
    OBVIOUS
  <2>3. T # {}
    <3>1. Right({})
      BY <1>3
    <3> QED BY <2>2, <3>1
  <2>4. PICK name \in T : c[T] = c[T \ {name}] \o Pair(map, name)
    BY <1>3, <2>2, <2>3
  <2>5. Right(T \ {name})
    BY <2>1, <2>2
  <2> DEFINE s == c[T \ {name}]
             p == Pair(map, name)
  <2>6. s \in Seq(Contents) /\ p \in Seq(Contents) /\ Bytes(p) \in Nat
    BY <1>2, <2>2, <2>5
  <2>7. \A x \in T : x # name => Bytes(Pair(map, x)) <= Bytes(s)
    BY <2>5
  <2>8. c[T] = s \o p
    BY <2>4
  <2>9. \A x \in T : Bytes(Pair(map, x)) \in Nat
    BY <1>2, <2>2
  <2> HIDE DEF s, Right
  <2>10. s \o p \in Seq(Contents)
    BY <2>6
  <2>11. s \in Seq(Items) /\ p \in Seq(Items)
    <3>1. Seq(Contents) \subseteq Seq(Items)
      BY DEF Items
    <3> QED BY <2>6, <3>1
  <2>12. Bytes(s \o p) = Bytes(s) + Bytes(p) /\ Bytes(s) \in Nat
    BY <2>11, BytesCount, Zenon
  <2>13. \A x \in T : Bytes(Pair(map, x)) <= Bytes(s \o p)
    <3> SUFFICES ASSUME NEW x \in T
                 PROVE  Bytes(Pair(map, x)) <= Bytes(s \o p)
      OBVIOUS
    <3>1. CASE x = name
      BY <2>6, <2>12, <3>1
    <3>2. CASE x # name
      <4>1. Bytes(Pair(map, x)) <= Bytes(s) /\ Bytes(Pair(map, x)) \in Nat
        BY <2>7, <2>9, <3>2
      <4> HIDE DEF p
      <4> QED BY <2>6, <2>12, <4>1
    <3> QED BY <3>1, <3>2
  <2>14. Right(T)
    BY <2>8, <2>10, <2>13 DEF Right
  <2> QED BY <2>2, <2>14
<1>5. Right(names)
  BY <1>4
<1>6. Content(map) \in Seq(Contents) /\ \A name \in names : Bytes(Pair(map, name)) <= Bytes(Content(map))
  BY <1>3, <1>5
<1>7. Bytes(Content(map)) \in Nat
  <2>1. Content(map) \in Seq(Items)
    <3>1. Seq(Contents) \subseteq Seq(Items)
      BY DEF Items
    <3> QED BY <1>6, <3>1
  <2> QED BY <2>1, BytesCount
<1>8. Bytes(Content(map)) # 0
  <2>1. PICK name \in names : TRUE
    BY <1>1
  <2>2. Bytes(Pair(map, name)) \in Nat \ {0} /\ Bytes(Pair(map, name)) <= Bytes(Content(map))
    BY <1>2, <1>6
  <2> QED BY <1>7, <2>2
<1> DEFINE f == [name \in names |-> Bytes(Pair(map, name))]
           lengths == {f[name] : name \in names}
<1>9. IsFiniteSet(lengths)
  <2>1. DOMAIN f = names
    OBVIOUS
  <2> HIDE DEF f
  <2> QED BY <1>1, <2>1, FiniteImage
<1>10. lengths \subseteq Nat /\ lengths # {}
  BY <1>1, <1>2
<1>11. LongestPair(map) = Max(lengths)
  <2>1. lengths = {Bytes(Pair(map, name)) : name \in names}
    OBVIOUS
  <2> HIDE DEF lengths
  <2> QED BY <1>1, <2>1 DEF LongestPair, Pair
<1>12. Max(lengths) \in lengths
  <2> HIDE DEF lengths
  <2> QED BY <1>9, <1>10, LargestNumber
<1>13. PICK name \in names : LongestPair(map) = Bytes(Pair(map, name))
  BY <1>11, <1>12
<1>14. LongestPair(map) \in Nat /\ LongestPair(map) <= Bytes(Content(map))
  BY <1>2, <1>6, <1>13
<1> QED BY <1>6, <1>7, <1>8, <1>14 DEF map, names

-----------------------------------------------------------------------------
(***************************************************************************)
(* What the application decodes of the pairs.                              *)
(***************************************************************************)

\* It has decoded map and is in the middle of the pair that has these bytes of
\* a length, lengths and name.
Reading(map, bytes, lens, name) ==
  [map |-> map, garbled |-> FALSE,
   pair |-> [bytes |-> bytes, lens |-> lens, name |-> name]]

\* These bytes are a whole length.
Whole(bytes) == bytes[1] < 128 \/ Len(bytes) = 4

\* One more byte of a length is kept until the length is whole.
LEMMA ByteKept ==
  ASSUME NEW map, NEW lens \in Seq(Nat), Len(lens) < 2,
         NEW bytes \in Seq(Uchar), NEW b \in Uchar, NEW read,
         read = Append(bytes, b), ~Whole(read)
  PROVE  Decode(Reading(map, bytes, lens, NULL), Byte(b)) = Reading(map, read, lens, NULL)
BY DEF Decode, DecodeByte, FitsPair, Byte, Reading, Whole

\* The last byte of a length makes it a number.
LEMMA ByteEnds ==
  ASSUME NEW map, NEW lens \in Seq(Nat), Len(lens) < 2,
         NEW bytes \in Seq(Uchar), NEW b \in Uchar, NEW read,
         read = Append(bytes, b), Whole(read)
  PROVE  Decode(Reading(map, bytes, lens, NULL), Byte(b)) =
           Reading(map, <<>>, Append(lens, NumberOf(read)), NULL)
BY DEF Decode, DecodeByte, FitsPair, Byte, Reading, Whole

\* The lengths that fit into four bytes, one bit of which is taken.
Representable == {n \in Nat : n < 2147483648}

\* BYTE_0 to BYTE_3 are what the application needs to have the number back.
LEMMA NumberBack ==
  ASSUME NEW n \in Representable
  PROVE  /\ n < 128 => BYTE_0(n) = n
         /\ NumberOf(<<BYTE_3(n), BYTE_2(n), BYTE_1(n), BYTE_0(n)>>) = n
<1> DEFINE a == n \div 256
           b == n \div 65536
           c == n \div 16777216
<1>1. n \in Nat /\ (n < 128 => BYTE_0(n) = n)
  BY SMT DEF BYTE_0, Representable
<1>2. /\ a \in Nat /\ b \in Nat /\ c \in Nat /\ c < 128
      /\ n = a * 256 + (n % 256)
      /\ b = a \div 256 /\ c = b \div 256
  BY SMT DEF Representable
<1>3. /\ BYTE_3(n) = 128 + (c % 128) /\ BYTE_2(n) = b % 256
      /\ BYTE_1(n) = a % 256 /\ BYTE_0(n) = n % 256
  BY SMT DEF BYTE_0, BYTE_1, BYTE_2, BYTE_3
<1> HIDE DEF a, b, c
<1>4. a = b * 256 + (a % 256) /\ b = c * 256 + (b % 256)
  BY <1>2, SMT
<1>5. c % 128 = c /\ (128 + c) % 128 = c
  BY <1>2, SMT
<1>6. n = c * 16777216 + (b % 256) * 65536 + (a % 256) * 256 + (n % 256)
  BY <1>1, <1>2, <1>4, SMT
<1>7. NumberOf(<<128 + c, b % 256, a % 256, n % 256>>) =
        c * 16777216 + (b % 256) * 65536 + (a % 256) * 256 + (n % 256)
  BY <1>5, SMT DEF NumberOf
<1> QED BY <1>1, <1>3, <1>5, <1>6, <1>7, SMT

\* One byte more is decoded.
LEMMA ByteParsed ==
  ASSUME NEW s \in Seq(Contents), NEW b \in Uchar
  PROVE  /\ Append(s, Byte(b)) \in Seq(Contents)
         /\ ParsePairs(Append(s, Byte(b))) = Decode(ParsePairs(s), Byte(b))
<1>1. Byte(b) \in Contents
  BY DEF Byte, ByteItems, Contents
<1> QED BY <1>1, ParsePairsAppend

\* Length, serialized and decoded.
LEMMA LengthDecoded ==
  ASSUME NEW s \in Seq(Contents), NEW map, NEW lens \in Seq(Nat), Len(lens) < 2,
         NEW n \in Representable,
         ParsePairs(s) = Reading(map, <<>>, lens, NULL)
  PROVE  /\ s \o Length(n) \in Seq(Contents)
         /\ ParsePairs(s \o Length(n)) = Reading(map, <<>>, Append(lens, n), NULL)
<1>1. n \in Nat
  BY SMT DEF Representable
<1>2. PICK b0, b1, b2, b3 : /\ b0 = BYTE_0(n) /\ b1 = BYTE_1(n)
                            /\ b2 = BYTE_2(n) /\ b3 = BYTE_3(n)
  OBVIOUS
<1>3. b0 \in Uchar /\ b1 \in Uchar /\ b2 \in Uchar /\ b3 \in Uchar /\ ~(b3 < 128)
  <2>1. \A x \in 128 .. 255 : x \in Uchar /\ ~(x < 128)
    BY DEF Uchar
  <2> QED BY <1>1, <1>2, <2>1, BytesOfNumbers, Zenon
<1>4. b0 \in Uchar /\ b1 \in Uchar /\ b2 \in Uchar /\ b3 \in Uchar
  BY <1>3
<1>5. /\ n < 128 => b0 = n
      /\ NumberOf(<<b3, b2, b1, b0>>) = n
  BY <1>2, NumberBack
<1>6. CASE n < 128
  <2>1. s \o Length(n) = Append(s, Byte(b0))
    BY <1>2, <1>6 DEF Length
  <2>2. PICK r0, r1 : r0 = <<>> /\ r1 = <<b0>>
    OBVIOUS
  <2>3. r0 \in Seq(Uchar) /\ r1 = Append(r0, b0)
    BY <1>3, <2>2
  <2>4. Whole(r1) /\ NumberOf(r1) = n
    BY <1>5, <1>6, <2>2, SMT DEF NumberOf, Whole
  <2>5. Decode(Reading(map, r0, lens, NULL), Byte(b0)) =
          Reading(map, <<>>, Append(lens, NumberOf(r1)), NULL)
    <3>1. b0 \in Uchar /\ Whole(r1)
      BY <1>4, <2>4
    <3> QED BY <2>3, <3>1, ByteEnds, Zenon
  <2> QED BY <1>3, <2>1, <2>2, <2>4, <2>5, ByteParsed, Zenon
<1>7. CASE ~(n < 128)
  <2>1. s \o Length(n) = Append(Append(Append(Append(s, Byte(b3)), Byte(b2)), Byte(b1)), Byte(b0))
    BY <1>2, <1>7 DEF Length
  <2>2. PICK s3, s2, s1 : /\ s3 = Append(s, Byte(b3)) /\ s2 = Append(s3, Byte(b2))
                          /\ s1 = Append(s2, Byte(b1))
    OBVIOUS
  <2>3. /\ s3 \in Seq(Contents) /\ ParsePairs(s3) = Decode(ParsePairs(s), Byte(b3))
        /\ s2 \in Seq(Contents) /\ ParsePairs(s2) = Decode(ParsePairs(s3), Byte(b2))
        /\ s1 \in Seq(Contents) /\ ParsePairs(s1) = Decode(ParsePairs(s2), Byte(b1))
        /\ s \o Length(n) \in Seq(Contents)
        /\ ParsePairs(s \o Length(n)) = Decode(ParsePairs(s1), Byte(b0))
    BY <1>3, <2>1, <2>2, ByteParsed, Zenon
  <2>4. PICK r0, r1, r2, r3, r4 : /\ r0 = <<>> /\ r1 = <<b3>> /\ r2 = <<b3, b2>>
                                  /\ r3 = <<b3, b2, b1>> /\ r4 = <<b3, b2, b1, b0>>
    OBVIOUS
  <2>5. /\ r0 \in Seq(Uchar) /\ r1 \in Seq(Uchar) /\ r2 \in Seq(Uchar) /\ r3 \in Seq(Uchar)
        /\ r1 = Append(r0, b3) /\ r2 = Append(r1, b2) /\ r3 = Append(r2, b1)
        /\ r4 = Append(r3, b0)
    BY <1>3, <2>4
  <2>6. ~Whole(r1) /\ ~Whole(r2) /\ ~Whole(r3) /\ Whole(r4)
    BY <1>3, <2>4 DEF Whole
  <2>7. Decode(Reading(map, r0, lens, NULL), Byte(b3)) = Reading(map, r1, lens, NULL)
    <3>1. r0 \in Seq(Uchar) /\ b3 \in Uchar /\ r1 = Append(r0, b3) /\ ~Whole(r1)
      BY <1>4, <2>5, <2>6
    <3> QED BY <3>1, ByteKept, Zenon
  <2>8. Decode(Reading(map, r1, lens, NULL), Byte(b2)) = Reading(map, r2, lens, NULL)
    <3>1. r1 \in Seq(Uchar) /\ b2 \in Uchar /\ r2 = Append(r1, b2) /\ ~Whole(r2)
      BY <1>4, <2>5, <2>6
    <3> QED BY <3>1, ByteKept, Zenon
  <2>9. Decode(Reading(map, r2, lens, NULL), Byte(b1)) = Reading(map, r3, lens, NULL)
    <3>1. r2 \in Seq(Uchar) /\ b1 \in Uchar /\ r3 = Append(r2, b1) /\ ~Whole(r3)
      BY <1>4, <2>5, <2>6
    <3> QED BY <3>1, ByteKept, Zenon
  <2>10. Decode(Reading(map, r3, lens, NULL), Byte(b0)) =
           Reading(map, <<>>, Append(lens, NumberOf(r4)), NULL)
    <3>1. r3 \in Seq(Uchar) /\ b0 \in Uchar /\ r4 = Append(r3, b0) /\ Whole(r4)
      BY <1>4, <2>5, <2>6
    <3> QED BY <3>1, ByteEnds, Zenon
  <2> QED BY <1>5, <2>3, <2>4, <2>7, <2>8, <2>9, <2>10, Zenon
<1> QED BY <1>6, <1>7

\* The string of a name or of a value is decoded.
StringItem(string) == [kind |-> "data", data |-> string]

Single(name, value) == [string \in {name} |-> value]

\* A name that a value follows, or an empty one, and a value.
LEMMA NameDecoded ==
  ASSUME NEW map, NEW lens, Len(lens) = 2, NEW name, StrLen(name) = lens[1], lens[2] # 0
  PROVE  Decode(Reading(map, <<>>, lens, NULL), StringItem(name)) =
           Reading(map, <<>>, lens, name)
BY DEF Decode, DecodeData, FitsPair, Size, Reading, StringItem

\* A name without a value completes a pair.
LEMMA EmptyDecoded ==
  ASSUME NEW map, NEW lens, Len(lens) = 2, NEW name, StrLen(name) = lens[1], lens[2] = 0
  PROVE  Decode(Reading(map, <<>>, lens, NULL), StringItem(name)) =
           Reading(Assign(map, Single(name, <<>>)), <<>>, <<>>, NULL)
BY DEF Decode, DecodeData, Decoded, FitsPair, Size, Reading, NoPair, StringItem, Single

\* A value completes a pair.
LEMMA ValueDecoded ==
  ASSUME NEW map, NEW lens, Len(lens) = 2, NEW name, name # NULL,
         NEW value, StrLen(value) = lens[2]
  PROVE  Decode(Reading(map, <<>>, lens, name), StringItem(value)) =
           Reading(Assign(map, Single(name, value)), <<>>, <<>>, NULL)
BY DEF Decode, DecodeData, Decoded, FitsPair, Size, Reading, NoPair, StringItem, Single

\* The lengths of a pair are decoded.
LEMMA LengthsDecoded ==
  ASSUME NEW s \in Seq(Contents), NEW map, NEW n \in Representable, NEW v \in Representable,
         ParsePairs(s) = Reading(map, <<>>, <<>>, NULL)
  PROVE  ParsePairs((s \o Length(n)) \o Length(v)) = Reading(map, <<>>, <<n, v>>, NULL)
<1>1. n \in Nat /\ v \in Nat
  BY SMT DEF Representable
<1>2. PICK one : one = <<n>>
  OBVIOUS
<1>3. <<>> \in Seq(Nat) /\ Len(<<>>) < 2 /\ <<n>> = Append(<<>>, n)
  BY <1>1
<1>4. one \in Seq(Nat) /\ Len(one) < 2
  BY <1>1, <1>2
<1>5. <<n, v>> = Append(<<n>>, v)
  BY <1>1
<1>6. /\ s \o Length(n) \in Seq(Contents)
      /\ ParsePairs(s \o Length(n)) = Reading(map, <<>>, Append(<<>>, n), NULL)
  BY <1>3, LengthDecoded
<1>7. ParsePairs(s \o Length(n)) = Reading(map, <<>>, one, NULL)
  BY <1>2, <1>3, <1>6
<1>8. PICK t : t = s \o Length(n)
  OBVIOUS
<1>9. t \in Seq(Contents) /\ ParsePairs(t) = Reading(map, <<>>, one, NULL)
  BY <1>6, <1>7, <1>8
<1>10. ParsePairs(t \o Length(v)) = Reading(map, <<>>, Append(one, v), NULL)
  BY <1>4, <1>9, LengthDecoded, Zenon
<1> QED BY <1>2, <1>5, <1>8, <1>10

\* serializeNameValue: the application decodes the pair that was written.
LEMMA PairDecoded ==
  ASSUME NEW r \in Requests, NEW name \in Names(r),
         StrLen(name) \in Representable, StrLen(PostParams(r)[name]) \in Representable,
         NEW s \in Seq(Contents), NEW map,
         ParsePairs(s) = Reading(map, <<>>, <<>>, NULL)
  PROVE  ParsePairs(s \o Pair(PostParams(r), name)) =
           Reading(Assign(map, Single(name, PostParams(r)[name])), <<>>, <<>>, NULL)
<1>1. PICK value, n, v : value = PostParams(r)[name] /\ n = StrLen(name) /\ v = StrLen(value)
  OBVIOUS
<1>2. /\ name \in Names(r) \cup Values(r) \cup Chunks(r)
      /\ value \in Names(r) \cup Values(r) \cup Chunks(r)
  BY <1>1 DEF Values
<1>3. /\ n # 0 /\ name # NULL /\ (v = 0 => value = <<>>)
      /\ n \in Nat /\ v \in Nat
  BY <1>1, EncoderAssumption DEF Names
<1>4. PICK t1, t2, t3, t4 : /\ t1 = s \o Length(n) /\ t2 = t1 \o Length(v)
                            /\ t3 = t2 \o Data(name) /\ t4 = t3 \o Data(value)
  OBVIOUS
<1>5. /\ s \o Pair(PostParams(r), name) = t4
      /\ t1 \in Seq(Contents) /\ t2 \in Seq(Contents)
      /\ t3 \in Seq(Contents) /\ t4 \in Seq(Contents)
  <2>1. Pair(PostParams(r), name) = ((Length(n) \o Length(v)) \o Data(name)) \o Data(value)
    BY <1>1 DEF Pair, serializeNameValue
  <2>2. /\ Length(n) \in Seq(Contents) /\ Length(v) \in Seq(Contents)
        /\ Data(name) \in Seq(Contents) /\ Data(value) \in Seq(Contents)
    <3>1. Seq(ByteItems) \subseteq Seq(Contents)
      BY DEF Contents
    <3> QED BY <1>2, <1>3, <3>1, LengthItems, DataItem
  <2>3. PICK a, b, c, d : a = Length(n) /\ b = Length(v) /\ c = Data(name) /\ d = Data(value)
    OBVIOUS
  <2>4. a \in Seq(Contents) /\ b \in Seq(Contents) /\ c \in Seq(Contents) /\ d \in Seq(Contents)
    BY <2>2, <2>3
  <2>5. s \o (((a \o b) \o c) \o d) = (((s \o a) \o b) \o c) \o d
    <3>1. s \o ((a \o b) \o c) = ((s \o a) \o b) \o c
      BY <2>4
    <3>2. PICK u : u = (a \o b) \o c
      OBVIOUS
    <3>3. u \in Seq(Contents)
      BY <2>4, <3>2
    <3>4. s \o (u \o d) = (s \o u) \o d
      BY <2>4, <3>3
    <3> QED BY <3>1, <3>2, <3>4
  <2>6. /\ s \o a \in Seq(Contents) /\ (s \o a) \o b \in Seq(Contents)
        /\ ((s \o a) \o b) \o c \in Seq(Contents)
        /\ (((s \o a) \o b) \o c) \o d \in Seq(Contents)
    BY <2>4
  <2> QED BY <1>4, <2>1, <2>3, <2>5, <2>6
<1>6. PICK lens : lens = <<n, v>>
  OBVIOUS
<1>7. n \in Representable /\ v \in Representable
  BY <1>1
<1>8. ParsePairs(t2) = Reading(map, <<>>, lens, NULL)
  BY <1>3, <1>4, <1>5, <1>6, <1>7, LengthsDecoded
<1>9. Len(lens) = 2 /\ StrLen(name) = lens[1] /\ StrLen(value) = lens[2] /\ lens[2] = v
  BY <1>1, <1>6
<1>10. \A t \in Seq(Contents), x \in Contents : t \o <<x>> = Append(t, x)
  OBVIOUS
<1>11. \A string \in Names(r) \cup Values(r) \cup Chunks(r) :
          StrLen(string) # 0 => /\ StringItem(string) \in Contents
                                /\ Data(string) = <<StringItem(string)>>
  BY DataItem DEF StringItem
<1>12. StringItem(name) \in Contents /\ t3 = Append(t2, StringItem(name))
  <2>1. StringItem(name) \in Contents /\ Data(name) = <<StringItem(name)>>
    BY <1>1, <1>2, <1>3, <1>11, Zenon
  <2>2. t2 \o <<StringItem(name)>> = Append(t2, StringItem(name))
    BY <1>5, <1>10, <2>1, Zenon
  <2> QED BY <1>4, <2>1, <2>2, Zenon
<1>13. ParsePairs(t3) = Decode(Reading(map, <<>>, lens, NULL), StringItem(name))
  <2>1. ParsePairs(t3) = Decode(ParsePairs(t2), StringItem(name))
    BY <1>5, <1>12, ParsePairsAppend, Zenon
  <2> QED BY <1>8, <2>1, Zenon
<1>14. CASE v = 0
  <2>1. value = <<>> /\ Data(value) = <<>>
    BY <1>1, <1>3, <1>14 DEF Data
  <2>2. t4 = t3
    <3>1. \A t \in Seq(Contents) : t \o <<>> = t
      OBVIOUS
    <3> QED BY <1>4, <1>5, <2>1, <3>1, Zenon
  <2>3. lens[2] = 0
    BY <1>9, <1>14
  <2>4. ParsePairs(t3) = Reading(Assign(map, Single(name, <<>>)), <<>>, <<>>, NULL)
    BY <1>9, <1>13, <2>3, EmptyDecoded, Zenon
  <2> QED BY <1>1, <1>5, <2>1, <2>2, <2>4, Zenon
<1>15. CASE v # 0
  <2>1. t4 = Append(t3, StringItem(value)) /\ StringItem(value) \in Contents
    <3>1. StringItem(value) \in Contents /\ Data(value) = <<StringItem(value)>>
      BY <1>1, <1>2, <1>11, <1>15, Zenon
    <3>2. t3 \o <<StringItem(value)>> = Append(t3, StringItem(value))
      BY <1>5, <1>10, <3>1, Zenon
    <3> QED BY <1>4, <3>1, <3>2, Zenon
  <2>2. lens[2] # 0
    BY <1>9, <1>15
  <2>3. ParsePairs(t3) = Reading(map, <<>>, lens, name)
    BY <1>9, <1>13, <2>2, NameDecoded, Zenon
  <2>4. ParsePairs(t4) = Decode(ParsePairs(t3), StringItem(value))
    BY <1>5, <2>1, ParsePairsAppend, Zenon
  <2>5. Decode(Reading(map, <<>>, lens, name), StringItem(value)) =
          Reading(Assign(map, Single(name, value)), <<>>, <<>>, NULL)
    BY <1>3, <1>9, ValueDecoded, Zenon
  <2> QED BY <1>1, <1>5, <2>3, <2>4, <2>5, Zenon
<1> QED BY <1>14, <1>15

\* createBeginRequest: the application decodes the parameters of the request.
LEMMA ContentDecoded ==
  ASSUME NEW r \in Requests, Bytes(Content(PostParams(r))) \in Representable
  PROVE  ParsePairs(Content(PostParams(r))) = Reading(PostParams(r), <<>>, <<>>, NULL)
<1>1. PICK map, names : map = PostParams(r) /\ names = Names(r)
  OBVIOUS
<1>2. IsFiniteSet(names) /\ DOMAIN map = names
  BY <1>1, Parameters DEF Names
<1>3. PICK c : /\ c[{}] = <<>>
               /\ c[names] = Content(map)
               /\ \A T \in SUBSET names :
                    T # {} => \E name \in T : c[T] = c[T \ {name}] \o Pair(map, name)
  BY <1>2, ContentSteps, Zenon
<1>4. ASSUME NEW name \in names
      PROVE  StrLen(name) \in Representable /\ StrLen(map[name]) \in Representable
  <2>1. \A m, n \in Nat : n \in Representable /\ m <= n => m \in Representable
    BY SMT DEF Representable
  <2>2. \A k, m, n \in Nat : k <= m /\ m <= n => k <= n
    OBVIOUS
  <2>3. /\ StrLen(name) \in Nat /\ StrLen(map[name]) \in Nat
        /\ Bytes(Pair(map, name)) \in Nat /\ Bytes(Content(map)) \in Nat
        /\ StrLen(name) <= Bytes(Pair(map, name))
        /\ StrLen(map[name]) <= Bytes(Pair(map, name))
        /\ Bytes(Pair(map, name)) <= Bytes(Content(map))
    BY <1>1, PairBytes, ContentOfRequest, EncoderAssumption DEF Names
  <2>4. StrLen(name) <= Bytes(Content(map)) /\ StrLen(map[name]) <= Bytes(Content(map))
    BY <2>2, <2>3, Zenon
  <2> QED BY <1>1, <2>1, <2>3, <2>4, Zenon
<1> DEFINE Right(T) == /\ c[T] \in Seq(Contents)
                       /\ ParsePairs(c[T]) = Reading([name \in T |-> map[name]], <<>>, <<>>, NULL)
           B == {T \in SUBSET names : ~Right(T)}
<1>5. B = {}
  <2> SUFFICES ASSUME B # {}
               PROVE  FALSE
    OBVIOUS
  <2>1. PICK T \in B : \A x \in T : T \ {x} \notin B
    <3>1. B \in SUBSET (SUBSET names)
      OBVIOUS
    <3> HIDE DEF B
    <3> QED BY <1>2, <3>1, SmallestSubset, Zenon
  <2>2. T \in SUBSET names /\ ~Right(T)
    OBVIOUS
  <2>3. T # {}
    <3>1. [name \in {} |-> map[name]] = <<>>
      OBVIOUS
    <3>2. ParsePairs(<<>>) = Reading(<<>>, <<>>, <<>>, NULL)
      BY ParsePairsEmpty DEF Reading, NoPair, NoPairs
    <3>3. Right({})
      BY <1>3, <3>1, <3>2
    <3> QED BY <2>2, <3>3
  <2>4. PICK name \in T : c[T] = c[T \ {name}] \o Pair(map, name)
    BY <1>3, <2>2, <2>3
  <2>5. Right(T \ {name})
    BY <2>1, <2>2
  <2> DEFINE before == [x \in T \ {name} |-> map[x]]
             this == Single(name, map[name])
  <2>6. name \in names /\ c[T \ {name}] \in Seq(Contents) /\ Pair(map, name) \in Seq(Contents)
    BY <1>1, <2>2, <2>5, PairItems
  <2>7. c[T] \in Seq(Contents)
    <3>1. \A t, u \in Seq(Contents) : t \o u \in Seq(Contents)
      OBVIOUS
    <3> QED BY <2>4, <2>6, <3>1, Zenon
  <2>8. ParsePairs(c[T \ {name}]) = Reading(before, <<>>, <<>>, NULL)
    BY <2>5
  <2>9. Assign(before, this) = [x \in T |-> map[x]]
    BY DEF Assign, Single
  <2>10. ParsePairs(c[T \ {name}] \o Pair(map, name)) =
           Reading(Assign(before, this), <<>>, <<>>, NULL)
    <3> HIDE DEF before
    <3>1. StrLen(name) \in Representable /\ StrLen(map[name]) \in Representable
      BY <1>4, <2>6
    <3> HIDE DEF Right, B
    <3>2. PICK m : m = before
      OBVIOUS
    <3>3. ParsePairs(c[T \ {name}]) = Reading(m, <<>>, <<>>, NULL)
      BY <2>8, <3>2
    <3>4. name \in Names(r) /\ map = PostParams(r)
      BY <1>1, <2>6
    <3>5. /\ StrLen(PostParams(r)[name]) \in Representable
          /\ c[T \ {name}] \in Seq(Contents)
      BY <2>6, <3>1, <3>4
    <3>6. ParsePairs(c[T \ {name}] \o Pair(PostParams(r), name)) =
            Reading(Assign(m, Single(name, PostParams(r)[name])), <<>>, <<>>, NULL)
      BY <3>1, <3>3, <3>4, <3>5, PairDecoded, Zenon
    <3> QED BY <3>2, <3>4, <3>6, Zenon
  <2>11. Right(T)
    BY <2>4, <2>7, <2>9, <2>10
  <2> QED BY <2>2, <2>11
<1>6. Right(names)
  BY <1>5
<1>7. map = [name \in names |-> map[name]]
  BY <1>1, Parameters
<1> QED BY <1>1, <1>3, <1>6, <1>7

-----------------------------------------------------------------------------
(***************************************************************************)
(* What the application receives of the records.                           *)
(***************************************************************************)

\* It has received these ids and contents and ends of streams, and this much
\* of the record of type is left.
Hearing(ids, type, left, garbled, content, ends) ==
  [ids |-> ids, type |-> type, left |-> left, garbled |-> garbled,
   content |-> content, ends |-> ends]

Received(ids, type, left, content, ends) == Hearing(ids, type, left, FALSE, content, ends)

\* What a header changes, and what content changes.
WithHeader(peer, i, t, l, e) ==
  [peer EXCEPT !.ids = i, !.type = t, !.left = l, !.ends = e]

WithContent(peer, l, c) == [peer EXCEPT !.left = l, !.content = c]

\* Changes of the fields, one by one.
LEMMA Heard ==
  ASSUME NEW ids, NEW type, NEW left, NEW content, NEW ends,
         NEW i, NEW t, NEW l, NEW c, NEW e
  PROVE  /\ WithHeader(Received(ids, type, left, content, ends), i, t, l, e) =
              Received(i, t, l, content, e)
         /\ WithContent(Received(ids, type, left, content, ends), l, c) =
              Received(ids, type, l, c, ends)
<1>1. PICK g : g = FALSE
  OBVIOUS
<1>2. PICK r : r = Hearing(ids, type, left, g, content, ends)
  OBVIOUS
<1>3. [r EXCEPT !.ids = i] = Hearing(i, type, left, g, content, ends)
  BY <1>2 DEF Hearing
<1>4. [Hearing(i, type, left, g, content, ends) EXCEPT !.type = t] =
        Hearing(i, t, left, g, content, ends)
  BY DEF Hearing
<1>5. [Hearing(i, t, left, g, content, ends) EXCEPT !.left = l] =
        Hearing(i, t, l, g, content, ends)
  BY DEF Hearing
<1>6. [Hearing(i, t, l, g, content, ends) EXCEPT !.ends = e] = Hearing(i, t, l, g, content, e)
  BY DEF Hearing
<1>7. [r EXCEPT !.left = l] = Hearing(ids, type, l, g, content, ends)
  BY <1>2 DEF Hearing
<1>8. [Hearing(ids, type, l, g, content, ends) EXCEPT !.content = c] =
        Hearing(ids, type, l, g, c, ends)
  BY DEF Hearing
<1>9. [r EXCEPT !.ids = i, !.type = t, !.left = l, !.ends = e] = Hearing(i, t, l, g, content, e)
  <2>1. [r EXCEPT !.ids = i, !.type = t, !.left = l, !.ends = e] =
          [[[[r EXCEPT !.ids = i] EXCEPT !.type = t] EXCEPT !.left = l] EXCEPT !.ends = e]
    OBVIOUS
  <2> QED BY <1>3, <1>4, <1>5, <1>6, <2>1
<1>10. [r EXCEPT !.left = l, !.content = c] = Hearing(ids, type, l, g, c, ends)
  <2>1. [r EXCEPT !.left = l, !.content = c] = [[r EXCEPT !.left = l] EXCEPT !.content = c]
    OBVIOUS
  <2> QED BY <1>7, <1>8, <2>1
<1>11. /\ Received(ids, type, left, content, ends) = r
       /\ Received(i, t, l, content, e) = Hearing(i, t, l, g, content, e)
       /\ Received(ids, type, l, c, ends) = Hearing(ids, type, l, g, c, ends)
  BY <1>1, <1>2, Zenon DEF Received
<1> QED BY <1>9, <1>10, <1>11 DEF WithHeader, WithContent

\* What streams have, and how often they have ended.
StreamContents == [Streams -> Seq(Contents)]
StreamEnds == [Streams -> Nat]

\* The request id that a header has room for, and the lengths it has room for.
Number(id) == id % 65536
Short == {n \in Nat : n < 65536}

Alone(item) == <<item>>

Taken(content, ends, type, t) ==
  [content EXCEPT ![type] = IF ends[type] = 0 THEN @ \o t ELSE @]

Ended(ends, type) == [ends EXCEPT ![type] = @ + 1]

\* A record of this length ends its stream if it is empty.
Counted(ends, type, len) == IF len = 0 THEN Ended(ends, type) ELSE ends

\* fcgiHeaderSetRequestId and fcgiHeaderSetContentLen: two bytes.
LEMMA TwoBytes ==
  ASSUME NEW n \in Nat
  PROVE  /\ BYTE_1(n) * 256 + BYTE_0(n) = Number(n)
         /\ n \in Short => Number(n) = n
         /\ 0 \in Short
<1> DEFINE a == n \div 256
           b == n \div 65536
<1>1. /\ a \in Nat /\ b \in Nat /\ n = a * 256 + (n % 256) /\ n % 256 \in 0 .. 255
      /\ n = b * 65536 + (n % 65536) /\ n % 65536 \in Nat /\ n % 65536 < 65536
      /\ b = a \div 256
  BY SMT
<1>2. BYTE_1(n) = a % 256 /\ BYTE_0(n) = n % 256
  BY SMT DEF BYTE_0, BYTE_1
<1> HIDE DEF a, b
<1>3. a = b * 256 + (a % 256) /\ a % 256 \in 0 .. 255
  BY <1>1, SMT
<1>4. (a % 256) * 256 + (n % 256) = n % 65536
  BY <1>1, <1>3, SMT
<1>5. n < 65536 => n % 65536 = n
  BY SMT
<1> QED BY <1>2, <1>4, <1>5, SMT DEF Number, Short

\* createHeader, for a record with content and for an empty one.
LEMMA HeaderReceived ==
  ASSUME NEW id \in Nat, NEW type \in Streams, NEW len \in Short,
         NEW ids, NEW last, NEW content, NEW ends \in StreamEnds
  PROVE  /\ createHeader(type, id, len) \in Items
         /\ Receive(Received(ids, last, 0, content, ends), createHeader(type, id, len)) =
              Received(ids \cup {Number(id)}, type, len, content, Counted(ends, type, len))
<1> DEFINE item == createHeader(type, id, len)
           peer == Received(ids, last, 0, content, ends)
<1>1. len \in Nat
  BY SMT DEF Short
<1>2. /\ item.kind = "header" /\ item.type = type
      /\ item.idB1 * 256 + item.idB0 = Number(id)
      /\ item.lenB1 * 256 + item.lenB0 = len
  BY <1>1, TwoBytes DEF createHeader
<1>3. item \in Headers
  BY <1>1, BytesOfNumbers DEF createHeader, Headers
<1> HIDE DEF item
<1>4. Receive(peer, item) = ReceiveHeader(peer, item)
  BY <1>2 DEF Receive, Due, Received, Hearing
<1>5. ReceiveHeader(peer, item) =
        Received(ids \cup {Number(id)}, type, len, content,
                 [ends EXCEPT ![type] = IF len = 0 THEN @ + 1 ELSE @])
  <2> DEFINE new == [ends EXCEPT ![type] = IF len = 0 THEN @ + 1 ELSE @]
  <2>1. ReceiveHeader(peer, item) =
          [peer EXCEPT !.ids = ids \cup {Number(id)}, !.type = type, !.left = len,
                       !.ends[type] = IF len = 0 THEN @ + 1 ELSE @]
    BY <1>2 DEF ReceiveHeader, Received, Hearing
  <2>2. [peer EXCEPT !.ids = ids \cup {Number(id)}, !.type = type, !.left = len,
                     !.ends[type] = IF len = 0 THEN @ + 1 ELSE @] =
        WithHeader(peer, ids \cup {Number(id)}, type, len, new)
    BY DEF Received, Hearing, WithHeader
  <2> HIDE DEF new
  <2>3. WithHeader(peer, ids \cup {Number(id)}, type, len, new) =
          Received(ids \cup {Number(id)}, type, len, content, new)
    BY Heard
  <2> QED BY <2>1, <2>2, <2>3 DEF new
<1>6. [ends EXCEPT ![type] = IF len = 0 THEN @ + 1 ELSE @] =
        Counted(ends, type, len)
  BY DEF Ended, Counted, StreamEnds
<1> QED BY <1>3, <1>4, <1>5, <1>6 DEF item, Items

\* An item of the content of a record.
LEMMA ItemReceived ==
  ASSUME NEW item \in Contents, NEW type \in Streams, NEW left \in Nat, Size(item) <= left,
         NEW ids, NEW content \in StreamContents, NEW ends
  PROVE  Receive(Received(ids, type, left, content, ends), item) =
           Received(ids, type, left - Size(item), Taken(content, ends, type, Alone(item)), ends)
<1> DEFINE peer == Received(ids, type, left, content, ends)
<1>1. item.kind # "header"
  BY Sizes
<1>2. Receive(peer, item) = ReceiveContent(peer, item)
  BY <1>1 DEF Receive, Due, Received, Hearing
<1>3. ReceiveContent(peer, item) =
        Received(ids, type, left - Size(item),
                 [content EXCEPT ![type] = IF ends[type] = 0 THEN Append(@, item) ELSE @], ends)
  <2> DEFINE new == [content EXCEPT ![type] = IF ends[type] = 0 THEN Append(@, item) ELSE @]
  <2>1. ReceiveContent(peer, item) =
          [peer EXCEPT !.left = left - Size(item), !.content[type] =
                         IF ends[type] = 0 THEN Append(@, item) ELSE @]
    BY DEF ReceiveContent, Received, Hearing
  <2>2. [peer EXCEPT !.left = left - Size(item), !.content[type] =
                       IF ends[type] = 0 THEN Append(@, item) ELSE @] =
        WithContent(peer, left - Size(item), new)
    BY DEF Received, Hearing, WithContent
  <2> HIDE DEF new
  <2>3. WithContent(peer, left - Size(item), new) =
          Received(ids, type, left - Size(item), new, ends)
    BY Heard
  <2> QED BY <2>1, <2>2, <2>3 DEF new
<1>4. content[type] \o <<item>> = Append(content[type], item)
  <2>1. content[type] \in Seq(Contents)
    BY DEF StreamContents
  <2> QED BY <2>1
<1>5. [content EXCEPT ![type] = IF ends[type] = 0 THEN Append(@, item) ELSE @] =
        Taken(content, ends, type, Alone(item))
  BY <1>4 DEF Taken, Alone
<1> QED BY <1>2, <1>3, <1>5

\* Contents of a stream, one after the other.
LEMMA TakenNothing ==
  ASSUME NEW type \in Streams, NEW content \in StreamContents, NEW ends
  PROVE  Taken(content, ends, type, <<>>) = content
<1>1. content[type] \in Seq(Contents)
  BY DEF StreamContents
<1>2. content[type] \o <<>> = content[type]
  BY <1>1
<1> QED BY <1>2 DEF Taken, StreamContents

\* Streams of contents stay that.
LEMMA TakenType ==
  ASSUME NEW type \in Streams, NEW content \in StreamContents, NEW ends,
         NEW t \in Seq(Contents)
  PROVE  Taken(content, ends, type, t) \in StreamContents
<1>1. content[type] \in Seq(Contents)
  BY DEF StreamContents
<1>2. content[type] \o t \in Seq(Contents)
  BY <1>1
<1> QED BY <1>2 DEF Taken, StreamContents

\* Two contents, one after the other, are taken as one.
LEMMA TakenTwice ==
  ASSUME NEW type \in Streams, NEW content \in StreamContents, NEW ends,
         NEW t \in Seq(Contents), NEW u \in Seq(Contents)
  PROVE  Taken(Taken(content, ends, type, t), ends, type, u) =
           Taken(content, ends, type, t \o u)
<1>1. content[type] \in Seq(Contents)
  BY DEF StreamContents
<1>2. (content[type] \o t) \o u = content[type] \o (t \o u)
  <2>1. PICK c : c = content[type]
    OBVIOUS
  <2>2. c \in Seq(Contents)
    BY <1>1, <2>1
  <2>3. (c \o t) \o u = c \o (t \o u)
    BY <2>2
  <2> QED BY <2>1, <2>3
<1> QED BY <1>2 DEF Taken, StreamContents

\* What comes first of a sequence of items has no more bytes than all of it.
LEMMA BytesUpto ==
  ASSUME NEW t \in Seq(Items), NEW k \in 0 .. Len(t)
  PROVE  Bytes(SubSeq(t, 1, k)) \in Nat /\ Bytes(SubSeq(t, 1, k)) <= Bytes(t)
<1> DEFINE v == SubSeq(t, 1, k)
           u == SubSeq(t, k + 1, Len(t))
<1>1. v \in Seq(Items) /\ Len(v) = k /\ \A i \in 1 .. k : v[i] = t[i]
  OBVIOUS
<1>2. u \in Seq(Items) /\ Len(u) = Len(t) - k /\ \A i \in 1 .. Len(t) - k : u[i] = t[k + i]
  OBVIOUS
<1> HIDE DEF u, v
<1>3. t = v \o u
  <2>1. Len(t) \in Nat /\ k \in Nat /\ k <= Len(t)
    OBVIOUS
  <2>2. v \o u \in Seq(Items) /\ Len(v \o u) = Len(t)
    BY <1>1, <1>2, <2>1
  <2>3. ASSUME NEW i \in 1 .. Len(t)
        PROVE  (v \o u)[i] = t[i]
    <3>1. CASE i <= k
      BY <1>1, <1>2, <2>1, <3>1
    <3>2. CASE ~(i <= k)
      <4>1. i - k \in 1 .. Len(t) - k /\ k + (i - k) = i
        BY <2>1, <3>2
      <4>2. (v \o u)[i] = u[i - k]
        BY <1>1, <1>2, <2>1, <3>2
      <4>3. u[i - k] = t[k + (i - k)]
        BY <1>2, <4>1
      <4> QED BY <4>1, <4>2, <4>3
    <3> QED BY <3>1, <3>2
  <2>4. PICK w : w = v \o u
    OBVIOUS
  <2>5. w \in Seq(Items) /\ Len(w) = Len(t) /\ \A i \in 1 .. Len(t) : w[i] = t[i]
    BY <2>2, <2>3, <2>4
  <2>6. w = t
    BY <2>5
  <2> QED BY <2>4, <2>6
<1>4. Bytes(v) \in Nat /\ Bytes(u) \in Nat /\ Bytes(v \o u) = Bytes(v) + Bytes(u)
  BY <1>1, <1>2, BytesCount
<1>5. Bytes(t) = Bytes(v) + Bytes(u)
  BY <1>3, <1>4
<1>6. Bytes(v) <= Bytes(t)
  BY <1>4, <1>5
<1> QED BY <1>4, <1>6 DEF v

\* One more item of the content of a record.
LEMMA NextReceived ==
  ASSUME NEW e \in Contents, NEW v \in Seq(Contents), NEW type \in Streams,
         NEW left \in Nat, Size(e) <= left,
         NEW ids, NEW content \in StreamContents, NEW ends
  PROVE  Receive(Received(ids, type, left, Taken(content, ends, type, v), ends), e) =
           Received(ids, type, left - Size(e), Taken(content, ends, type, Append(v, e)), ends)
<1>1. PICK c : c = Taken(content, ends, type, v)
  OBVIOUS
<1>2. c \in StreamContents
  BY <1>1, TakenType
<1>3. Receive(Received(ids, type, left, c, ends), e) =
        Received(ids, type, left - Size(e), Taken(c, ends, type, Alone(e)), ends)
  BY <1>2, ItemReceived
<1>4. Alone(e) \in Seq(Contents) /\ v \o Alone(e) = Append(v, e)
  BY DEF Alone
<1>5. Taken(Taken(content, ends, type, v), ends, type, Alone(e)) =
        Taken(content, ends, type, v \o Alone(e))
  <2>1. Alone(e) \in Seq(Contents)
    BY <1>4
  <2> QED BY <2>1, TakenTwice
<1> QED BY <1>1, <1>3, <1>4, <1>5

\* The content of a record is received when all of it has arrived.
LEMMA ContentReceived ==
  ASSUME NEW s \in Seq(Items), NEW t \in Seq(Contents), NEW type \in Streams,
         NEW ids, NEW content \in StreamContents, NEW ends,
         Parse(s) = Received(ids, type, Bytes(t), content, ends)
  PROVE  Parse(s \o t) = Received(ids, type, 0, Taken(content, ends, type, t), ends)
<1>1. t \in Seq(Items) /\ Contents \subseteq Items
  <2>1. Seq(Contents) \subseteq Seq(Items)
    BY DEF Items
  <2> QED BY <2>1 DEF Items
<1>2. Bytes(t) \in Nat
  BY <1>1, BytesCount
<1> DEFINE Upto(k) == SubSeq(t, 1, k)
           P(k) == /\ Bytes(Upto(k)) <= Bytes(t)
                   /\ Parse(s \o Upto(k)) =
                        Received(ids, type, Bytes(t) - Bytes(Upto(k)),
                                 Taken(content, ends, type, Upto(k)), ends)
           Bad == {k \in 0 .. Len(t) : ~P(k)}
<1>3. ASSUME NEW k \in 0 .. Len(t)
      PROVE  Bytes(Upto(k)) \in Nat /\ Bytes(Upto(k)) <= Bytes(t)
  BY <1>1, BytesUpto
<1>4. Bad = {}
  <2> SUFFICES ASSUME Bad # {}
               PROVE  FALSE
    OBVIOUS
  <2>1. PICK k \in Bad : \A i \in Bad : k <= i
    <3>1. Bad \subseteq Nat
      OBVIOUS
    <3> HIDE DEF Bad
    <3> QED BY <3>1, LeastNumber
  <2>2. k \in 0 .. Len(t) /\ ~P(k)
    OBVIOUS
  <2>3. k # 0
    <3>1. Upto(0) = <<>> /\ s \o <<>> = s
      BY PrefixSteps, <1>1
    <3>2. Bytes(Upto(0)) = 0
      BY <3>1, BytesEmpty, Zenon
    <3>3. Bytes(t) - 0 = Bytes(t) /\ 0 <= Bytes(t)
      BY <1>2
    <3>4. Taken(content, ends, type, <<>>) = content
      BY TakenNothing, Zenon
    <3>5. P(0)
      BY <3>1, <3>2, <3>3, <3>4
    <3> QED BY <2>2, <3>5
  <2>4. k \in 1 .. Len(t) /\ k - 1 \in 0 .. Len(t) /\ k - 1 \notin Bad
    BY <2>1, <2>2, <2>3
  <2>5. P(k - 1)
    BY <2>4
  <2> HIDE DEF Bad, P
  <2>6. PICK v, w, e : v = Upto(k - 1) /\ w = Upto(k) /\ e = t[k]
    OBVIOUS
  <2>7. /\ w = Append(v, e) /\ e \in Contents /\ s \o w = Append(s \o v, e)
        /\ v \in Seq(Contents) /\ w \in Seq(Contents)
    <3>1. /\ SubSeq(t, 1, k) = Append(SubSeq(t, 1, k - 1), t[k]) /\ t[k] \in Contents
          /\ SubSeq(t, 1, k - 1) \in Seq(Contents) /\ SubSeq(t, 1, k) \in Seq(Contents)
      BY <2>4, PrefixSteps
    <3>2. s \o SubSeq(t, 1, k) = Append(s \o SubSeq(t, 1, k - 1), t[k])
      BY <1>1, <2>4, PrefixSteps
    <3> QED BY <2>6, <3>1, <3>2
  <2>8. e \in Items /\ v \in Seq(Items) /\ s \o v \in Seq(Items)
    <3>1. v \in Seq(Items)
      <4>1. Seq(Contents) \subseteq Seq(Items)
        BY <1>1
      <4> QED BY <2>7, <4>1
    <3> QED BY <1>1, <2>7, <3>1
  <2>9. Parse(s \o w) = Receive(Parse(s \o v), e)
    BY <2>7, <2>8, ParseAppend
  <2>10. /\ Bytes(w) = Bytes(v) + Size(e) /\ Size(e) \in Nat
         /\ Bytes(v) \in Nat /\ Bytes(w) <= Bytes(t)
    <3>1. Bytes(w) = Bytes(v) + Size(e) /\ Size(e) \in Nat
      BY <2>7, <2>8, BytesAppend, Sizes
    <3>2. Bytes(v) \in Nat /\ Bytes(w) <= Bytes(t)
      BY <1>3, <2>2, <2>4, <2>6
    <3> QED BY <3>1, <3>2
  <2>11. PICK left : left = Bytes(t) - Bytes(v)
    OBVIOUS
  <2>12. left \in Nat /\ Size(e) <= left /\ left - Size(e) = Bytes(t) - Bytes(w)
    BY <1>2, <2>10, <2>11
  <2>13. Parse(s \o v) = Received(ids, type, left, Taken(content, ends, type, v), ends)
    BY <2>5, <2>6, <2>11 DEF P
  <2>14. Receive(Received(ids, type, left, Taken(content, ends, type, v), ends), e) =
           Received(ids, type, left - Size(e), Taken(content, ends, type, Append(v, e)), ends)
    BY <2>7, <2>12, NextReceived
  <2>15. P(k)
    BY <2>6, <2>7, <2>9, <2>10, <2>12, <2>13, <2>14 DEF P
  <2> QED BY <2>2, <2>15
<1>5. P(Len(t)) /\ Upto(Len(t)) = t
  <2>1. Len(t) \in 0 .. Len(t) /\ Upto(Len(t)) = t
    OBVIOUS
  <2> QED BY <1>4, <2>1
<1>6. Bytes(t) - Bytes(t) = 0
  BY <1>2
<1> QED BY <1>5, <1>6

\* createHeader makes a header of every number.
LEMMA HeaderItem ==
  ASSUME NEW type \in Streams, NEW id \in Nat, NEW len \in Nat
  PROVE  /\ createHeader(type, id, len) \in Items
         /\ Size(createHeader(type, id, len)) = 8
<1>1. createHeader(type, id, len) \in Headers
  BY BytesOfNumbers DEF createHeader, Headers
<1>2. Size(createHeader(type, id, len)) = 8
  BY DEF createHeader, Size
<1> QED BY <1>1, <1>2 DEF Items

\* The header of a record is received.
LEMMA StartReceived ==
  ASSUME NEW s \in Seq(Items), NEW id \in Nat, NEW type \in Streams, NEW len \in Short,
         NEW ids, NEW last, NEW content, NEW ends \in StreamEnds,
         Parse(s) = Received(ids, last, 0, content, ends)
  PROVE  /\ s \o Alone(createHeader(type, id, len)) \in Seq(Items)
         /\ Parse(s \o Alone(createHeader(type, id, len))) =
              Received(ids \cup {Number(id)}, type, len, content, Counted(ends, type, len))
<1>1. PICK item : item = createHeader(type, id, len)
  OBVIOUS
<1>2. /\ item \in Items
      /\ Receive(Received(ids, last, 0, content, ends), item) =
           Received(ids \cup {Number(id)}, type, len, content, Counted(ends, type, len))
  BY <1>1, HeaderReceived
<1>3. s \o Alone(item) = Append(s, item) /\ Append(s, item) \in Seq(Items)
  BY <1>2 DEF Alone
<1>4. Parse(Append(s, item)) = Receive(Parse(s), item)
  BY <1>2, ParseAppend
<1> QED BY <1>1, <1>2, <1>3, <1>4

\* An empty record ends a stream.
LEMMA EndReceived ==
  ASSUME NEW s \in Seq(Items), NEW id \in Nat, NEW type \in Streams,
         NEW ids, NEW last, NEW content, NEW ends \in StreamEnds,
         Parse(s) = Received(ids, last, 0, content, ends)
  PROVE  /\ s \o Alone(createHeader(type, id, 0)) \in Seq(Items)
         /\ Parse(s \o Alone(createHeader(type, id, 0))) =
              Received(ids \cup {Number(id)}, type, 0, content, Ended(ends, type))
<1>1. 0 \in Short
  BY SMT DEF Short
<1>2. PICK len : len = 0
  OBVIOUS
<1>3. len \in Short
  BY <1>1, <1>2
<1>4. /\ s \o Alone(createHeader(type, id, len)) \in Seq(Items)
      /\ Parse(s \o Alone(createHeader(type, id, len))) =
           Received(ids \cup {Number(id)}, type, len, content, Counted(ends, type, len))
  BY <1>3, StartReceived
<1> QED BY <1>2, <1>4 DEF Counted

\* A record whose length is that of its content.
LEMMA RecordReceived ==
  ASSUME NEW s \in Seq(Items), NEW id \in Nat, NEW type \in Streams,
         NEW t \in Seq(Contents), Bytes(t) \in Short, Bytes(t) # 0,
         NEW ids, NEW last, NEW content \in StreamContents, NEW ends \in StreamEnds,
         Parse(s) = Received(ids, last, 0, content, ends)
  PROVE  /\ (s \o Alone(createHeader(type, id, Bytes(t)))) \o t \in Seq(Items)
         /\ Parse((s \o Alone(createHeader(type, id, Bytes(t)))) \o t) =
              Received(ids \cup {Number(id)}, type, 0, Taken(content, ends, type, t), ends)
<1>1. /\ s \o Alone(createHeader(type, id, Bytes(t))) \in Seq(Items)
      /\ Parse(s \o Alone(createHeader(type, id, Bytes(t)))) =
           Received(ids \cup {Number(id)}, type, Bytes(t), content, Counted(ends, type, Bytes(t)))
  BY StartReceived
<1>2. Counted(ends, type, Bytes(t)) = ends
  BY DEF Counted
<1>3. PICK u, i : u = s \o Alone(createHeader(type, id, Bytes(t))) /\ i = ids \cup {Number(id)}
  OBVIOUS
<1>4. u \in Seq(Items) /\ Parse(u) = Received(i, type, Bytes(t), content, ends)
  BY <1>1, <1>2, <1>3
<1>5. t \in Seq(Items)
  <2>1. Seq(Contents) \subseteq Seq(Items)
    BY DEF Items
  <2> QED BY <2>1
<1>6. u \o t \in Seq(Items)
  BY <1>4, <1>5
<1>7. Parse(u \o t) = Received(i, type, 0, Taken(content, ends, type, t), ends)
  BY <1>4, ContentReceived
<1> QED BY <1>3, <1>6, <1>7

\* The streams that a record leaves alone.
LEMMA OthersTaken ==
  ASSUME NEW type \in Streams, NEW content \in StreamContents, NEW ends, NEW t,
         NEW other \in Streams, other # type
  PROVE  Taken(content, ends, type, t)[other] = content[other]
BY DEF Taken, StreamContents

\* The first record of a stream.
LEMMA FirstTaken ==
  ASSUME NEW type \in Streams, NEW content \in StreamContents, NEW ends \in StreamEnds,
         NEW t \in Seq(Contents), content[type] = <<>>, ends[type] = 0
  PROVE  /\ Taken(content, ends, type, t) \in StreamContents
         /\ Taken(content, ends, type, t)[type] = t
         /\ \A other \in Streams :
              other # type => Taken(content, ends, type, t)[other] = content[other]
<1>1. Taken(content, ends, type, t) \in StreamContents
  BY TakenType
<1>2. PICK none : none = content[type]
  OBVIOUS
<1>3. none \o t = t
  <2>1. <<>> \o t = t
    OBVIOUS
  <2> QED BY <1>2, <2>1
<1>4. Taken(content, ends, type, t)[type] = none \o t
  BY <1>2 DEF Taken, StreamContents
<1>5. ASSUME NEW other \in Streams, other # type
      PROVE  Taken(content, ends, type, t)[other] = content[other]
  BY <1>5, OthersTaken
<1> QED BY <1>1, <1>3, <1>4, <1>5

\* One stream ends once more.
LEMMA EndedOf ==
  ASSUME NEW type \in Streams, NEW ends \in StreamEnds, NEW ended, ended = Ended(ends, type)
  PROVE  /\ ended \in StreamEnds
         /\ ended[type] = ends[type] + 1
         /\ \A other \in Streams : other # type => ended[other] = ends[other]
BY DEF Ended, StreamEnds

\* The application has received these contents and ends of streams, all of one
\* request at most, and is between two records.
Between(s, id, content, ends) ==
  /\ s \in Seq(Items) /\ content \in StreamContents /\ ends \in StreamEnds
  /\ \E ids, last : /\ ids \subseteq {Number(id)}
                    /\ Parse(s) = Received(ids, last, 0, content, ends)

\* The same, and there is a record.
Told(s, id, content, ends) ==
  /\ s \in Seq(Items) /\ content \in StreamContents /\ ends \in StreamEnds
  /\ \E last : Parse(s) = Received({Number(id)}, last, 0, content, ends)

\* A record, and an empty record, after s.
Sent(s, type, id, t) == (s \o Alone(createHeader(type, id, Bytes(t)))) \o t
Closed(s, type, id) == s \o Alone(createHeader(type, id, 0))

\* After a record comes the next one.
LEMMA ToldIsBetween ==
  ASSUME NEW s, NEW id, NEW content, NEW ends, Told(s, id, content, ends)
  PROVE  Between(s, id, content, ends)
<1>1. PICK last : Parse(s) = Received({Number(id)}, last, 0, content, ends)
  BY DEF Told
<1>2. {Number(id)} \subseteq {Number(id)}
  OBVIOUS
<1> QED BY <1>1, <1>2 DEF Told, Between

\* A record with content.
LEMMA TellRecord ==
  ASSUME NEW id \in Nat, NEW s, NEW content, NEW ends, Between(s, id, content, ends),
         NEW type \in Streams, NEW t \in Seq(Contents), Bytes(t) \in Short, Bytes(t) # 0
  PROVE  Told(Sent(s, type, id, t), id, Taken(content, ends, type, t), ends)
<1>1. s \in Seq(Items) /\ content \in StreamContents /\ ends \in StreamEnds
  BY DEF Between
<1>2. PICK ids, last : /\ ids \subseteq {Number(id)}
                       /\ Parse(s) = Received(ids, last, 0, content, ends)
  BY DEF Between
<1>3. /\ Sent(s, type, id, t) \in Seq(Items)
      /\ Parse(Sent(s, type, id, t)) =
           Received(ids \cup {Number(id)}, type, 0, Taken(content, ends, type, t), ends)
  BY <1>1, <1>2, RecordReceived DEF Sent
<1>4. ids \cup {Number(id)} = {Number(id)}
  BY <1>2
<1>5. Taken(content, ends, type, t) \in StreamContents
  BY <1>1, TakenType
<1> QED BY <1>1, <1>3, <1>4, <1>5 DEF Told

\* An empty record.
LEMMA TellEnd ==
  ASSUME NEW id \in Nat, NEW s, NEW content, NEW ends, Between(s, id, content, ends),
         NEW type \in Streams
  PROVE  Told(Closed(s, type, id), id, content, Ended(ends, type))
<1>1. s \in Seq(Items) /\ content \in StreamContents /\ ends \in StreamEnds
  BY DEF Between
<1>2. PICK ids, last : /\ ids \subseteq {Number(id)}
                       /\ Parse(s) = Received(ids, last, 0, content, ends)
  BY DEF Between
<1>3. /\ Closed(s, type, id) \in Seq(Items)
      /\ Parse(Closed(s, type, id)) =
           Received(ids \cup {Number(id)}, type, 0, content, Ended(ends, type))
  BY <1>1, <1>2, EndReceived DEF Closed
<1>4. ids \cup {Number(id)} = {Number(id)}
  BY <1>2
<1>5. Ended(ends, type) \in StreamEnds
  BY <1>1, EndedOf
<1> QED BY <1>1, <1>3, <1>4, <1>5 DEF Told

\* createBeginRequest: the records of writeRequestHeader.
RequestItems(r, id) ==
  Closed(Sent(Sent(<<>>, FCGI_BEGIN_REQUEST, id, <<BeginBody>>),
              FCGI_PARAMS, id, Content(PostParams(r))), FCGI_PARAMS, id)

\* The types of records are streams, each its own.
LEMMA StreamTypes ==
  /\ FCGI_BEGIN_REQUEST \in Streams /\ FCGI_PARAMS \in Streams /\ FCGI_STDIN \in Streams
  /\ FCGI_BEGIN_REQUEST # FCGI_PARAMS /\ FCGI_BEGIN_REQUEST # FCGI_STDIN
  /\ FCGI_PARAMS # FCGI_STDIN
BY DEF Streams, FCGI_BEGIN_REQUEST, FCGI_PARAMS, FCGI_STDIN

NoContents == [t \in Streams |-> <<>>]
NoEnds == [t \in Streams |-> 0]

\* Before the first record.
LEMMA TellNothing ==
  ASSUME NEW id \in Nat
  PROVE  /\ Between(<<>>, id, NoContents, NoEnds)
         /\ NoContents \in StreamContents /\ NoEnds \in StreamEnds
         /\ \A t \in Streams : NoContents[t] = <<>> /\ NoEnds[t] = 0
<1>1. NoContents \in StreamContents /\ NoEnds \in StreamEnds
  BY DEF StreamContents, StreamEnds, NoContents, NoEnds
<1>2. PICK none : none = {}
  OBVIOUS
<1>3. Parse(<<>>) = Received(none, 0, 0, NoContents, NoEnds)
  BY <1>2, ParseEmpty DEF Silence, Received, Hearing, NoContents, NoEnds
<1>4. none \subseteq {Number(id)}
  BY <1>2
<1>5. <<>> \in Seq(Items)
  OBVIOUS
<1>6. Between(<<>>, id, NoContents, NoEnds)
  BY <1>1, <1>3, <1>4, <1>5 DEF Between
<1> QED BY <1>1, <1>6 DEF NoContents, NoEnds

\* The content of FCGI_BEGIN_REQUEST is 8 bytes.
LEMMA BodyOfBegin ==
  <<BeginBody>> \in Seq(Contents) /\ Bytes(<<BeginBody>>) = 8
<1>1. PICK begin : begin = BeginBody
  OBVIOUS
<1>2. begin \in Contents /\ begin \in Items /\ Size(begin) = 8
  BY <1>1 DEF Contents, Items, Size, BeginBody
<1>3. Bytes(<<begin>>) = 8
  BY <1>2, BytesOne
<1> QED BY <1>1, <1>2, <1>3

\* The application has the parameters and their end when it has these records.
LEMMA RequestReceived ==
  ASSUME NEW r \in Requests, NEW id \in Nat, Bytes(Content(PostParams(r))) \in Short
  PROVE  \E content, ends :
           /\ Told(RequestItems(r, id), id, content, ends)
           /\ content[FCGI_BEGIN_REQUEST] = <<BeginBody>>
           /\ content[FCGI_PARAMS] = Content(PostParams(r)) /\ ends[FCGI_PARAMS] = 1
           /\ content[FCGI_STDIN] = <<>> /\ ends[FCGI_STDIN] = 0
<1>1. PICK b, p, i, body, t, s1, s2, c1, c2, e :
        /\ b = FCGI_BEGIN_REQUEST /\ p = FCGI_PARAMS /\ i = FCGI_STDIN
        /\ body = <<BeginBody>> /\ t = Content(PostParams(r))
        /\ s1 = Sent(<<>>, b, id, body) /\ c1 = Taken(NoContents, NoEnds, b, body)
        /\ s2 = Sent(s1, p, id, t) /\ c2 = Taken(c1, NoEnds, p, t) /\ e = Ended(NoEnds, p)
  OBVIOUS
<1>2. b \in Streams /\ p \in Streams /\ i \in Streams /\ b # p /\ b # i /\ p # i
  BY <1>1, StreamTypes
<1>3. body \in Seq(Contents) /\ Bytes(body) \in Short /\ Bytes(body) # 0
  <2>1. body \in Seq(Contents) /\ Bytes(body) = 8
    BY <1>1, BodyOfBegin
  <2>2. 8 \in Short
    BY SMT DEF Short
  <2> QED BY <2>1, <2>2
<1>4. t \in Seq(Contents) /\ Bytes(t) \in Short /\ Bytes(t) # 0
  BY <1>1, ContentOfRequest
<1>5. Told(s1, id, c1, NoEnds)
  BY <1>1, <1>2, <1>3, TellNothing, TellRecord
<1>6. Told(s2, id, c2, NoEnds)
  BY <1>1, <1>2, <1>4, <1>5, ToldIsBetween, TellRecord
<1>7. Told(Closed(s2, p, id), id, c2, e)
  BY <1>1, <1>2, <1>6, ToldIsBetween, TellEnd
<1>8. c1[b] = body /\ c1[p] = <<>> /\ c1[i] = <<>> /\ c1 \in StreamContents
  <2>1. /\ NoContents \in StreamContents /\ NoEnds \in StreamEnds
        /\ NoContents[b] = <<>> /\ NoEnds[b] = 0 /\ NoContents[p] = <<>> /\ NoContents[i] = <<>>
    BY <1>2, TellNothing
  <2>2. b \in Streams /\ body \in Seq(Contents)
    BY <1>2, <1>3
  <2>3. /\ Taken(NoContents, NoEnds, b, body) \in StreamContents
        /\ Taken(NoContents, NoEnds, b, body)[b] = body
        /\ \A other \in Streams :
              other # b => Taken(NoContents, NoEnds, b, body)[other] = NoContents[other]
    BY <2>1, <2>2, FirstTaken
  <2> QED BY <1>1, <1>2, <2>1, <2>3
<1>9. c2[b] = body /\ c2[p] = t /\ c2[i] = <<>>
  <2>1. NoEnds \in StreamEnds /\ NoEnds[p] = 0
    BY <1>2, TellNothing
  <2>2. p \in Streams /\ t \in Seq(Contents)
    BY <1>2, <1>4
  <2>3. /\ Taken(c1, NoEnds, p, t)[p] = t
        /\ \A other \in Streams : other # p => Taken(c1, NoEnds, p, t)[other] = c1[other]
    BY <1>8, <2>1, <2>2, FirstTaken
  <2> QED BY <1>1, <1>2, <1>8, <2>3
<1>10. e[p] = 1 /\ e[i] = 0
  <2>1. NoEnds \in StreamEnds /\ NoEnds[p] = 0 /\ NoEnds[i] = 0
    BY <1>2, TellNothing
  <2>2. e[p] = NoEnds[p] + 1 /\ e[i] = NoEnds[i]
    BY <1>1, <1>2, <2>1, EndedOf
  <2> QED BY <2>1, <2>2
<1>11. Closed(s2, p, id) = RequestItems(r, id)
  BY <1>1 DEF RequestItems
<1> QED BY <1>1, <1>7, <1>9, <1>10, <1>11

\* What the application knows of a request it was told of.
LEMMA ToldPeer ==
  ASSUME NEW s, NEW id, NEW content, NEW ends, Told(s, id, content, ends)
  PROVE  /\ Parse(s).garbled = FALSE /\ Parse(s).ids = {Number(id)}
         /\ Parse(s).content = content /\ Parse(s).ends = ends
<1>1. PICK last : Parse(s) = Received({Number(id)}, last, 0, content, ends)
  BY DEF Told
<1>2. PICK ids, g : ids = {Number(id)} /\ g = FALSE
  OBVIOUS
<1>3. Parse(s) = Hearing(ids, last, 0, g, content, ends)
  BY <1>1, <1>2 DEF Received
<1>4. /\ Parse(s).garbled = g /\ Parse(s).ids = ids
      /\ Parse(s).content = content /\ Parse(s).ends = ends
  BY <1>3 DEF Hearing
<1> QED BY <1>2, <1>4

\* postBodyChunk: the records of writeRequestBody.
BodyItems(chunk, id) ==
  <<createHeader(FCGI_STDIN, id, StrLen(chunk))>>
    \o Data(chunk) \o <<createHeader(FCGI_STDIN, id, 0)>>

\* They are a record of the chunk's length and an empty one.
LEMMA ChunkItems ==
  ASSUME NEW r \in Requests, NEW chunk \in Chunks(r), NEW id \in Nat, NEW s \in Seq(Items)
  PROVE  /\ s \o BodyItems(chunk, id) =
              Closed((s \o Alone(createHeader(FCGI_STDIN, id, StrLen(chunk)))) \o Data(chunk),
                     FCGI_STDIN, id)
         /\ BodyItems(chunk, id) \in Seq(Items)
         /\ Bytes(BodyItems(chunk, id)) = StrLen(chunk) + 16
<1>1. PICK h, z, t : /\ h = createHeader(FCGI_STDIN, id, StrLen(chunk))
                     /\ z = createHeader(FCGI_STDIN, id, 0)
                     /\ t = Data(chunk)
  OBVIOUS
<1>2. StrLen(chunk) \in Nat /\ t \in Seq(Contents) /\ Bytes(t) = StrLen(chunk)
  BY <1>1, StringLengths, DataItem
<1>3. h \in Items /\ z \in Items /\ Size(h) = 8 /\ Size(z) = 8
  BY <1>1, <1>2, HeaderItem, StreamTypes
<1>4. t \in Seq(Items)
  <2>1. Seq(Contents) \subseteq Seq(Items)
    BY DEF Items
  <2> QED BY <1>2, <2>1
<1>5. PICK a, b : a = <<h>> /\ b = <<z>>
  OBVIOUS
<1>6. a \in Seq(Items) /\ b \in Seq(Items)
  BY <1>3, <1>5
<1>7. BodyItems(chunk, id) = (a \o t) \o b
  BY <1>1, <1>5 DEF BodyItems
<1>8. s \o ((a \o t) \o b) = ((s \o a) \o t) \o b
  <2>1. PICK u : u = a \o t
    OBVIOUS
  <2>2. u \in Seq(Items)
    BY <1>4, <1>6, <2>1
  <2>3. s \o (u \o b) = (s \o u) \o b
    BY <1>6, <2>2
  <2>4. s \o (a \o t) = (s \o a) \o t
    BY <1>4, <1>6
  <2> QED BY <2>1, <2>3, <2>4
<1>9. (a \o t) \o b \in Seq(Items)
  BY <1>4, <1>6
<1>10. Bytes((a \o t) \o b) = StrLen(chunk) + 16
  <2>1. Bytes(a) = 8 /\ Bytes(b) = 8
    BY <1>3, <1>5, BytesOne
  <2>2. a \o t \in Seq(Items)
    BY <1>4, <1>6
  <2>3. Bytes(a \o t) = Bytes(a) + Bytes(t) /\ Bytes((a \o t) \o b) = Bytes(a \o t) + Bytes(b)
    BY <1>4, <1>6, <2>2, BytesCount
  <2> QED BY <1>2, <2>1, <2>3
<1> QED BY <1>1, <1>5, <1>7, <1>8, <1>9, <1>10 DEF Closed, Alone

\* The records of a chunk leave the other streams alone; the first chunk, if
\* there is anything in it, is the standard input, which has ended then.
LEMMA ChunkReceived ==
  ASSUME NEW r \in Requests, NEW chunk \in Chunks(r), StrLen(chunk) \in Short,
         NEW id \in Nat, NEW s, NEW content, NEW ends, Told(s, id, content, ends)
  PROVE  \E c, e :
           /\ Told(s \o BodyItems(chunk, id), id, c, e)
           /\ c[FCGI_BEGIN_REQUEST] = content[FCGI_BEGIN_REQUEST]
           /\ c[FCGI_PARAMS] = content[FCGI_PARAMS] /\ e[FCGI_PARAMS] = ends[FCGI_PARAMS]
           /\ content[FCGI_STDIN] = <<>> /\ ends[FCGI_STDIN] = 0 /\ StrLen(chunk) # 0 =>
                c[FCGI_STDIN] = Data(chunk) /\ e[FCGI_STDIN] = 1
<1>1. PICK b, p, i, t : /\ b = FCGI_BEGIN_REQUEST /\ p = FCGI_PARAMS /\ i = FCGI_STDIN
                        /\ t = Data(chunk)
  OBVIOUS
<1>2. b \in Streams /\ p \in Streams /\ i \in Streams /\ b # i /\ p # i
  BY <1>1, StreamTypes
<1>3. s \in Seq(Items) /\ content \in StreamContents /\ ends \in StreamEnds
  BY DEF Told
<1>4. t \in Seq(Contents) /\ Bytes(t) = StrLen(chunk)
  BY <1>1, DataItem
<1>5. s \o BodyItems(chunk, id) = Closed((s \o Alone(createHeader(i, id, Bytes(t)))) \o t, i, id)
  BY <1>1, <1>3, <1>4, ChunkItems
<1>6. CASE StrLen(chunk) = 0
  <2>1. t = <<>>
    BY <1>1, <1>6 DEF Data
  <2>2. (s \o Alone(createHeader(i, id, 0))) \o t = Closed(s, i, id)
    <3>1. PICK u : u = s \o Alone(createHeader(i, id, 0))
      OBVIOUS
    <3>2. u \in Seq(Items)
      <4>1. Told(Closed(s, i, id), id, content, Ended(ends, i))
        BY <1>2, ToldIsBetween, TellEnd
      <4> QED BY <3>1, <4>1 DEF Told, Closed
    <3>3. u \o <<>> = u
      BY <3>2
    <3> QED BY <2>1, <3>1, <3>3 DEF Closed
  <2>3. PICK e1, e2 : e1 = Ended(ends, i) /\ e2 = Ended(e1, i)
    OBVIOUS
  <2>4. Told(Closed(s, i, id), id, content, e1)
    BY <1>2, <2>3, ToldIsBetween, TellEnd
  <2>5. Told(Closed(Closed(s, i, id), i, id), id, content, e2)
    BY <1>2, <2>3, <2>4, ToldIsBetween, TellEnd
  <2>6. s \o BodyItems(chunk, id) = Closed(Closed(s, i, id), i, id)
    BY <1>4, <1>5, <1>6, <2>2
  <2>7. e2[p] = ends[p]
    <3>1. e1 \in StreamEnds /\ e1[p] = ends[p]
      BY <1>2, <1>3, <2>3, EndedOf
    <3> QED BY <1>2, <2>3, <3>1, EndedOf
  <2>8. Told(s \o BodyItems(chunk, id), id, content, e2)
    BY <2>5, <2>6
  <2> QED BY <1>1, <1>6, <2>7, <2>8
<1>7. CASE StrLen(chunk) # 0
  <2>1. PICK c, e : c = Taken(content, ends, i, t) /\ e = Ended(ends, i)
    OBVIOUS
  <2>2. Told(Sent(s, i, id, t), id, c, ends)
    <3>1. Bytes(t) \in Short /\ Bytes(t) # 0
      BY <1>4, <1>7
    <3> QED BY <1>2, <1>4, <2>1, <3>1, ToldIsBetween, TellRecord
  <2>3. Told(Closed(Sent(s, i, id, t), i, id), id, c, e)
    BY <1>2, <2>1, <2>2, ToldIsBetween, TellEnd
  <2>4. Told(s \o BodyItems(chunk, id), id, c, e)
    BY <1>5, <2>3 DEF Sent
  <2>5. c[b] = content[b] /\ c[p] = content[p]
    BY <1>2, <1>3, <2>1, OthersTaken
  <2>6. e[p] = ends[p] /\ e[i] = ends[i] + 1
    BY <1>2, <1>3, <2>1, EndedOf
  <2>7. ASSUME content[i] = <<>>, ends[i] = 0
        PROVE  c[i] = t /\ e[i] = 1
    <3>1. c[i] = t
      BY <1>2, <1>3, <1>4, <2>1, <2>7, FirstTaken
    <3>2. e[i] = 1
      BY <2>6, <2>7
    <3> QED BY <3>1, <3>2
  <2> QED BY <1>1, <2>4, <2>5, <2>6, <2>7
<1> QED BY <1>6, <1>7

-----------------------------------------------------------------------------
(***************************************************************************)
(* The reachable states: what is sent are items, and the parameters are    *)
(* those of the client's request.                                          *)
(***************************************************************************)

\* The bytes that the constructor allocates.
Capacity(r) ==
  IF r.method = "POST" /\ r.length # NULL THEN BUF_SIZE + r.length ELSE BUF_SIZE

Shape ==
  /\ pc \in {"new", "constructed", "header", "complete"}
  /\ request.client \in Requests /\ request.id \in Nat
  /\ streamed \in 0 .. Len(request.client.chunks)
  /\ written \in Nat /\ capacity \in Nat
  /\ sent \in Seq(Items)
  /\ pc # "new" => params = PostParams(request.client) /\ capacity = Capacity(request.client)
  /\ pc \in {"new", "constructed"} => sent = <<>> /\ streamed = 0 /\ written = 0
  /\ pc = "complete" => streamed = Len(request.client.chunks)

\* The constructor allocates a number of bytes.
LEMMA Capacities ==
  ASSUME NEW r \in Requests
  PROVE  Capacity(r) \in Nat
<1>1. r.length = NULL \/ r.length \in Nat
  BY EncoderAssumption
<1> QED BY <1>1 DEF Capacity, BUF_SIZE

\* createBeginRequest: the records of writeRequestHeader as they are written.
HeaderItems(map, id) ==
  <<createHeader(FCGI_BEGIN_REQUEST, id, 8), BeginBody>>
    \o <<createHeader(FCGI_PARAMS, id, Bytes(Content(map)))>>
    \o Content(map) \o <<createHeader(FCGI_PARAMS, id, 0)>>

\* They are those that the application parses, 32 bytes more than the content
\* of the parameters.
LEMMA HeaderSent ==
  ASSUME NEW r \in Requests, NEW id \in Nat
  PROVE  /\ HeaderItems(PostParams(r), id) = RequestItems(r, id)
         /\ HeaderItems(PostParams(r), id) \in Seq(Items)
         /\ Bytes(HeaderItems(PostParams(r), id)) = Bytes(Content(PostParams(r))) + 32
         /\ Bytes(<<createHeader(FCGI_BEGIN_REQUEST, id, 8), BeginBody>>) = 16
<1>1. PICK g, h, z, begin, t :
        /\ g = createHeader(FCGI_BEGIN_REQUEST, id, 8)
        /\ h = createHeader(FCGI_PARAMS, id, Bytes(Content(PostParams(r))))
        /\ z = createHeader(FCGI_PARAMS, id, 0)
        /\ begin = BeginBody /\ t = Content(PostParams(r))
  OBVIOUS
<1>2. t \in Seq(Contents) /\ Bytes(t) \in Nat
  BY <1>1, ContentOfRequest
<1>3. /\ g \in Items /\ h \in Items /\ z \in Items
      /\ Size(g) = 8 /\ Size(h) = 8 /\ Size(z) = 8
  BY <1>1, <1>2, HeaderItem, StreamTypes
<1>4. begin \in Items /\ Size(begin) = 8
  BY <1>1 DEF Contents, Items, Size, BeginBody
<1>5. t \in Seq(Items)
  <2>1. Seq(Contents) \subseteq Seq(Items)
    BY DEF Items
  <2> QED BY <1>2, <2>1
<1>6. PICK a, b, c, d : a = <<g>> /\ b = <<begin>> /\ c = <<h>> /\ d = <<z>>
  OBVIOUS
<1>7. /\ a \in Seq(Items) /\ b \in Seq(Items) /\ c \in Seq(Items) /\ d \in Seq(Items)
      /\ Bytes(a) = 8 /\ Bytes(b) = 8 /\ Bytes(c) = 8 /\ Bytes(d) = 8
  <2>1. a \in Seq(Items) /\ b \in Seq(Items) /\ c \in Seq(Items) /\ d \in Seq(Items)
    BY <1>3, <1>4, <1>6
  <2> QED BY <1>3, <1>4, <1>6, <2>1, BytesOne
<1>8. <<g, begin>> = a \o b
  <2>1. a \o <<begin>> = Append(a, begin)
    BY <1>6
  <2>2. <<g, begin>> = Append(<<g>>, begin)
    OBVIOUS
  <2> QED BY <1>6, <2>1, <2>2
<1>9. HeaderItems(PostParams(r), id) = (((a \o b) \o c) \o t) \o d
  BY <1>1, <1>6, <1>8 DEF HeaderItems
<1>10. RequestItems(r, id) = (((a \o b) \o c) \o t) \o d
  <2>1. Bytes(<<BeginBody>>) = 8
    BY BodyOfBegin
  <2>2. <<>> \o a = a
    BY <1>7
  <2>3. Sent(<<>>, FCGI_BEGIN_REQUEST, id, <<BeginBody>>) = a \o b
    <3>1. Sent(<<>>, FCGI_BEGIN_REQUEST, id, <<BeginBody>>) = (<<>> \o Alone(g)) \o <<BeginBody>>
      BY <1>1, <2>1 DEF Sent
    <3> QED BY <1>1, <1>6, <2>2, <3>1 DEF Alone
  <2> QED BY <1>1, <1>6, <2>3 DEF RequestItems, Sent, Closed, Alone
<1>11. a \o b \in Seq(Items) /\ (a \o b) \o c \in Seq(Items) /\ ((a \o b) \o c) \o t \in Seq(Items)
  BY <1>5, <1>7
<1>12. (((a \o b) \o c) \o t) \o d \in Seq(Items)
  BY <1>7, <1>11
<1>13. /\ Bytes(a \o b) = 16 /\ Bytes((a \o b) \o c) = 24
       /\ Bytes(((a \o b) \o c) \o t) = 24 + Bytes(t)
       /\ Bytes((((a \o b) \o c) \o t) \o d) = (24 + Bytes(t)) + 8
  <2>1. Bytes(a \o b) = 8 + 8
    BY <1>7, BytesCount
  <2>2. Bytes((a \o b) \o c) = Bytes(a \o b) + 8
    BY <1>7, <1>11, BytesCount
  <2>3. Bytes(((a \o b) \o c) \o t) = Bytes((a \o b) \o c) + Bytes(t)
    BY <1>5, <1>11, BytesCount
  <2>4. Bytes((((a \o b) \o c) \o t) \o d) = Bytes(((a \o b) \o c) \o t) + 8
    BY <1>7, <1>11, BytesCount
  <2> QED BY <2>1, <2>2, <2>3, <2>4
<1>14. (24 + Bytes(t)) + 8 = Bytes(t) + 32
  BY <1>2
<1> QED BY <1>1, <1>8, <1>9, <1>10, <1>12, <1>13, <1>14

\* Write: a buffer is sent, and what was written is the largest of three.
LEMMA Wrote ==
  ASSUME sent \in Seq(Items), written \in Nat,
         NEW items \in Seq(Items), NEW furthest \in Nat, Write(items, furthest)
  PROVE  /\ sent' = sent \o items /\ sent' \in Seq(Items)
         /\ written' \in Nat
         /\ written' = written \/ written' = furthest \/ written' = Bytes(items)
<1>1. sent' = sent \o items /\ sent \o items \in Seq(Items)
  BY DEF Write
<1>2. Bytes(items) \in Nat
  BY BytesCount
<1> DEFINE S == {written, furthest, Bytes(items)}
<1>3. IsFiniteSet(S)
  <2>1. IsFiniteSet({written, furthest, Bytes(items), written, written})
    BY FewAreFinite
  <2>2. {written, furthest, Bytes(items), written, written} = S
    OBVIOUS
  <2> QED BY <2>1, <2>2
<1>4. S \subseteq Nat /\ S # {}
  BY <1>2
<1>5. Max(S) \in S
  <2> HIDE DEF S
  <2> QED BY <1>3, <1>4, LargestNumber
<1>6. written' = Max(S)
  BY DEF Write
<1> QED BY <1>1, <1>2, <1>5, <1>6

\* emptyParam: what writeRequestBodyComplete sends.
EndItems(r, id) ==
  IF r.method = "POST" THEN <<>> ELSE <<createHeader(FCGI_STDIN, id, 0)>>

\* It is nothing, or one header.
LEMMA EndSent ==
  ASSUME NEW r \in Requests, NEW id \in Nat
  PROVE  EndItems(r, id) \in Seq(Items) /\ Bytes(EndItems(r, id)) \in {0, 8}
<1>1. PICK z : z = createHeader(FCGI_STDIN, id, 0)
  OBVIOUS
<1>2. z \in Items /\ Size(z) = 8
  BY <1>1, HeaderItem, StreamTypes
<1>3. <<z>> \in Seq(Items) /\ Bytes(<<z>>) = 8
  BY <1>2, BytesOne
<1> QED BY <1>1, <1>3, BytesEmpty DEF EndItems

\* writeRequestHeader.
LEMMA HeaderStep ==
  ASSUME Shape, WriteHeader
  PROVE  /\ sent' = HeaderItems(PostParams(request.client), request.id)
         /\ sent' \in Seq(Items) /\ written' \in Nat
         /\ \/ written' = 0 \/ written' = 16 + LongestPair(PostParams(request.client))
            \/ written' = Bytes(Content(PostParams(request.client))) + 32
<1>1. PICK r, id : r = request.client /\ id = request.id
  OBVIOUS
<1>2. /\ r \in Requests /\ id \in Nat /\ params = PostParams(r)
      /\ sent = <<>> /\ written = 0 /\ sent \in Seq(Items)
  BY <1>1 DEF Shape, WriteHeader
<1>3. PICK items, furthest : /\ items = HeaderItems(PostParams(r), id)
                             /\ furthest = 16 + LongestPair(PostParams(r))
  OBVIOUS
<1>4. /\ items \in Seq(Items) /\ Bytes(items) = Bytes(Content(PostParams(r))) + 32
      /\ Bytes(<<createHeader(FCGI_BEGIN_REQUEST, id, 8), BeginBody>>) = 16
  BY <1>2, <1>3, HeaderSent
<1>5. furthest \in Nat
  <2>1. LongestPair(PostParams(r)) \in Nat
    BY <1>2, ContentOfRequest
  <2> QED BY <1>3, <2>1
<1>6. Write(items, furthest)
  <2>1. Write(HeaderItems(PostParams(r), id),
              Bytes(<<createHeader(FCGI_BEGIN_REQUEST, id, 8), BeginBody>>)
                + LongestPair(PostParams(r)))
    BY <1>1, <1>2, Zenon DEF WriteHeader, HeaderItems
  <2> QED BY <1>3, <1>4, <2>1
<1>7. /\ sent' = sent \o items /\ sent' \in Seq(Items) /\ written' \in Nat
      /\ written' = written \/ written' = furthest \/ written' = Bytes(items)
  BY <1>2, <1>4, <1>5, <1>6, Wrote
<1>8. <<>> \o items = items
  BY <1>4
<1> QED BY <1>1, <1>2, <1>3, <1>4, <1>7, <1>8

\* writeRequestBody.
LEMMA BodyStep ==
  ASSUME Shape, WriteBody,
         NEW chunk, chunk = <<request.client.chunks[streamed + 1]>>
  PROVE  /\ chunk \in Chunks(request.client) /\ StrLen(chunk) \in Nat
         /\ sent' = sent \o BodyItems(chunk, request.id)
         /\ sent' \in Seq(Items) /\ written' \in Nat
         /\ written' = written \/ written' = 0 \/ written' = StrLen(chunk) + 16
<1>1. PICK r, id : r = request.client /\ id = request.id
  OBVIOUS
<1>2. /\ r \in Requests /\ id \in Nat /\ sent \in Seq(Items) /\ written \in Nat
      /\ streamed \in 0 .. Len(r.chunks) /\ streamed < Len(r.chunks)
  BY <1>1 DEF Shape, WriteBody
<1>3. chunk \in Chunks(r)
  <2>1. r.chunks \in Seq(STRING)
    BY <1>2, EncoderAssumption
  <2>2. streamed + 1 \in DOMAIN r.chunks
    BY <1>2, <2>1
  <2> QED BY <1>1, <2>2 DEF Chunks
<1>4. StrLen(chunk) \in Nat
  BY <1>2, <1>3, StringLengths
<1>5. PICK items : items = BodyItems(chunk, id)
  OBVIOUS
<1>6. items \in Seq(Items) /\ Bytes(items) = StrLen(chunk) + 16
  BY <1>2, <1>3, <1>5, ChunkItems
<1>7. Write(items, 0)
  BY <1>1, <1>5, Zenon DEF WriteBody, BodyItems
<1>8. /\ sent' = sent \o items /\ sent' \in Seq(Items) /\ written' \in Nat
      /\ written' = written \/ written' = 0 \/ written' = Bytes(items)
  BY <1>2, <1>6, <1>7, Wrote
<1> QED BY <1>1, <1>3, <1>4, <1>5, <1>6, <1>8

\* writeRequestBodyComplete.
LEMMA EndStep ==
  ASSUME Shape, WriteBodyComplete
  PROVE  /\ sent' = sent \o EndItems(request.client, request.id)
         /\ sent' \in Seq(Items) /\ written' \in Nat
         /\ written' = written \/ written' = 0 \/ written' = 8
<1>1. PICK r, id : r = request.client /\ id = request.id
  OBVIOUS
<1>2. r \in Requests /\ id \in Nat /\ sent \in Seq(Items) /\ written \in Nat
  BY <1>1 DEF Shape
<1>3. PICK items : items = EndItems(r, id)
  OBVIOUS
<1>4. items \in Seq(Items) /\ Bytes(items) \in {0, 8}
  BY <1>2, <1>3, EndSent
<1>5. Write(items, 0)
  BY <1>1, <1>3, Zenon DEF WriteBodyComplete, EndItems
<1>6. /\ sent' = sent \o items /\ sent' \in Seq(Items) /\ written' \in Nat
      /\ written' = written \/ written' = 0 \/ written' = Bytes(items)
  BY <1>2, <1>4, <1>5, Wrote
<1> QED BY <1>1, <1>3, <1>4, <1>6

\* Before the constructor.
LEMMA ShapeInit ==
  ASSUME Init
  PROVE  Shape
<1>1. request.client \in Requests /\ request.id \in RequestIds
  BY DEF Init
<1>2. RequestIds \subseteq Nat /\ request.client.chunks \in Seq(STRING)
  BY <1>1, EncoderAssumption
<1>3. Len(request.client.chunks) \in Nat
  BY <1>2
<1>4. sent \in Seq(Items)
  BY DEF Init
<1>5. capacity = 0 /\ written = 0 /\ sent = <<>> /\ streamed = 0 /\ pc = "new"
  BY DEF Init
<1>6. request.id \in Nat
  BY <1>1, <1>2
<1>7. streamed \in 0 .. Len(request.client.chunks)
  BY <1>3, <1>5
<1> QED BY <1>1, <1>4, <1>5, <1>6, <1>7 DEF Shape

\* Every operation keeps the shape.
LEMMA ShapeStep ==
  ASSUME Shape, [Next]_vars
  PROVE  Shape'
<1>1. CASE Construct
  <2>1. Capacity(request.client) \in Nat
    BY Capacities DEF Shape
  <2>2. capacity' = Capacity(request.client)
    BY <1>1 DEF Construct, Capacity
  <2> QED BY <1>1, <2>1, <2>2 DEF Construct, Shape
<1>2. CASE WriteHeader
  <2>1. sent' \in Seq(Items) /\ written' \in Nat
    BY <1>2, HeaderStep
  <2> QED BY <1>2, <2>1 DEF WriteHeader, Shape
<1>3. CASE WriteBody
  <2>1. PICK chunk : chunk = <<request.client.chunks[streamed + 1]>>
    OBVIOUS
  <2>2. sent' \in Seq(Items) /\ written' \in Nat
    BY <1>3, <2>1, BodyStep
  <2>3. streamed' \in 0 .. Len(request.client.chunks)
    <3>1. request.client.chunks \in Seq(STRING)
      BY EncoderAssumption DEF Shape
    <3> QED BY <1>3, <3>1 DEF WriteBody, Shape
  <2> QED BY <1>3, <2>2, <2>3 DEF WriteBody, Shape
<1>4. CASE WriteBodyComplete
  <2>1. sent' \in Seq(Items) /\ written' \in Nat
    BY <1>4, EndStep
  <2> QED BY <1>4, <2>1 DEF WriteBodyComplete, Shape
<1>5. CASE UNCHANGED vars
  BY <1>5 DEF vars, Shape
<1> QED BY <1>1, <1>2, <1>3, <1>4, <1>5 DEF Next

\* Items that are sent are made of bytes.
LEMMA ShapeIsType ==
  ASSUME Shape
  PROVE  TypeOK
<1>1. ASSUME NEW item \in Items
      PROVE  /\ item.kind = "byte" => item.byte \in Uchar
             /\ item.kind = "header" =>
                  {item.idB1, item.idB0, item.lenB1, item.lenB0} \subseteq Uchar
  BY DEF Items, Headers, Contents, ByteItems, DataItems, BeginBody
<1>2. \A item \in ToSet(sent) : item \in Items
  BY DEF Shape, ToSet
<1> QED BY <1>1, <1>2 DEF Shape, TypeOK

\* The shapes: what is written to the connection are bytes, under every number
\* that a request may have and with strings of every length.
THEOREM EncoderTypes == Spec => []TypeOK
<1>1. Init => Shape
  BY ShapeInit
<1>2. Shape /\ [Next]_vars => Shape'
  BY ShapeStep
<1>3. Shape => TypeOK
  BY ShapeIsType
<1> QED BY <1>1, <1>2, <1>3, PTL DEF Spec

-----------------------------------------------------------------------------
(***************************************************************************)
(* The buffer.                                                             *)
(***************************************************************************)

\* What the constructor allocates has room for the parameters, with three
\* headers and the body of FCGI_BEGIN_REQUEST, and for each chunk, with two
\* headers.
FitBuffer ==
  \A r \in Requests :
    /\ Bytes(Content(PostParams(r))) + 32 <= Capacity(r)
    /\ \A chunk \in Chunks(r) : StrLen(chunk) + 16 <= Capacity(r)

\* The first loop of createBeginRequest writes each pair over the one before,
\* so that it writes no further than the second.
LEMMA FitStep ==
  ASSUME FitBuffer, Shape, WithinBuffer, [Next]_vars
  PROVE  WithinBuffer'
<1>1. PICK r : r = request.client
  OBVIOUS
<1>2. r \in Requests /\ Capacity(r) \in Nat /\ written \in Nat
  BY <1>1, Capacities DEF Shape
<1>3. CASE Construct
  <2>1. written = 0 /\ written' = written
    BY <1>3 DEF Construct, Shape
  <2>2. capacity' = Capacity(r)
    BY <1>1, <1>3 DEF Construct, Capacity
  <2> QED BY <1>2, <2>1, <2>2 DEF WithinBuffer
<1>4. PICK content, longest :
        content = Bytes(Content(PostParams(r))) /\ longest = LongestPair(PostParams(r))
  OBVIOUS
<1>5. /\ content \in Nat /\ longest \in Nat /\ longest <= content
      /\ content + 32 <= Capacity(r)
  BY <1>2, <1>4, ContentOfRequest DEF FitBuffer
<1>6. CASE WriteHeader
  <2>1. capacity' = Capacity(r)
    BY <1>1, <1>6 DEF WriteHeader, Shape
  <2>2. written' = 0 \/ written' = 16 + longest \/ written' = content + 32
    BY <1>1, <1>4, <1>6, HeaderStep
  <2> QED BY <1>2, <1>5, <2>1, <2>2 DEF WithinBuffer
<1>7. CASE WriteBody
  <2>1. PICK chunk : chunk = <<request.client.chunks[streamed + 1]>>
    OBVIOUS
  <2>2. /\ chunk \in Chunks(r) /\ StrLen(chunk) \in Nat
        /\ written' = written \/ written' = 0 \/ written' = StrLen(chunk) + 16
    BY <1>1, <1>7, <2>1, BodyStep
  <2>3. StrLen(chunk) + 16 <= Capacity(r)
    BY <1>2, <2>2 DEF FitBuffer
  <2>4. capacity = Capacity(r) /\ capacity' = Capacity(r)
    BY <1>1, <1>7 DEF WriteBody, Shape
  <2> QED BY <1>2, <2>2, <2>3, <2>4 DEF WithinBuffer
<1>8. CASE WriteBodyComplete
  <2>1. capacity = Capacity(r) /\ capacity' = Capacity(r)
    BY <1>1, <1>8 DEF WriteBodyComplete, Shape
  <2>2. written' = written \/ written' = 0 \/ written' = 8
    BY <1>8, EndStep
  <2> QED BY <1>2, <1>5, <2>1, <2>2 DEF WithinBuffer
<1>9. CASE UNCHANGED vars
  BY <1>9 DEF vars, WithinBuffer
<1> QED BY <1>3, <1>6, <1>7, <1>8, <1>9 DEF Next

\* FCGIClientRequest::FCGIClientRequest, createBeginRequest, postBodyChunk and
\* emptyParam: nothing is ever written beyond the buffer, if it has room for
\* the records of the parameters and for those of each chunk.
THEOREM FitsBuffer ==
  ASSUME FitBuffer
  PROVE  Spec => []WithinBuffer
<1>1. Init => Shape /\ WithinBuffer
  <2>1. Init => Shape
    BY ShapeInit
  <2>2. Init => WithinBuffer
    BY DEF Init, WithinBuffer
  <2> QED BY <2>1, <2>2
<1>2. Shape /\ WithinBuffer /\ [Next]_vars => (Shape /\ WithinBuffer)'
  BY ShapeStep, FitStep
<1> QED BY <1>1, <1>2, PTL DEF Spec

-----------------------------------------------------------------------------
(***************************************************************************)
(* The application.                                                        *)
(***************************************************************************)

\* The two bytes of a header have room for the length of the parameters and
\* for that of each chunk.
FitRecords ==
  \A r \in Requests :
    /\ Bytes(Content(PostParams(r))) \in Short
    /\ \A chunk \in Chunks(r) : StrLen(chunk) \in Short

\* The body of a POST comes in one chunk, and no other request has one.
OneChunkBodies ==
  \A r \in Requests :
    \/ r.method = "POST" /\ Len(r.chunks) = 1 /\ StrLen(<<r.chunks[1]>>) # 0
    \/ r.method # "POST" /\ Len(r.chunks) = 0

\* The application's standard input.
Stdin(content, ends) ==
  /\ streamed = 0 /\ pc = "header" => content[FCGI_STDIN] = <<>> /\ ends[FCGI_STDIN] = 0
  /\ streamed = 0 /\ pc = "complete" => content[FCGI_STDIN] = <<>> /\ ends[FCGI_STDIN] = 1
  /\ streamed = 1 => /\ content[FCGI_STDIN] = Data(<<request.client.chunks[1]>>)
                     /\ ends[FCGI_STDIN] = 1

\* The application has the parameters and, of a body in one chunk, what was
\* sent so far.
Arrived ==
  pc \in {"header", "complete"} =>
    \E content, ends :
      /\ Told(sent, request.id, content, ends)
      /\ content[FCGI_BEGIN_REQUEST] = <<BeginBody>>
      /\ content[FCGI_PARAMS] = Content(PostParams(request.client))
      /\ ends[FCGI_PARAMS] = 1
      /\ OneChunkBodies => Stdin(content, ends)

\* writeRequestHeader: the parameters arrive.
LEMMA HeaderArrives ==
  ASSUME FitRecords, Shape, WriteHeader
  PROVE  Arrived'
<1>1. PICK r, id : r = request.client /\ id = request.id
  OBVIOUS
<1>2. /\ r \in Requests /\ id \in Nat /\ request' = request
      /\ streamed' = 0 /\ pc' = "header"
  BY <1>1 DEF Shape, WriteHeader
<1>3. sent' = RequestItems(r, id)
  BY <1>1, <1>2, HeaderStep, HeaderSent
<1>4. PICK content, ends :
        /\ Told(RequestItems(r, id), id, content, ends)
        /\ content[FCGI_BEGIN_REQUEST] = <<BeginBody>>
        /\ content[FCGI_PARAMS] = Content(PostParams(r)) /\ ends[FCGI_PARAMS] = 1
        /\ content[FCGI_STDIN] = <<>> /\ ends[FCGI_STDIN] = 0
  <2>1. Bytes(Content(PostParams(r))) \in Short
    BY <1>2 DEF FitRecords
  <2> QED BY <1>2, <2>1, RequestReceived
<1>5. Told(sent', request'.id, content, ends)
  BY <1>1, <1>2, <1>3, <1>4
<1>6. Stdin(content, ends)'
  BY <1>2, <1>4 DEF Stdin
<1> QED BY <1>1, <1>2, <1>4, <1>5, <1>6 DEF Arrived

\* writeRequestBody: a chunk arrives.
LEMMA BodyArrivesToo ==
  ASSUME FitRecords, Shape, Arrived, WriteBody
  PROVE  Arrived'
<1>1. PICK r, id, chunk : /\ r = request.client /\ id = request.id
                          /\ chunk = <<request.client.chunks[streamed + 1]>>
  OBVIOUS
<1>2. /\ r \in Requests /\ id \in Nat /\ request' = request
      /\ streamed' = streamed + 1 /\ pc = "header" /\ pc' = "header"
      /\ streamed \in 0 .. Len(r.chunks) /\ streamed < Len(r.chunks)
  BY <1>1 DEF Shape, WriteBody
<1>3. /\ chunk \in Chunks(r) /\ sent' = sent \o BodyItems(chunk, id)
  BY <1>1, BodyStep
<1>4. PICK content, ends :
        /\ Told(sent, id, content, ends)
        /\ content[FCGI_BEGIN_REQUEST] = <<BeginBody>>
        /\ content[FCGI_PARAMS] = Content(PostParams(r)) /\ ends[FCGI_PARAMS] = 1
        /\ OneChunkBodies => Stdin(content, ends)
  BY <1>1, <1>2 DEF Arrived
<1>5. PICK c, e :
        /\ Told(sent \o BodyItems(chunk, id), id, c, e)
        /\ c[FCGI_BEGIN_REQUEST] = content[FCGI_BEGIN_REQUEST]
        /\ c[FCGI_PARAMS] = content[FCGI_PARAMS] /\ e[FCGI_PARAMS] = ends[FCGI_PARAMS]
        /\ content[FCGI_STDIN] = <<>> /\ ends[FCGI_STDIN] = 0 /\ StrLen(chunk) # 0 =>
             c[FCGI_STDIN] = Data(chunk) /\ e[FCGI_STDIN] = 1
  <2>1. StrLen(chunk) \in Short
    BY <1>2, <1>3 DEF FitRecords
  <2>2. Told(sent, id, content, ends)
    BY <1>4
  <2> QED BY <1>2, <1>3, <2>1, <2>2, ChunkReceived
<1>6. Told(sent', request'.id, c, e)
  BY <1>1, <1>2, <1>3, <1>5
<1>7. ASSUME OneChunkBodies
      PROVE  Stdin(c, e)'
  <2>1. Len(r.chunks) \in {0, 1} /\ (Len(r.chunks) = 1 => StrLen(<<r.chunks[1]>>) # 0)
    BY <1>2, <1>7 DEF OneChunkBodies
  <2>2. streamed = 0 /\ streamed' = 1 /\ Len(r.chunks) = 1
    <3>1. PICK n, k : n = Len(r.chunks) /\ k = streamed
      OBVIOUS
    <3>2. n \in {0, 1} /\ k \in 0 .. n /\ k < n
      BY <1>2, <2>1, <3>1
    <3>3. n = 1 /\ k = 0
      BY <3>2
    <3>4. streamed' = k + 1
      BY <1>2, <3>1
    <3> QED BY <3>1, <3>3, <3>4
  <2>3. chunk = <<r.chunks[1]>> /\ StrLen(chunk) # 0
    BY <1>1, <2>1, <2>2
  <2>4. content[FCGI_STDIN] = <<>> /\ ends[FCGI_STDIN] = 0
    BY <1>2, <1>4, <1>7, <2>2 DEF Stdin
  <2>5. c[FCGI_STDIN] = Data(<<r.chunks[1]>>) /\ e[FCGI_STDIN] = 1
    BY <1>5, <2>3, <2>4
  <2> QED BY <1>1, <1>2, <2>2, <2>5 DEF Stdin
<1> QED BY <1>1, <1>2, <1>4, <1>5, <1>6, <1>7 DEF Arrived

\* writeRequestBodyComplete: the input ends, and for POST has ended before.
LEMMA EndArrives ==
  ASSUME Shape, Arrived, WriteBodyComplete
  PROVE  Arrived'
<1>1. PICK r, id : r = request.client /\ id = request.id
  OBVIOUS
<1>2. /\ r \in Requests /\ id \in Nat /\ request' = request
      /\ streamed' = streamed /\ pc = "header" /\ pc' = "complete"
      /\ streamed = Len(r.chunks) /\ sent \in Seq(Items)
  BY <1>1 DEF Shape, WriteBodyComplete
<1>3. sent' = sent \o EndItems(r, id)
  BY <1>1, EndStep
<1>4. PICK content, ends :
        /\ Told(sent, id, content, ends)
        /\ content[FCGI_BEGIN_REQUEST] = <<BeginBody>>
        /\ content[FCGI_PARAMS] = Content(PostParams(r)) /\ ends[FCGI_PARAMS] = 1
        /\ OneChunkBodies => Stdin(content, ends)
  BY <1>1, <1>2 DEF Arrived
<1>5. CASE r.method = "POST"
  <2>1. sent' = sent
    <3>1. sent \o <<>> = sent
      BY <1>2
    <3> QED BY <1>3, <1>5, <3>1 DEF EndItems
  <2>2. ASSUME OneChunkBodies
        PROVE  Stdin(content, ends)'
    <3>1. streamed = 1
      BY <1>2, <1>5, <2>2 DEF OneChunkBodies
    <3> QED BY <1>2, <1>4, <2>2, <3>1 DEF Stdin
  <2>3. Told(sent', request'.id, content, ends)
    BY <1>1, <1>2, <1>4, <2>1
  <2> QED BY <1>1, <1>2, <1>4, <2>2, <2>3 DEF Arrived
<1>6. CASE r.method # "POST"
  <2>1. PICK i, p, e : i = FCGI_STDIN /\ p = FCGI_PARAMS /\ e = Ended(ends, i)
    OBVIOUS
  <2>2. i \in Streams /\ p \in Streams /\ p # i
    BY <2>1, StreamTypes
  <2>3. Told(Closed(sent, i, id), id, content, e)
    BY <1>2, <1>4, <2>1, <2>2, ToldIsBetween, TellEnd
  <2>4. sent' = Closed(sent, i, id)
    BY <1>3, <1>6, <2>1 DEF EndItems, Closed, Alone
  <2>5. e[p] = ends[p] /\ e[i] = ends[i] + 1
    <3>1. ends \in StreamEnds
      BY <1>4 DEF Told
    <3> QED BY <2>1, <2>2, <3>1, EndedOf
  <2>6. ASSUME OneChunkBodies
        PROVE  Stdin(content, e)'
    <3>1. streamed = 0
      BY <1>2, <1>6, <2>6 DEF OneChunkBodies
    <3>2. content[i] = <<>> /\ ends[i] = 0
      BY <1>2, <1>4, <2>1, <2>6, <3>1 DEF Stdin
    <3>3. e[i] = 1
      BY <2>5, <3>2
    <3> QED BY <1>2, <2>1, <3>1, <3>2, <3>3 DEF Stdin
  <2>7. Told(sent', request'.id, content, e)
    BY <1>1, <1>2, <2>3, <2>4
  <2> QED BY <1>1, <1>2, <1>4, <2>1, <2>5, <2>6, <2>7 DEF Arrived
<1> QED BY <1>5, <1>6

\* Every operation keeps what has arrived.
LEMMA ArrivedStep ==
  ASSUME FitRecords, Shape, Arrived, [Next]_vars
  PROVE  Arrived'
<1>1. CASE Construct
  BY <1>1 DEF Construct, Arrived
<1>2. CASE UNCHANGED vars
  BY <1>2 DEF vars, Arrived, Stdin
<1> QED BY <1>1, <1>2, HeaderArrives, BodyArrivesToo, EndArrives DEF Next

\* The application decodes the pairs of the parameters.
LEMMA ArrivedIsRequest ==
  ASSUME FitRecords, Shape, Arrived
  PROVE  RequestArrives
<1> SUFFICES ASSUME pc \in {"header", "complete"}
             PROVE  /\ ~Peer.garbled
                    /\ Peer.ids = {request.id % 65536}
                    /\ Peer.content[FCGI_BEGIN_REQUEST] = <<BeginBody>>
                    /\ Peer.ends[FCGI_PARAMS] = 1
                    /\ ~PeerParams.garbled
                    /\ PeerParams.pair = NoPair
                    /\ PeerParams.map = params
  BY DEF RequestArrives
<1>1. PICK r, id : r = request.client /\ id = request.id
  OBVIOUS
<1>2. r \in Requests /\ id \in Nat /\ params = PostParams(r)
  BY <1>1 DEF Shape
<1>3. PICK content, ends :
        /\ Told(sent, id, content, ends)
        /\ content[FCGI_BEGIN_REQUEST] = <<BeginBody>>
        /\ content[FCGI_PARAMS] = Content(PostParams(r)) /\ ends[FCGI_PARAMS] = 1
  BY <1>1 DEF Arrived
<1>4. /\ Peer.garbled = FALSE /\ Peer.ids = {Number(id)}
      /\ Peer.content = content /\ Peer.ends = ends
  BY <1>3, ToldPeer DEF Peer
<1>5. Peer.ids = {request.id % 65536}
  BY <1>1, <1>4 DEF Number
<1>6. PeerParams = Reading(PostParams(r), <<>>, <<>>, NULL)
  <2>1. Bytes(Content(PostParams(r))) \in Representable
    <3>1. Bytes(Content(PostParams(r))) \in Short
      BY <1>2 DEF FitRecords
    <3>2. \A n \in Short : n \in Representable
      BY SMT DEF Short, Representable
    <3> QED BY <3>1, <3>2
  <2>2. ParsePairs(Content(PostParams(r))) = Reading(PostParams(r), <<>>, <<>>, NULL)
    BY <1>2, <2>1, ContentDecoded
  <2> QED BY <1>3, <1>4, <2>2 DEF PeerParams
<1>7. /\ PeerParams.garbled = FALSE /\ PeerParams.map = PostParams(r)
      /\ PeerParams.pair = NoPair
  <2>1. PICK map, g : map = PostParams(r) /\ g = FALSE
    OBVIOUS
  <2>2. PeerParams = [map |-> map, garbled |-> g, pair |-> NoPair]
    BY <1>6, <2>1 DEF Reading, NoPair
  <2> QED BY <2>1, <2>2
<1> QED BY <1>2, <1>3, <1>4, <1>5, <1>7

\* FlattenSeq of nothing.
LEMMA FlatOfNone == FlattenSeq(<<>>) = <<>>
BY DEF FlattenSeq

\* FlattenSeq of one sequence.
LEMMA FlatOfOne ==
  ASSUME NEW t
  PROVE  FlattenSeq(<<t>>) = t
<1>1. PICK s : s = <<t>>
  OBVIOUS
<1>2. Len(s) = 1 /\ s[1] = t
  BY <1>1
<1> DEFINE Flat(g) == [i \in 1 .. Len(s) |-> IF i = 1 THEN s[i] ELSE g[i - 1] \o s[i]]
           flat == CHOOSE g : g = Flat(g)
<1>3. FlattenSeq(s) = flat[Len(s)]
  BY <1>2 DEF FlattenSeq
<1>4. \E g : g = Flat(g)
  <2>1. PICK g : g = [i \in 1 .. 1 |-> t]
    OBVIOUS
  <2>2. Flat(g) = g
    BY <1>2, <2>1
  <2> QED BY <2>2
<1>5. flat = Flat(flat)
  <2> HIDE DEF Flat
  <2> QED BY <1>4
<1>6. flat[1] = t
  <2> HIDE DEF flat
  <2> QED BY <1>2, <1>5
<1> QED BY <1>1, <1>2, <1>3, <1>6

\* No chunks.
LEMMA DataOfNone ==
  ASSUME NEW chunks \in Seq(STRING), Len(chunks) = 0
  PROVE  [n \in DOMAIN chunks |-> Data(<<chunks[n]>>)] = <<>>
<1>1. DOMAIN chunks = 1 .. 0
  OBVIOUS
<1>2. PICK f : f = [n \in DOMAIN chunks |-> Data(<<chunks[n]>>)]
  OBVIOUS
<1>3. f \in [1 .. 0 -> {}]
  BY <1>1, <1>2
<1>4. f \in Seq({}) /\ Len(f) = 0
  BY <1>3
<1>5. f = <<>>
  BY <1>4
<1> QED BY <1>2, <1>5

\* One chunk.
LEMMA DataOfOne ==
  ASSUME NEW chunks \in Seq(STRING), Len(chunks) = 1
  PROVE  [n \in DOMAIN chunks |-> Data(<<chunks[n]>>)] = <<Data(<<chunks[1]>>)>>
<1>1. DOMAIN chunks = 1 .. 1
  OBVIOUS
<1>2. PICK f, t : f = [n \in DOMAIN chunks |-> Data(<<chunks[n]>>)] /\ t = Data(<<chunks[1]>>)
  OBVIOUS
<1>3. \A n \in 1 .. 1 : Data(<<chunks[n]>>) = t
  BY <1>2
<1>4. f = [n \in 1 .. 1 |-> t]
  BY <1>1, <1>2, <1>3
<1>5. [n \in 1 .. 1 |-> t] = <<t>>
  OBVIOUS
<1> QED BY <1>2, <1>4, <1>5

\* When the input has ended, it is the chunk or nothing.
LEMMA ArrivedIsBody ==
  ASSUME OneChunkBodies, Shape, Arrived
  PROVE  BodyArrives
<1> SUFFICES ASSUME pc = "complete"
             PROVE  /\ Peer.content[FCGI_STDIN] =
                         FlattenSeq([n \in DOMAIN request.client.chunks |->
                                       Data(<<request.client.chunks[n]>>)])
                    /\ Peer.ends[FCGI_STDIN] = 1
  BY DEF BodyArrives
<1>1. PICK chunks : chunks = request.client.chunks
  OBVIOUS
<1>2. chunks \in Seq(STRING) /\ streamed = Len(chunks)
  BY <1>1, EncoderAssumption DEF Shape
<1>3. PICK content, ends : /\ Told(sent, request.id, content, ends)
                           /\ Stdin(content, ends)
  BY DEF Arrived
<1>4. Peer.content = content /\ Peer.ends = ends
  BY <1>3, ToldPeer DEF Peer
<1> DEFINE data == [n \in DOMAIN chunks |-> Data(<<chunks[n]>>)]
<1>5. CASE streamed = 0
  <2>1. data = <<>>
    <3>1. Len(chunks) = 0
      BY <1>2, <1>5
    <3> QED BY <1>2, <3>1, DataOfNone
  <2>2. FlattenSeq(data) = <<>>
    BY <2>1, FlatOfNone
  <2>3. content[FCGI_STDIN] = <<>> /\ ends[FCGI_STDIN] = 1
    BY <1>3, <1>5 DEF Stdin
  <2> QED BY <1>1, <1>4, <2>2, <2>3
<1>6. CASE streamed = 1
  <2>1. PICK t : t = Data(<<chunks[1]>>)
    OBVIOUS
  <2>2. data = <<t>>
    <3>1. Len(chunks) = 1
      BY <1>2, <1>6
    <3> QED BY <1>2, <2>1, <3>1, DataOfOne
  <2>3. FlattenSeq(data) = t
    BY <2>2, FlatOfOne
  <2>4. content[FCGI_STDIN] = t /\ ends[FCGI_STDIN] = 1
    BY <1>1, <1>3, <1>6, <2>1 DEF Stdin
  <2> QED BY <1>1, <1>4, <2>3, <2>4
<1>7. streamed \in {0, 1}
  <2>1. Len(request.client.chunks) \in {0, 1}
    BY DEF OneChunkBodies, Shape
  <2> QED BY <1>1, <1>2, <2>1
<1> QED BY <1>5, <1>6, <1>7

\* createBeginRequest, fcgiHeaderSetRequestId and serializeNameValue: the
\* application finds all the records of a request, under one id, its number
\* modulo 65536, and in them every parameter with its value, whatever the
\* lengths of names and values, as long as the two bytes of a header have room
\* for the length of all the parameters and for that of each chunk.
THEOREM RequestsArrive ==
  ASSUME FitRecords
  PROVE  Spec => []RequestArrives
<1>1. Init => Shape /\ Arrived
  <2>1. Init => Shape
    BY ShapeInit
  <2>2. Init => Arrived
    BY DEF Init, Arrived
  <2> QED BY <2>1, <2>2
<1>2. Shape /\ Arrived /\ [Next]_vars => (Shape /\ Arrived)'
  BY ShapeStep, ArrivedStep
<1>3. Shape /\ Arrived => RequestArrives
  BY ArrivedIsRequest
<1> QED BY <1>1, <1>2, <1>3, PTL DEF Spec

\* postBodyChunk and emptyParam: the application gets the body of the request,
\* all of it, and its end once, if the body of a POST comes in one chunk and no
\* other request has a body.
THEOREM BodiesArrive ==
  ASSUME FitRecords, OneChunkBodies
  PROVE  Spec => []BodyArrives
<1>1. Init => Shape /\ Arrived
  <2>1. Init => Shape
    BY ShapeInit
  <2>2. Init => Arrived
    BY DEF Init, Arrived
  <2> QED BY <2>1, <2>2
<1>2. Shape /\ Arrived /\ [Next]_vars => (Shape /\ Arrived)'
  BY ShapeStep, ArrivedStep
<1>3. Shape /\ Arrived => BodyArrives
  BY ArrivedIsBody
<1> QED BY <1>1, <1>2, <1>3, PTL DEF Spec

=============================================================================
