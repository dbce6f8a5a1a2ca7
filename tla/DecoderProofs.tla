--------------------------- MODULE DecoderProofs ---------------------------
(***************************************************************************)
(* Proofs about FcgiDecoder, for responses of any number of records of any *)
(* lengths, cut into blocks at any place.                                  *)
(*                                                                         *)
(* FlattenSeq, by which FcgiDecoder says what the application sends and    *)
(* what the output should be, is recursive; its steps are proved first, by *)
(* the least number at which they would fail. So wire is cut into records  *)
(* (Layout). The invariant DInv then says where in which record the        *)
(* decoder is and what of the record it has: InRecord for a record in      *)
(* progress, AtEnd for the end of the response, Sent for the output. It is *)
(* inductive only because a block is at least as long as any padding: a    *)
(* block that begins in the padding has to hold all that is left of it.    *)
(***************************************************************************)
EXTENDS FcgiDecoder, ListProofs

-----------------------------------------------------------------------------
(***************************************************************************)
(* FlattenSeq. It is defined by a recursive function, so that first of all *)
(* there has to be such a function.                                        *)
(***************************************************************************)

Flattening(seqs, n, f) ==
  [i \in 1 .. n |-> IF i = 1 THEN seqs[i] ELSE f[i - 1] \o seqs[i]]

\* There is such a function for every length.
LEMMA FlatteningExists ==
  ASSUME NEW seqs, NEW n \in Nat
  PROVE  \E f : f = Flattening(seqs, n, f)
<1> DEFINE Bad == {m \in Nat : ~ \E f : f = Flattening(seqs, m, f)}
<1> SUFFICES ASSUME Bad # {}
             PROVE  FALSE
  OBVIOUS
<1>1. PICK m \in Bad : \A k \in Bad : m <= k
  <2> HIDE DEF Bad
  <2>1. Bad \subseteq Nat
    BY DEF Bad
  <2> QED BY <2>1, LeastNumber
<1>2. m \in Nat /\ ~ \E f : f = Flattening(seqs, m, f)
  OBVIOUS
<1>3. CASE m = 0
  <2>1. [i \in 1 .. 0 |-> 0] = Flattening(seqs, m, [i \in 1 .. 0 |-> 0])
    BY <1>3 DEF Flattening
  <2> QED BY <1>2, <2>1
<1>4. CASE m # 0
  <2>1. m - 1 \in Nat /\ m - 1 \notin Bad
    BY <1>1, <1>2, <1>4
  <2>2. PICK f : f = Flattening(seqs, m - 1, f)
    BY <2>1
  <2> DEFINE g == Flattening(seqs, m, f)
  <2>3. \A i \in 1 .. m - 1 : g[i] = f[i]
    <3>1. \A i \in 1 .. m - 1 : f[i] = IF i = 1 THEN seqs[i] ELSE f[i - 1] \o seqs[i]
      BY <1>2, <2>2 DEF Flattening
    <3>2. \A i \in 1 .. m - 1 : g[i] = IF i = 1 THEN seqs[i] ELSE f[i - 1] \o seqs[i]
      BY <1>2 DEF Flattening
    <3> QED BY <3>1, <3>2
  <2>4. \A i \in 1 .. m : (IF i = 1 THEN seqs[i] ELSE f[i - 1] \o seqs[i]) =
                          (IF i = 1 THEN seqs[i] ELSE g[i - 1] \o seqs[i])
    <3> HIDE DEF g
    <3> QED BY <1>2, <2>3
  <2>5. g = Flattening(seqs, m, g)
    <3>1. g = [i \in 1 .. m |-> IF i = 1 THEN seqs[i] ELSE f[i - 1] \o seqs[i]]
      BY DEF Flattening
    <3> HIDE DEF g
    <3> QED BY <2>4, <3>1 DEF Flattening
  <2> QED BY <1>2, <2>5
<1> QED BY <1>3, <1>4

\* Such functions agree as far as what they flatten does.
LEMMA FlatteningAgrees ==
  ASSUME NEW seqs, NEW ts, NEW n \in Nat, NEW m \in Nat, n <= m,
         \A i \in 1 .. n : seqs[i] = ts[i],
         NEW f, f = Flattening(seqs, n, f), NEW g, g = Flattening(ts, m, g)
  PROVE  \A i \in 1 .. n : f[i] = g[i]
<1>1. \A i \in 1 .. n : f[i] = IF i = 1 THEN seqs[i] ELSE f[i - 1] \o seqs[i]
  BY DEF Flattening
<1>2. \A i \in 1 .. n : g[i] = IF i = 1 THEN seqs[i] ELSE g[i - 1] \o seqs[i]
  <2>1. \A i \in 1 .. m : g[i] = IF i = 1 THEN ts[i] ELSE g[i - 1] \o ts[i]
    BY DEF Flattening
  <2> QED BY <2>1
<1> DEFINE Bad == {i \in 1 .. n : f[i] # g[i]}
<1> SUFFICES ASSUME Bad # {}
             PROVE  FALSE
  OBVIOUS
<1>3. PICK i \in Bad : \A k \in Bad : i <= k
  <2>1. Bad \subseteq Nat
    OBVIOUS
  <2> HIDE DEF Bad
  <2> QED BY <2>1, LeastNumber
<1>4. i \in 1 .. n /\ f[i] # g[i]
  OBVIOUS
<1>5. i # 1 /\ i - 1 \in 1 .. n /\ i - 1 \notin Bad
  BY <1>1, <1>2, <1>3, <1>4
<1>6. f[i - 1] = g[i - 1]
  BY <1>5
<1> QED BY <1>1, <1>2, <1>4, <1>5, <1>6

\* The first n sequences, flattened.
Flat(seqs, n) == FlattenSeq([i \in 1 .. n |-> seqs[i]])

\* Flat(seqs, n) is the last value of such a function.
LEMMA FlatDef ==
  ASSUME NEW seqs, NEW n \in Nat \ {0}
  PROVE  \E f : /\ f = Flattening(seqs, n, f)
                /\ Flat(seqs, n) = f[n]
<1> DEFINE ts == [i \in 1 .. n |-> seqs[i]]
<1>1. Len(ts) = n
  OBVIOUS
<1> DEFINE g == CHOOSE f : f = [i \in 1 .. n |-> IF i = 1 THEN ts[i]
                                                ELSE f[i - 1] \o ts[i]]
<1>2. \E f : f = Flattening(ts, n, f)
  BY FlatteningExists
<1>3. g = Flattening(ts, n, g)
  <2> HIDE DEF ts
  <2> QED BY <1>2 DEF Flattening
<1>4. Flat(seqs, n) = g[n]
  <2>1. Flat(seqs, n) = FlattenSeq(ts)
    BY DEF Flat
  <2> HIDE DEF ts
  <2> QED BY <1>1, <2>1 DEF FlattenSeq
<1>5. Flattening(ts, n, g) = Flattening(seqs, n, g)
  <2> HIDE DEF g
  <2> QED BY DEF Flattening
<1> HIDE DEF g
<1> QED BY <1>3, <1>4, <1>5

\* Flat by its steps.
LEMMA FlatSteps ==
  ASSUME NEW S, NEW seqs \in Seq(Seq(S))
  PROVE  /\ Flat(seqs, 0) = <<>>
         /\ \A n \in 1 .. Len(seqs) : Flat(seqs, n) = Flat(seqs, n - 1) \o seqs[n]
         /\ Flat(seqs, Len(seqs)) = FlattenSeq(seqs)
<1>1. /\ Len(seqs) \in Nat /\ DOMAIN seqs = 1 .. Len(seqs)
      /\ seqs = [i \in 1 .. Len(seqs) |-> seqs[i]]
      /\ \A n \in 1 .. Len(seqs) : seqs[n] \in Seq(S)
  OBVIOUS
<1>2. Flat(seqs, 0) = <<>>
  <2> DEFINE none == [i \in 1 .. 0 |-> seqs[i]]
  <2>1. none \in Seq(S) /\ Len(none) = 0
    OBVIOUS
  <2>2. none = <<>>
    BY <2>1, EmptySeq
  <2> HIDE DEF none
  <2>3. FlattenSeq(none) = none
    BY <2>1 DEF FlattenSeq
  <2> QED BY <2>2, <2>3 DEF Flat, none
<1>3. ASSUME NEW n \in 1 .. Len(seqs)
      PROVE  Flat(seqs, n) = Flat(seqs, n - 1) \o seqs[n]
  <2> n \in Nat \ {0} /\ n \in 1 .. n
    BY <1>1
  <2>1. PICK f : f = Flattening(seqs, n, f) /\ Flat(seqs, n) = f[n]
    BY FlatDef
  <2>2. f[n] = IF n = 1 THEN seqs[n] ELSE f[n - 1] \o seqs[n]
    BY <2>1 DEF Flattening
  <2>3. CASE n = 1
    BY <1>1, <1>2, <2>1, <2>2, <2>3
  <2>4. CASE n # 1
    <3>1. n - 1 \in Nat \ {0} /\ n - 1 <= n /\ n \in Nat
      BY <1>1, <2>4
    <3>2. PICK g : g = Flattening(seqs, n - 1, g) /\ Flat(seqs, n - 1) = g[n - 1]
      BY <3>1, FlatDef
    <3>3. g[n - 1] = f[n - 1]
      BY <2>1, <3>1, <3>2, FlatteningAgrees
    <3> QED BY <2>1, <2>2, <2>4, <3>2, <3>3
  <2> QED BY <2>3, <2>4
<1>4. Flat(seqs, Len(seqs)) = FlattenSeq(seqs)
  BY <1>1 DEF Flat
<1> QED BY <1>2, <1>3, <1>4

\* Flat is a sequence of what the sequences are of.
LEMMA FlatType ==
  ASSUME NEW S, NEW seqs \in Seq(Seq(S))
  PROVE  \A n \in 0 .. Len(seqs) : Flat(seqs, n) \in Seq(S)
<1> DEFINE Bad == {n \in 0 .. Len(seqs) : Flat(seqs, n) \notin Seq(S)}
<1> SUFFICES ASSUME Bad # {}
             PROVE  FALSE
  OBVIOUS
<1>1. Len(seqs) \in Nat /\ \A n \in 1 .. Len(seqs) : seqs[n] \in Seq(S)
  OBVIOUS
<1>2. PICK n \in Bad : \A k \in Bad : n <= k
  <2>1. Bad \subseteq Nat
    OBVIOUS
  <2> HIDE DEF Bad
  <2> QED BY <2>1, LeastNumber
<1>3. n \in 0 .. Len(seqs) /\ Flat(seqs, n) \notin Seq(S)
  OBVIOUS
<1>4. n # 0
  <2>1. <<>> \in Seq(S)
    OBVIOUS
  <2> QED BY <1>3, <2>1, FlatSteps
<1>5. n - 1 \in 0 .. Len(seqs) /\ n - 1 \notin Bad
  <2> HIDE DEF Bad
  <2> QED BY <1>1, <1>2, <1>3, <1>4
<1>6. Flat(seqs, n - 1) \in Seq(S) /\ seqs[n] \in Seq(S)
  BY <1>1, <1>3, <1>4, <1>5
<1> HIDE DEF Bad
<1>7. Flat(seqs, n) = Flat(seqs, n - 1) \o seqs[n]
  <2>1. n \in 1 .. Len(seqs)
    BY <1>1, <1>3, <1>4
  <2> QED BY <2>1, FlatSteps
<1>8. Flat(seqs, n - 1) \o seqs[n] \in Seq(S)
  BY <1>6, ConcatProperties
<1> QED BY <1>3, <1>7, <1>8

\* The second part of a concatenation begins where the first ends.
LEMMA ConcatParts ==
  ASSUME NEW S, NEW s \in Seq(S), NEW t \in Seq(S)
  PROVE  /\ s \o t \in Seq(S)
         /\ Len(s \o t) = Len(s) + Len(t)
         /\ \A i \in 1 .. Len(s) : (s \o t)[i] = s[i]
         /\ \A i \in 1 .. Len(t) : (s \o t)[Len(s) + i] = t[i]
<1> DEFINE st == s \o t
<1>1. /\ st \in Seq(S) /\ Len(st) = Len(s) + Len(t)
      /\ \A i \in 1 .. Len(s) + Len(t) : st[i] = IF i <= Len(s) THEN s[i] ELSE t[i - Len(s)]
  BY ConcatProperties
<1>2. Len(s) \in Nat /\ Len(t) \in Nat
  OBVIOUS
<1> HIDE DEF st
<1>3. \A i \in 1 .. Len(s) : st[i] = s[i]
  BY <1>1, <1>2
<1>4. ASSUME NEW i \in 1 .. Len(t)
      PROVE  st[Len(s) + i] = t[i]
  <2>1. /\ Len(s) + i \in 1 .. Len(s) + Len(t)
        /\ ~(Len(s) + i <= Len(s)) /\ (Len(s) + i) - Len(s) = i
    BY <1>2
  <2> QED BY <1>1, <2>1
<1> QED BY <1>1, <1>3, <1>4 DEF st

\* The n-th sequence is where it belongs, and what is before it stays.
LEMMA FlatStep ==
  ASSUME NEW S, NEW seqs \in Seq(Seq(S)), NEW n \in 1 .. Len(seqs)
  PROVE  LET before == Flat(seqs, n - 1)
             after  == Flat(seqs, n)
         IN  /\ before \in Seq(S) /\ after \in Seq(S) /\ seqs[n] \in Seq(S)
             /\ Len(after) = Len(before) + Len(seqs[n])
             /\ \A i \in 1 .. Len(before) : after[i] = before[i]
             /\ \A i \in 1 .. Len(seqs[n]) : after[Len(before) + i] = seqs[n][i]
<1> DEFINE before == Flat(seqs, n - 1)
           after  == Flat(seqs, n)
<1>1. /\ n - 1 \in 0 .. Len(seqs) /\ n \in 0 .. Len(seqs) /\ seqs[n] \in Seq(S)
  OBVIOUS
<1>2. before \in Seq(S) /\ after \in Seq(S)
  BY <1>1, FlatType
<1>3. after = before \o seqs[n]
  BY FlatSteps
<1>4. /\ Len(after) = Len(before) + Len(seqs[n])
      /\ \A i \in 1 .. Len(before) : after[i] = before[i]
      /\ \A i \in 1 .. Len(seqs[n]) : after[Len(before) + i] = seqs[n][i]
  <2> HIDE DEF before, after
  <2> QED BY <1>1, <1>2, <1>3, ConcatParts
<1> QED BY <1>1, <1>2, <1>4

\* What is flattened first is a prefix of all that follows.
LEMMA FlatPrefix ==
  ASSUME NEW S, NEW seqs \in Seq(Seq(S)), NEW n \in 0 .. Len(seqs)
  PROVE  \A m \in n .. Len(seqs) :
           /\ Len(Flat(seqs, n)) <= Len(Flat(seqs, m))
           /\ \A i \in 1 .. Len(Flat(seqs, n)) : Flat(seqs, m)[i] = Flat(seqs, n)[i]
<1> DEFINE short == Flat(seqs, n)
           OK(m) == /\ Len(short) <= Len(Flat(seqs, m))
                    /\ \A i \in 1 .. Len(short) : Flat(seqs, m)[i] = short[i]
           Bad == {m \in n .. Len(seqs) : ~OK(m)}
<1> SUFFICES ASSUME Bad # {}
             PROVE  FALSE
  OBVIOUS
<1>1. Len(seqs) \in Nat /\ n \in Nat
  OBVIOUS
<1>2. PICK m \in Bad : \A k \in Bad : m <= k
  <2>1. Bad \subseteq Nat
    <3> HIDE DEF OK
    <3> QED BY <1>1
  <2> HIDE DEF Bad
  <2> QED BY <2>1, LeastNumber
<1> HIDE DEF OK
<1>3. m \in n .. Len(seqs) /\ ~OK(m)
  OBVIOUS
<1>4. short \in Seq(S) /\ Len(short) \in Nat
  BY FlatType
<1>5. OK(n)
  BY <1>4 DEF OK
<1>6. m \in 1 .. Len(seqs) /\ m - 1 \in n .. Len(seqs) /\ m - 1 \notin Bad
  BY <1>1, <1>2, <1>3, <1>5
<1>7. OK(m - 1)
  BY <1>6
<1> HIDE DEF Bad, short
<1>8. OK(m)
  <2> DEFINE before == Flat(seqs, m - 1)
             after == Flat(seqs, m)
  <2>1. /\ before \in Seq(S) /\ seqs[m] \in Seq(S)
        /\ Len(after) = Len(before) + Len(seqs[m])
        /\ \A i \in 1 .. Len(before) : after[i] = before[i]
    BY <1>6, FlatStep
  <2>2. /\ Len(short) <= Len(before)
        /\ \A i \in 1 .. Len(short) : before[i] = short[i]
    BY <1>7 DEF OK
  <2> HIDE DEF before, after
  <2>3. Len(before) \in Nat /\ Len(seqs[m]) \in Nat
    BY <2>1
  <2>4. Len(short) <= Len(after)
    BY <1>4, <2>1, <2>2, <2>3
  <2>5. \A i \in 1 .. Len(short) : after[i] = short[i]
    BY <1>4, <2>1, <2>2, <2>3
  <2> QED BY <2>4, <2>5 DEF OK, after
<1> QED BY <1>3, <1>8

-----------------------------------------------------------------------------
(***************************************************************************)
(* What the application sends, and where it is.                            *)
(***************************************************************************)

\* Where the parts of a record are.
LEMMA ThreeParts ==
  ASSUME NEW S, NEW h \in Seq(S), NEW c \in Seq(S), NEW z \in Seq(S)
  PROVE  /\ h \o c \o z \in Seq(S)
         /\ Len(h \o c \o z) = Len(h) + Len(c) + Len(z)
         /\ \A i \in 1 .. Len(h) : (h \o c \o z)[i] = h[i]
         /\ \A i \in 1 .. Len(c) : (h \o c \o z)[Len(h) + i] = c[i]
<1> DEFINE front == h \o c
<1>1. /\ front \in Seq(S) /\ Len(front) = Len(h) + Len(c)
      /\ \A i \in 1 .. Len(h) : front[i] = h[i]
      /\ \A i \in 1 .. Len(c) : front[Len(h) + i] = c[i]
  BY ConcatParts
<1>2. Len(h) \in Nat /\ Len(c) \in Nat /\ Len(z) \in Nat
  OBVIOUS
<1> HIDE DEF front
<1>3. /\ front \o z \in Seq(S) /\ Len(front \o z) = Len(front) + Len(z)
      /\ \A i \in 1 .. Len(front) : (front \o z)[i] = front[i]
  <2>1. front \in Seq(S)
    BY <1>1
  <2> QED BY <2>1, ConcatParts
<1> DEFINE all == front \o z
<1> HIDE DEF all
<1>4. /\ all \in Seq(S) /\ Len(all) = Len(h) + Len(c) + Len(z)
      /\ \A i \in 1 .. Len(front) : all[i] = front[i]
  BY <1>1, <1>3 DEF all
<1>5. \A i \in 1 .. Len(h) : i \in 1 .. Len(front)
  BY <1>1, <1>2
<1>6. \A i \in 1 .. Len(c) : Len(h) + i \in 1 .. Len(front)
  BY <1>1, <1>2
<1>7. /\ \A i \in 1 .. Len(h) : all[i] = h[i]
      /\ \A i \in 1 .. Len(c) : all[Len(h) + i] = c[i]
  BY <1>1, <1>4, <1>5, <1>6
<1> QED BY <1>4, <1>7, Zenon DEF all, front

\* The bytes of a record: the lengths in its header are those of its parts.
LEMMA EncodeFacts ==
  ASSUME NEW r \in Records
  PROVE  LET bytes == Encode(r)
         IN  /\ bytes \in Seq(Nat)
             /\ Len(bytes) = FCGI_HEADER_LEN + Len(r.content) + r.pad
             /\ bytes[2] = r.type
             /\ bytes[5] * 256 + bytes[6] = Len(r.content)
             /\ bytes[7] = r.pad
             /\ \A i \in 1 .. Len(r.content) :
                  bytes[FCGI_HEADER_LEN + i] = r.content[i]
<1> DEFINE n == Len(r.content)
           h == << 1, r.type, 0, 1, n \div 256, n % 256, r.pad, 0 >>
           z == [k \in 1 .. r.pad |-> 0]
<1>1. r.type \in Nat /\ r.content \in Seq(Nat) /\ r.pad \in Nat /\ n \in Nat
  BY DEF Records
<1>2. \A m \in Nat : m \div 256 \in Nat /\ m % 256 \in Nat /\ (m \div 256) * 256 + (m % 256) = m
  OBVIOUS
<1>3. /\ h \in Seq(Nat) /\ Len(h) = 8
      /\ h[2] = r.type /\ h[5] = n \div 256 /\ h[6] = n % 256 /\ h[7] = r.pad
  <2> HIDE DEF n
  <2> QED BY <1>1, <1>2
<1>4. z \in Seq(Nat) /\ Len(z) = r.pad
  BY <1>1
<1>5. Encode(r) = h \o r.content \o z
  BY DEF Encode
<1> HIDE DEF h, z
<1>6. /\ Encode(r) \in Seq(Nat) /\ Len(Encode(r)) = Len(h) + Len(r.content) + Len(z)
      /\ \A i \in 1 .. Len(h) : Encode(r)[i] = h[i]
      /\ \A i \in 1 .. Len(r.content) : Encode(r)[Len(h) + i] = r.content[i]
  <2> DEFINE c == r.content
  <2>1. c \in Seq(Nat) /\ Encode(r) = h \o c \o z
    BY <1>1, <1>5
  <2> HIDE DEF c
  <2>2. /\ h \o c \o z \in Seq(Nat) /\ Len(h \o c \o z) = Len(h) + Len(c) + Len(z)
        /\ \A i \in 1 .. Len(h) : (h \o c \o z)[i] = h[i]
        /\ \A i \in 1 .. Len(c) : (h \o c \o z)[Len(h) + i] = c[i]
    <3>1. h \in Seq(Nat) /\ z \in Seq(Nat)
      BY <1>3, <1>4
    <3>2. c \in Seq(Nat)
      BY <2>1
    <3> QED BY <3>1, <3>2, ThreeParts
  <2> QED BY <2>1, <2>2, Zenon DEF c
<1> HIDE DEF n
<1>7. \A i \in 1 .. n : Encode(r)[8 + i] = r.content[i]
  BY <1>3, <1>6 DEF n
<1>8. Len(Encode(r)) = 8 + n + r.pad
  BY <1>3, <1>4, <1>6 DEF n
<1>9. \A i \in 1 .. 8 : Encode(r)[i] = h[i]
  BY <1>3, <1>6
<1>10. /\ Encode(r)[2] = r.type /\ Encode(r)[7] = r.pad
       /\ Encode(r)[5] * 256 + Encode(r)[6] = n
  BY <1>1, <1>2, <1>3, <1>9
<1> QED BY <1>6, <1>7, <1>8, <1>10 DEF FCGI_HEADER_LEN, n

\* The bytes of the records of a response.
Encoded == [k \in DOMAIN stream |-> Encode(stream[k])]

Wired == stream \in Streams /\ wire = FlattenSeq(Encoded)

\* The response and its bytes are sequences of the same length.
LEMMA EncodedType ==
  ASSUME Wired
  PROVE  /\ stream \in Seq(Records) /\ Len(stream) \in Nat
         /\ DOMAIN stream = 1 .. Len(stream)
         /\ \A k \in 1 .. Len(stream) : stream[k] \in Records
         /\ Encoded \in Seq(Seq(Nat)) /\ Len(Encoded) = Len(stream)
         /\ \A k \in 1 .. Len(stream) : Encoded[k] = Encode(stream[k])
<1>1. stream \in Seq(Records)
  BY DecoderAssumption DEF Wired
<1>2. /\ Len(stream) \in Nat /\ DOMAIN stream = 1 .. Len(stream)
      /\ \A k \in 1 .. Len(stream) : stream[k] \in Records
  BY <1>1
<1>3. \A k \in 1 .. Len(stream) : Encode(stream[k]) \in Seq(Nat)
  BY <1>2, EncodeFacts
<1>4. /\ Encoded \in Seq(Seq(Nat)) /\ Len(Encoded) = Len(stream)
      /\ \A k \in 1 .. Len(stream) : Encoded[k] = Encode(stream[k])
  BY <1>2, <1>3 DEF Encoded
<1> QED BY <1>1, <1>2, <1>4

\* The k-th record is the part of wire from Starts(k) to Starts(k + 1).
LEMMA Layout ==
  ASSUME Wired
  PROVE  /\ wire \in Seq(Nat)
         /\ Starts(1) = 0
         /\ Starts(Len(stream) + 1) = Len(wire)
         /\ \A k \in 1 .. Len(stream) :
              /\ Starts(k) \in Nat /\ Starts(k + 1) \in Nat
              /\ Starts(k + 1) = Starts(k) + Len(Encode(stream[k]))
              /\ Starts(k + 1) <= Len(wire)
              /\ \A i \in 1 .. Len(Encode(stream[k])) :
                   wire[Starts(k) + i] = Encode(stream[k])[i]
<1> DEFINE n == Len(stream)
<1>1. /\ n \in Nat /\ Encoded \in Seq(Seq(Nat)) /\ Len(Encoded) = n
      /\ DOMAIN stream = 1 .. n
      /\ \A k \in 1 .. n : Encoded[k] = Encode(stream[k])
  BY EncodedType
<1>2. \A k \in 1 .. n + 1 : Starts(k) = Len(Flat(Encoded, k - 1))
  <2> SUFFICES ASSUME NEW k \in 1 .. n + 1
               PROVE  Starts(k) = Len(Flat(Encoded, k - 1))
    OBVIOUS
  <2>1. [m \in 1 .. k - 1 |-> Encode(stream[m])] = [m \in 1 .. k - 1 |-> Encoded[m]]
    BY <1>1
  <2> QED BY <2>1 DEF Starts, Flat
<1>3. wire = Flat(Encoded, n)
  BY <1>1, FlatSteps DEF Wired
<1>4. wire \in Seq(Nat)
  BY <1>1, <1>3, FlatType
<1>5. Starts(1) = 0
  <2>1. Flat(Encoded, 0) = <<>> /\ Len(<<>>) = 0
    BY <1>1, FlatSteps
  <2>2. 1 \in 1 .. n + 1 /\ 1 - 1 = 0
    BY <1>1
  <2> HIDE DEF n
  <2>3. Starts(1) = Len(Flat(Encoded, 0))
    BY <1>2, <2>2
  <2> QED BY <2>1, <2>3
<1>6. Starts(n + 1) = Len(wire)
  BY <1>1, <1>2, <1>3
<1>7. ASSUME NEW k \in 1 .. n
      PROVE  /\ Starts(k) \in Nat /\ Starts(k + 1) \in Nat
             /\ Starts(k + 1) = Starts(k) + Len(Encode(stream[k]))
             /\ Starts(k + 1) <= Len(wire)
             /\ \A i \in 1 .. Len(Encode(stream[k])) :
                  wire[Starts(k) + i] = Encode(stream[k])[i]
  <2> DEFINE before == Flat(Encoded, k - 1)
             after == Flat(Encoded, k)
             bytes == Encode(stream[k])
  <2>1. k \in 1 .. n + 1 /\ k + 1 \in 1 .. n + 1 /\ (k + 1) - 1 = k /\ k \in 0 .. n /\ n \in k .. n
    BY <1>1
  <2>2. Starts(k) = Len(before) /\ Starts(k + 1) = Len(after)
    BY <1>2, <2>1
  <2>3. /\ before \in Seq(Nat) /\ after \in Seq(Nat) /\ bytes \in Seq(Nat)
        /\ Len(after) = Len(before) + Len(bytes)
        /\ \A i \in 1 .. Len(bytes) : after[Len(before) + i] = bytes[i]
    <3>1. k \in 1 .. Len(Encoded) /\ Encoded[k] = bytes
      BY <1>1
    <3>2. /\ before \in Seq(Nat) /\ after \in Seq(Nat) /\ Encoded[k] \in Seq(Nat)
          /\ Len(after) = Len(before) + Len(Encoded[k])
          /\ \A i \in 1 .. Len(Encoded[k]) : after[Len(before) + i] = Encoded[k][i]
      BY <1>1, <3>1, FlatStep
    <3> HIDE DEF before, after, bytes
    <3> QED BY <3>1, <3>2
  <2>4. /\ Len(after) <= Len(wire)
        /\ \A i \in 1 .. Len(after) : wire[i] = after[i]
    BY <1>1, <1>3, <2>1, FlatPrefix
  <2> HIDE DEF before, after, bytes
  <2>5. Len(before) \in Nat /\ Len(after) \in Nat /\ Len(bytes) \in Nat
    BY <2>3
  <2>6. \A i \in 1 .. Len(bytes) : Len(before) + i \in 1 .. Len(after)
    BY <2>3, <2>5
  <2>7. \A i \in 1 .. Len(bytes) : wire[Len(before) + i] = bytes[i]
    BY <2>3, <2>4, <2>6
  <2> QED BY <2>2, <2>3, <2>4, <2>5, <2>7 DEF bytes
<1> QED BY <1>4, <1>5, <1>6, <1>7

-----------------------------------------------------------------------------
(***************************************************************************)
(* The invariant.                                                          *)
(***************************************************************************)

\* The last record, and no other, ends the response: what comes after a record
\* that does is not decoded.
OnlyLastEnds(s) ==
  /\ s # <<>>
  /\ \A k \in DOMAIN s :
       s[k].type \in {FCGI_STDERR, FCGI_END_REQUEST} <=> k = Len(s)

\* Every block is as long as the padding of any record.
PaddingFits(s) ==
  \A k \in DOMAIN s, n \in BlockSizes : s[k].pad <= n

RecType == [state   : {"header", "content", "padding"},
            header  : Seq(Nat),
            content : Seq(Nat),
            offset  : Nat]

Common ==
  /\ Wired
  /\ rec \in RecType
  /\ beg \in Nat /\ end \in Nat /\ end <= Len(wire)
  /\ pc \in {"wait", "decode"}
  /\ pc = "wait" => beg = end
  /\ pc = "decode" => beg < end
  /\ first_chunk \in BOOLEAN /\ status \in BOOLEAN

\* The decoder is in the k-th record: it has its first bytes, up to beg, and
\* the state tells which part comes next.
InRecord(k) ==
  LET r == stream[k]
  IN  /\ Len(rec.header) <= FCGI_HEADER_LEN
      /\ \A i \in 1 .. Len(rec.header) : rec.header[i] = Encode(r)[i]
      /\ beg = Starts(k) + Len(rec.header) + rec.offset
      /\ rec.state = "header" =>
           /\ Len(rec.header) < FCGI_HEADER_LEN
           /\ rec.offset = 0 /\ rec.content = <<>>
      /\ rec.state # "header" => Len(rec.header) = FCGI_HEADER_LEN
      /\ rec.state = "content" =>
           /\ rec.offset = 0 \/ rec.offset < Len(r.content)
           /\ rec.content = SubSeq(r.content, 1, rec.offset)
      /\ rec.state = "padding" =>
           /\ Len(r.content) <= rec.offset /\ rec.offset < Len(r.content) + r.pad
           /\ rec.content = r.content
           /\ pc = "decode" => Starts(k + 1) <= end
      /\ first_chunk <=> k = 1
      /\ ~status

AtEnd ==
  /\ rec = NewRecord
  /\ pc = "wait" /\ beg = Len(wire)
  /\ ~first_chunk /\ status

\* The output of the records before the k-th.
Results ==
  [k \in DOMAIN stream |-> Delivered(stream[k].type, stream[k].content)]

Sent(k) ==
  IF k = 1 THEN output = <<>>
  ELSE \E line \in StatusLine(stream[1].content) :
         output = line \o Flat(Results, k - 1)

DInv ==
  /\ Common
  /\ \/ \E k \in 1 .. Len(stream) : InRecord(k) /\ Sent(k)
     \/ AtEnd /\ Sent(Len(stream) + 1)

-----------------------------------------------------------------------------
(***************************************************************************)
(* The header and the content of the record in progress.                   *)
(***************************************************************************)

\* The k-th record in wire, by its content and padding.
LEMMA RecordFacts ==
  ASSUME Wired, NEW k \in 1 .. Len(stream)
  PROVE  LET r == stream[k]
         IN  /\ r.content \in Seq(Nat) /\ Len(r.content) \in Nat
             /\ r.pad \in Nat /\ r.type \in Nat
             /\ Starts(k) \in Nat /\ Starts(k + 1) \in Nat
             /\ Starts(k + 1) = Starts(k) + 8 + Len(r.content) + r.pad
             /\ Starts(k + 1) <= Len(wire) /\ Len(wire) \in Nat
             /\ Len(Encode(r)) = 8 + Len(r.content) + r.pad
             /\ \A i \in 1 .. Len(r.content) : wire[Starts(k) + 8 + i] = r.content[i]
             /\ \A i \in 1 .. 8 : wire[Starts(k) + i] = Encode(r)[i]
<1> DEFINE r == stream[k]
           n == Len(r.content)
           bytes == Encode(r)
<1>1. r \in Records
  BY EncodedType
<1>2. r.content \in Seq(Nat) /\ n \in Nat /\ r.pad \in Nat /\ r.type \in Nat
  BY <1>1 DEF Records
<1>3. /\ Len(bytes) = 8 + n + r.pad
      /\ \A i \in 1 .. n : bytes[8 + i] = r.content[i]
  <2> HIDE DEF r
  <2> QED BY <1>1, EncodeFacts DEF FCGI_HEADER_LEN
<1>4. /\ wire \in Seq(Nat) /\ Starts(k) \in Nat /\ Starts(k + 1) \in Nat
      /\ Starts(k + 1) = Starts(k) + Len(bytes) /\ Starts(k + 1) <= Len(wire)
      /\ \A i \in 1 .. Len(bytes) : wire[Starts(k) + i] = bytes[i]
  BY Layout
<1> DEFINE from == Starts(k)
           len == Len(bytes)
<1> HIDE DEF r, n, bytes, from, len
<1>8. /\ n \in Nat /\ stream[k].pad \in Nat /\ from \in Nat /\ len = 8 + n + stream[k].pad
  BY <1>2, <1>3, <1>4 DEF r, from, len
<1>5. \A i \in 1 .. 8 : wire[Starts(k) + i] = bytes[i]
  <2>1. \A i \in 1 .. 8 : i \in 1 .. len
    BY <1>8
  <2> QED BY <1>4, <2>1 DEF len
<1>6. \A i \in 1 .. n : wire[Starts(k) + 8 + i] = r.content[i]
  <2> SUFFICES ASSUME NEW i \in 1 .. n
               PROVE  wire[Starts(k) + 8 + i] = r.content[i]
    OBVIOUS
  <2>1. 8 + i \in 1 .. len /\ from + 8 + i = from + (8 + i)
    BY <1>8
  <2>2. wire[Starts(k) + (8 + i)] = bytes[8 + i]
    BY <1>4, <2>1 DEF len
  <2> QED BY <1>3, <2>1, <2>2 DEF from
<1>7. Starts(k + 1) = Starts(k) + 8 + n + r.pad /\ Len(wire) \in Nat
  <2>1. from + len = from + 8 + n + r.pad
    BY <1>8 DEF r
  <2> QED BY <1>4, <2>1 DEF from, len
<1> QED BY <1>2, <1>3, <1>4, <1>5, <1>6, <1>7 DEF r, n, bytes

\* A whole header tells the lengths and the type of its record.
LEMMA HeaderFacts ==
  ASSUME Common, NEW k \in 1 .. Len(stream), InRecord(k), rec.state # "header"
  PROVE  /\ fcgiHeaderGetContentLen(rec) = Len(stream[k].content)
         /\ PaddingLength(rec) = stream[k].pad
         /\ Type(rec) = stream[k].type
<1> DEFINE bytes == Encode(stream[k])
<1>1. \A i \in 1 .. 8 : rec.header[i] = bytes[i]
  BY DEF InRecord, FCGI_HEADER_LEN
<1>2. stream[k] \in Records
  BY EncodedType DEF Common
<1>3. /\ bytes[2] = stream[k].type /\ bytes[7] = stream[k].pad
      /\ bytes[5] * 256 + bytes[6] = Len(stream[k].content)
  BY <1>2, EncodeFacts
<1> HIDE DEF bytes
<1>4. /\ rec.header[2] = bytes[2] /\ rec.header[5] = bytes[5]
      /\ rec.header[6] = bytes[6] /\ rec.header[7] = bytes[7]
  BY <1>1
<1> QED BY <1>3, <1>4 DEF fcgiHeaderGetContentLen, PaddingLength, Type

\* A part of a sequence.
LEMMA SubSeqFacts ==
  ASSUME NEW S, NEW s \in Seq(S), NEW from \in Nat, NEW size \in Nat,
         from + size <= Len(s)
  PROVE  LET part == SubSeq(s, from + 1, from + size)
         IN  /\ part \in Seq(S) /\ Len(part) = size
             /\ \A i \in 1 .. size : part[i] = s[from + i]
<1> DEFINE m == from + 1
           n == from + size
           part == SubSeq(s, m, n)
<1>1. m \in Int /\ n \in Int /\ \A i \in m .. n : s[i] \in S
  OBVIOUS
<1>2. /\ m \in Int /\ n \in Int /\ n - m + 1 = size
      /\ (IF m <= n THEN n - m + 1 ELSE 0) = size
      /\ \A i \in 1 .. size : m + i - 1 = from + i
  OBVIOUS
<1> HIDE DEF m, n
<1>3. /\ part \in Seq(S) /\ Len(part) = IF m <= n THEN n - m + 1 ELSE 0
      /\ \A i \in 1 .. n - m + 1 : part[i] = s[m + i - 1]
  BY <1>1, SubSeqProperties
<1> HIDE DEF part
<1>4. /\ part \in Seq(S) /\ Len(part) = size
      /\ \A i \in 1 .. size : part[i] = s[from + i]
  BY <1>2, <1>3
<1> QED BY <1>4 DEF part, m, n

\* What is copied continues what there is.
LEMMA CopyStep ==
  ASSUME NEW content \in Seq(Nat), NEW bytes \in Seq(Nat),
         NEW offset \in Nat, NEW size \in Nat, NEW from \in Nat,
         offset + size <= Len(content), from + size <= Len(bytes),
         \A i \in 1 .. size : bytes[from + i] = content[offset + i]
  PROVE  SubSeq(content, 1, offset) \o SubSeq(bytes, from + 1, from + size)
           = SubSeq(content, 1, offset + size)
<1> DEFINE s == SubSeq(content, 1, offset)
           t == SubSeq(bytes, from + 1, from + size)
           u == SubSeq(content, 1, offset + size)
<1>1. /\ Len(content) \in Nat /\ 0 \in Nat /\ 0 + 1 = 1 /\ offset + size \in Nat
      /\ \A m \in Nat : 0 + m = m
  OBVIOUS
<1>2. ASSUME NEW m \in Nat, m <= Len(content)
      PROVE  /\ SubSeq(content, 1, m) \in Seq(Nat) /\ Len(SubSeq(content, 1, m)) = m
             /\ \A i \in 1 .. m : SubSeq(content, 1, m)[i] = content[i]
  <2>1. 0 + m <= Len(content)
    BY <1>1, <1>2
  <2>2. /\ SubSeq(content, 0 + 1, 0 + m) \in Seq(Nat)
        /\ Len(SubSeq(content, 0 + 1, 0 + m)) = m
        /\ \A i \in 1 .. m : SubSeq(content, 0 + 1, 0 + m)[i] = content[0 + i]
    BY <1>1, <2>1, SubSeqFacts
  <2> QED BY <1>1, <2>2
<1>3. /\ s \in Seq(Nat) /\ Len(s) = offset
      /\ \A i \in 1 .. offset : s[i] = content[i]
  <2>1. offset <= Len(content)
    BY <1>1
  <2> QED BY <1>2, <2>1
<1>4. /\ u \in Seq(Nat) /\ Len(u) = offset + size
      /\ \A i \in 1 .. offset + size : u[i] = content[i]
  BY <1>1, <1>2
<1>5. /\ t \in Seq(Nat) /\ Len(t) = size
      /\ \A i \in 1 .. size : t[i] = content[offset + i]
  <2>1. /\ t \in Seq(Nat) /\ Len(t) = size
        /\ \A i \in 1 .. size : t[i] = bytes[from + i]
    BY SubSeqFacts
  <2> HIDE DEF t
  <2> QED BY <2>1
<1> HIDE DEF s, t, u
<1> DEFINE st == s \o t
<1>6. /\ st \in Seq(Nat) /\ Len(st) = Len(s) + Len(t)
      /\ \A i \in 1 .. Len(s) : st[i] = s[i]
      /\ \A i \in 1 .. Len(t) : st[Len(s) + i] = t[i]
  <2>1. s \in Seq(Nat) /\ t \in Seq(Nat)
    BY <1>3, <1>5
  <2> QED BY <2>1, ConcatParts
<1> HIDE DEF st
<1>7. ASSUME NEW i \in 1 .. offset + size
      PROVE  st[i] = u[i]
  <2>1. CASE i <= offset
    <3>1. i \in 1 .. offset
      BY <2>1
    <3> QED BY <1>3, <1>4, <1>6, <3>1
  <2>2. CASE ~(i <= offset)
    <3> DEFINE j == i - offset
    <3>0. i \in Nat /\ offset < i /\ i <= offset + size
      BY <2>2
    <3>1. i - offset \in 1 .. size /\ offset + (i - offset) = i
      BY <3>0
    <3> HIDE DEF j
    <3>2. j \in 1 .. size /\ offset + j = i
      BY <3>1 DEF j
    <3>3. st[offset + j] = t[j]
      BY <1>3, <1>5, <1>6, <3>2
    <3>4. t[j] = content[offset + j]
      BY <1>5, <3>2
    <3>5. u[i] = content[i]
      BY <1>4
    <3> QED BY <3>2, <3>3, <3>4, <3>5
  <2> QED BY <2>1, <2>2
<1>8. st \in Seq(Nat) /\ Len(st) = offset + size
  BY <1>3, <1>5, <1>6
<1>9. st = u
  <2>1. st \in Seq(Nat) /\ u \in Seq(Nat) /\ Len(st) = Len(u)
    BY <1>4, <1>8
  <2>2. \A i \in 1 .. Len(st) : st[i] = u[i]
    BY <1>7, <1>8
  <2> QED BY <2>1, <2>2, SeqEqual
<1> QED BY <1>9 DEF st, s, t, u

-----------------------------------------------------------------------------
(***************************************************************************)
(* The output.                                                             *)
(***************************************************************************)

\* What is added to the output is a sequence of numbers.
LEMMA DeliveredType ==
  ASSUME NEW type, NEW content \in Seq(Nat)
  PROVE  /\ Delivered(type, content) \in Seq(Int)
         /\ \A line \in StatusLine(content) \cup {<<>>} : line \in Seq(Int)
<1>1. content \in Seq(Int) /\ <<>> \in Seq(Int)
  OBVIOUS
<1>2. <<SERVER_ERROR>> \in Seq(Int) /\ <<STATUS>> \in Seq(Int)
  BY DEF SERVER_ERROR, STATUS
<1>3. <<SERVER_ERROR>> \o content \in Seq(Int)
  BY <1>1, <1>2, ConcatProperties
<1>4. Delivered(type, content) \in Seq(Int)
  <2> DEFINE e == <<SERVER_ERROR>> \o content
  <2> HIDE DEF e
  <2>1. e \in Seq(Int)
    BY <1>3 DEF e
  <2>2. Delivered(type, content) \in {content, e, <<>>}
    BY Zenon DEF Delivered, e
  <2> QED BY <1>1, <2>1, <2>2
<1>5. \A line \in StatusLine(content) \cup {<<>>} : line \in Seq(Int)
  <2> DEFINE st == <<STATUS>>
  <2> HIDE DEF st
  <2>1. StatusLine(content) \subseteq {st, <<>>} /\ st \in Seq(Int)
    BY <1>2 DEF StatusLine, st
  <2> QED BY <1>1, <2>1
<1> QED BY <1>4, <1>5

\* All of the output after the status line is Reference.
LEMMA ResultsType ==
  ASSUME Wired
  PROVE  /\ Results \in Seq(Seq(Int)) /\ Len(Results) = Len(stream)
         /\ \A k \in 1 .. Len(stream) :
              Results[k] = Delivered(stream[k].type, stream[k].content)
         /\ Flat(Results, Len(stream)) = Reference
<1> DEFINE R(k) == Delivered(stream[k].type, stream[k].content)
<1>1. /\ Len(stream) \in Nat /\ DOMAIN stream = 1 .. Len(stream)
      /\ \A k \in 1 .. Len(stream) : stream[k] \in Records
  BY EncodedType
<1>2. ASSUME NEW k \in 1 .. Len(stream)
      PROVE  R(k) \in Seq(Int)
  <2>1. stream[k].content \in Seq(Nat)
    BY <1>1 DEF Records
  <2> QED BY <2>1, DeliveredType
<1>3. Results = [k \in 1 .. Len(stream) |-> R(k)]
  BY <1>1 DEF Results
<1> HIDE DEF R
<1>4. /\ Results \in Seq(Seq(Int)) /\ Len(Results) = Len(stream)
      /\ \A k \in 1 .. Len(stream) : Results[k] = R(k)
  BY <1>1, <1>2, <1>3
<1>5. Flat(Results, Len(stream)) = FlattenSeq(Results)
  BY <1>4, FlatSteps
<1> QED BY <1>4, <1>5 DEF R, Reference, Results

\* The output after the k-th record is complete.
LEMMA SentStep ==
  ASSUME Wired, NEW k \in 1 .. Len(stream), Sent(k), first_chunk <=> k = 1,
         NEW line \in IF first_chunk THEN StatusLine(stream[k].content) ELSE {<<>>},
         output' = output \o line \o Delivered(stream[k].type, stream[k].content),
         stream' = stream
  PROVE  Sent(k + 1)'
<1> DEFINE D == Delivered(stream[k].type, stream[k].content)
<1>1. /\ k \in Nat \ {0} /\ k \in 1 .. Len(Results) /\ k - 1 \in 0 .. Len(Results)
      /\ stream[k].content \in Seq(Nat) /\ 1 \in 1 .. Len(stream)
      /\ stream[1].content \in Seq(Nat)
  <2>1. /\ Len(stream) \in Nat /\ \A j \in 1 .. Len(stream) : stream[j] \in Records
    BY EncodedType
  <2>2. Len(Results) = Len(stream)
    BY ResultsType
  <2> QED BY <2>1, <2>2 DEF Records
<1>2. Results \in Seq(Seq(Int)) /\ Results[k] = D
  BY ResultsType
<1>3. D \in Seq(Int)
  BY <1>1, DeliveredType
<1>4. Flat(Results, k) = Flat(Results, k - 1) \o D
  <2>1. Flat(Results, k) = Flat(Results, k - 1) \o Results[k]
    BY <1>1, <1>2, FlatSteps
  <2> QED BY <1>2, <2>1
<1>5. Flat(Results, k - 1) \in Seq(Int)
  BY <1>1, <1>2, FlatType
<1> HIDE DEF D
<1>6. \E first \in StatusLine(stream[1].content) : output' = first \o Flat(Results, k)
  <2>1. CASE k = 1
    <3>1. line \in StatusLine(stream[1].content) /\ output = <<>>
      BY <2>1 DEF Sent
    <3>2. line \in Seq(Int)
      BY <1>1, <3>1, DeliveredType
    <3>3. output \o line = line
      BY <3>1, <3>2, ConcatEmptySeq
    <3>4. Flat(Results, k) = D
      <4>1. Flat(Results, 0) = <<>>
        BY <1>2, FlatSteps
      <4>2. <<>> \o D = D
        BY <1>3, ConcatEmptySeq
      <4>3. k - 1 = 0
        BY <2>1
      <4>4. Flat(Results, k - 1) = Flat(Results, 0)
        BY <4>3
      <4> QED BY <1>4, <4>1, <4>2, <4>4, Zenon
    <3>5. output' = line \o D
      BY <3>3 DEF D
    <3> QED BY <3>1, <3>4, <3>5
  <2>2. CASE k # 1
    <3>1. PICK first \in StatusLine(stream[1].content) :
            output = first \o Flat(Results, k - 1)
      BY <2>2 DEF Sent
    <3>2. first \in Seq(Int)
      BY <1>1, DeliveredType
    <3>3. output \in Seq(Int)
      BY <1>5, <3>1, <3>2, ConcatProperties
    <3>4. line = <<>>
      BY <2>2
    <3>5. output \o line = output
      BY <3>3, <3>4, ConcatEmptySeq
    <3>6. output' = output \o D
      BY <3>5 DEF D
    <3>7. (first \o Flat(Results, k - 1)) \o D = first \o (Flat(Results, k - 1) \o D)
      <4> DEFINE before == Flat(Results, k - 1)
      <4>1. before \in Seq(Int)
        BY <1>5
      <4> HIDE DEF before
      <4>2. (first \o before) \o D = first \o (before \o D)
        BY <1>3, <3>2, <4>1, ConcatAssociative
      <4> QED BY <4>2 DEF before
    <3> QED BY <1>4, <3>1, <3>6, <3>7
  <2> QED BY <2>1, <2>2
<1>7. k + 1 # 1 /\ (k + 1) - 1 = k
  BY <1>1
<1>8. Results' = Results
  BY DEF Results
<1>9. Flat(Results, k)' = Flat(Results, k)
  BY <1>8 DEF Flat
<1>10. \E first \in StatusLine(stream'[1].content) :
         output' = first \o FlattenSeq([i \in 1 .. (k + 1) - 1 |-> Results'[i]])
  BY <1>6, <1>7, <1>8 DEF Flat
<1> QED BY <1>7, <1>10 DEF Sent, Flat

-----------------------------------------------------------------------------
(***************************************************************************)
(* The steps.                                                              *)
(***************************************************************************)

\* What the application sent stays.
LEMMA SameWire ==
  ASSUME Wired, stream' = stream, wire' = wire
  PROVE  /\ Wired' /\ Len(stream)' = Len(stream) /\ Len(wire)' = Len(wire)
         /\ \A k \in Nat : Starts(k)' = Starts(k)
         /\ \A k \in Nat : Encode(stream[k])' = Encode(stream[k])
         /\ \A k \in Nat : Flat(Results, k)' = Flat(Results, k)
<1>1. Wired'
  BY DEF Wired, Encoded
<1>2. \A k \in Nat : Starts(k)' = Starts(k)
  BY DEF Starts
<1>3. \A k \in Nat : Encode(stream[k])' = Encode(stream[k])
  BY DEF Encode
<1>4. Results' = Results
  BY DEF Results
<1>5. \A k \in Nat : Flat(Results, k)' = Flat(Results, k)
  BY <1>4 DEF Flat
<1> QED BY <1>1, <1>2, <1>3, <1>5

\* The k-th record is complete, and decoding goes on where the next one starts.
LEMMA DoneStep ==
  ASSUME Common, NEW k \in 1 .. Len(stream), InRecord(k), Sent(k),
         rec.state # "header", pc = "decode", OnlyLastEnds(stream),
         NEW content, content = stream[k].content,
         NEW next, next = Starts(k + 1), next <= end,
         RecordDone(content, next)
  PROVE  DInv'
<1> DEFINE last == stream[k].type \in {FCGI_STDERR, FCGI_END_REQUEST}
<1>1. /\ Len(stream) \in Nat /\ k \in Nat /\ DOMAIN stream = 1 .. Len(stream)
      /\ Wired /\ Starts(k + 1) \in Nat /\ Starts(k + 1) <= Len(wire)
      /\ Starts(Len(stream) + 1) = Len(wire) /\ Len(wire) \in Nat
  <2>1. Wired
    BY DEF Common
  <2> QED BY <2>1, EncodedType, Layout
<1>2. last <=> k = Len(stream)
  BY <1>1 DEF OnlyLastEnds
<1>3. Type(rec) = stream[k].type
  BY HeaderFacts
<1> HIDE DEF last
<1>4. /\ \E line \in IF first_chunk THEN StatusLine(content) ELSE {<<>>} :
           output' = output \o line \o Delivered(Type(rec), content)
      /\ first_chunk' = FALSE /\ rec' = NewRecord /\ beg' = next
      /\ pc' = CASE last \/ next = end -> "wait"
                 [] ~last /\ next > end -> "overrun"
                 [] OTHER -> "decode"
      /\ status' = IF pc' = "wait" THEN last ELSE status
      /\ stream' = stream /\ wire' = wire /\ end' = end
  BY <1>3 DEF RecordDone, last
<1>5. end \in Nat /\ end <= Len(wire) /\ status \in BOOLEAN /\ ~status
  BY DEF Common, InRecord
<1>6. Sent(k + 1)'
  <2>1. first_chunk <=> k = 1
    BY DEF InRecord
  <2>2. PICK line \in IF first_chunk THEN StatusLine(stream[k].content) ELSE {<<>>} :
          output' = output \o line \o Delivered(stream[k].type, stream[k].content)
    BY <1>3, <1>4
  <2> QED BY <1>1, <1>4, <2>1, <2>2, SentStep
<1>7. /\ Wired' /\ Len(stream)' = Len(stream) /\ Len(wire)' = Len(wire)
      /\ Starts(k + 1)' = Starts(k + 1)
  <2>1. k + 1 \in Nat
    BY <1>1
  <2> QED BY <1>1, <1>4, <2>1, SameWire
<1>8. NewRecord \in RecType
  BY DEF NewRecord, RecType
<1> DEFINE n == Len(stream)
           start(j) == Starts(j)
<1>11. /\ n \in Nat /\ k \in 1 .. n /\ (last <=> k = n) /\ next \in Nat
       /\ next = start(k + 1) /\ start(n + 1) = Len(wire)
  BY <1>1, <1>2
<1> HIDE DEF n, start
<1>9. CASE last
  <2>1. k = n /\ next = Len(wire) /\ next = end
    <3>1. k = n
      BY <1>9, <1>11
    <3>2. next = Len(wire)
      BY <1>11, <3>1
    <3>3. next <= end /\ end <= next /\ end \in Nat
      BY <1>5, <3>2
    <3> QED BY <1>11, <3>1, <3>2, <3>3
  <2>2. pc' = "wait" /\ status' = TRUE
    <3>1. pc' = "wait"
      BY <1>4, <1>9
    <3>2. last = TRUE
      BY <1>9 DEF last
    <3> QED BY <1>4, <3>1, <3>2
  <2>3. Common'
    BY <1>1, <1>4, <1>7, <1>8, <2>1, <2>2 DEF Common
  <2>4. AtEnd'
    <3>1. NewRecord' = NewRecord
      BY DEF NewRecord
    <3> QED BY <1>4, <1>7, <2>1, <2>2, <3>1 DEF AtEnd
  <2>5. Sent(Len(stream) + 1)'
    <3>1. Len(stream') = k
      BY <1>7, <2>1 DEF n
    <3> QED BY <1>6, <3>1
  <2> QED BY <2>3, <2>4, <2>5 DEF DInv
<1>10. CASE ~last
  <2>1. k + 1 \in 1 .. Len(stream) /\ k + 1 # 1
    <3>1. k + 1 \in 1 .. n /\ k + 1 # 1
      BY <1>10, <1>11
    <3> QED BY <3>1 DEF n
  <2>2. /\ pc' = IF next = end THEN "wait" ELSE "decode"
        /\ status' = FALSE
    <3>1. ~(next > end)
      BY <1>5, <1>11
    <3>2. pc' = IF next = end THEN "wait" ELSE "decode"
      BY <1>4, <1>10, <3>1
    <3>3. last = FALSE /\ status = FALSE
      BY <1>5, <1>10 DEF last
    <3> QED BY <1>4, <3>2, <3>3
  <2>3. Common'
    <3>1. next \in Nat /\ next <= end
      BY <1>11
    <3>2. /\ pc' \in {"wait", "decode"}
          /\ pc' = "wait" => beg' = end'
          /\ pc' = "decode" => beg' < end'
      BY <1>4, <1>5, <2>2, <3>1
    <3> QED BY <1>4, <1>5, <1>7, <1>8, <2>2, <3>1, <3>2 DEF Common
  <2>4. InRecord(k + 1)'
    <3>1. /\ rec'.state = "header" /\ rec'.header = <<>> /\ Len(rec'.header) = 0
          /\ rec'.offset = 0 /\ rec'.content = <<>>
      BY <1>4 DEF NewRecord
    <3>2. beg' = Starts(k + 1)' + Len(rec'.header) + rec'.offset
      BY <1>1, <1>4, <1>7, <3>1
    <3> HIDE DEF last
    <3>3. first_chunk' = FALSE /\ ~status' /\ k + 1 # 1
      BY <1>4, <2>1, <2>2
    <3> QED BY <3>1, <3>2, <3>3 DEF InRecord, FCGI_HEADER_LEN
  <2>5. k + 1 \in 1 .. Len(stream')
    BY <1>4, <2>1
  <2> QED BY <1>6, <2>3, <2>4, <2>5 DEF DInv
<1> QED BY <1>9, <1>10

\* A step that leaves the output alone.
LEMMA SentStays ==
  ASSUME Wired, NEW k, Sent(k), stream' = stream, output' = output
  PROVE  Sent(k)'
<1>1. Results' = Results
  BY DEF Results
<1>2. Flat(Results, k - 1)' = Flat(Results, k - 1)
  BY <1>1 DEF Flat
<1> QED BY <1>2 DEF Sent, StatusLine

\* interceptTransferData: a block that begins in padding holds the rest of it.
LEMMA BlockStep ==
  ASSUME DInv, PaddingFits(stream), NEW n \in BlockSizes, Block(n)
  PROVE  DInv'
<1>1. /\ pc = "wait" /\ end < Len(wire) /\ beg' = end /\ pc' = "decode"
      /\ end' = IF end + n <= Len(wire) THEN end + n ELSE Len(wire)
      /\ UNCHANGED <<stream, wire, rec, first_chunk, output, status>>
  BY DEF Block
<1>2. Common /\ Wired /\ beg = end /\ end \in Nat
  BY <1>1 DEF DInv, Common
<1>3. wire \in Seq(Nat) /\ Len(wire) \in Nat
  <2>1. wire \in Seq(Nat)
    BY <1>2, Layout
  <2> QED BY <2>1
<1>4. ~AtEnd
  BY <1>1, <1>2, <1>3 DEF AtEnd
<1>5. PICK k \in 1 .. Len(stream) : InRecord(k) /\ Sent(k)
  BY <1>4 DEF DInv
<1>6. /\ Wired' /\ Len(stream)' = Len(stream) /\ Len(wire)' = Len(wire)
      /\ Starts(k)' = Starts(k) /\ Starts(k + 1)' = Starts(k + 1)
  <2>1. k \in Nat /\ k + 1 \in Nat
    OBVIOUS
  <2> QED BY <1>1, <1>2, <2>1, SameWire
<1>7. n \in Nat \ {0}
  BY DecoderAssumption
<1>8. end' \in Nat /\ end' <= Len(wire) /\ end < end'
  BY <1>1, <1>2, <1>3, <1>7
<1>9. Common'
  <2>1. /\ pc' = "decode" /\ beg' \in Nat /\ beg' < end'
        /\ end' \in Nat /\ end' <= Len(wire)'
    BY <1>1, <1>2, <1>6, <1>8
  <2>2. rec' \in RecType /\ first_chunk' \in BOOLEAN /\ status' \in BOOLEAN
    BY <1>1, <1>2 DEF Common
  <2>3. RecType' = RecType
    BY DEF RecType
  <2> QED BY <1>6, <2>1, <2>2, <2>3 DEF Common
<1>10. InRecord(k)'
  <2>1. ASSUME rec.state = "padding"
        PROVE  Starts(k + 1) <= end'
    <3> DEFINE len == Len(stream[k].content)
               pad == stream[k].pad
               here == Starts(k)
               there == Starts(k + 1)
               off == rec.offset
    <3>1. /\ len \in Nat /\ pad \in Nat /\ here \in Nat /\ there \in Nat
          /\ there = here + 8 + len + pad /\ there <= Len(wire)
      BY <1>2, RecordFacts
    <3>2. pad <= n
      <4>1. k \in DOMAIN stream
        BY <1>2, EncodedType
      <4> QED BY <4>1 DEF PaddingFits
    <3>3. off \in Nat /\ len <= off /\ beg = here + 8 + off
      <4>1. off \in Nat
        BY <1>2 DEF Common, RecType
      <4>2. Len(rec.header) = 8
        BY <1>5, <2>1 DEF InRecord, FCGI_HEADER_LEN
      <4> QED BY <1>5, <2>1, <4>1, <4>2 DEF InRecord
    <3> HIDE DEF len, pad, here, there, off
    <3>4. there <= end + n
      BY <1>2, <1>7, <3>1, <3>2, <3>3
    <3>5. there <= end'
      BY <1>1, <1>3, <3>1, <3>4
    <3> QED BY <3>5 DEF there
  <2>2. beg' = beg /\ stream' = stream /\ rec' = rec
        /\ first_chunk' = first_chunk /\ status' = status /\ Encode(stream[k])' = Encode(stream[k])
    BY <1>1, <1>2
  <2> QED BY <1>5, <1>6, <2>1, <2>2 DEF InRecord
<1>11. Sent(k)'
  BY <1>1, <1>2, <1>5, SentStays
<1>12. k \in 1 .. Len(stream)'
  BY <1>6
<1> QED BY <1>9, <1>10, <1>11, <1>12 DEF DInv

\* Where the decoder is while it has a block.
LEMMA Decoding ==
  ASSUME DInv, pc = "decode"
  PROVE  /\ Common /\ Wired
         /\ beg \in Nat /\ end \in Nat /\ end <= Len(wire) /\ beg < end
         /\ wire \in Seq(Nat) /\ Len(wire) \in Nat
         /\ rec.header \in Seq(Nat) /\ rec.content \in Seq(Nat) /\ rec.offset \in Nat
         /\ \E k \in 1 .. Len(stream) : InRecord(k) /\ Sent(k)
<1>1. /\ Common /\ Wired
      /\ beg \in Nat /\ end \in Nat /\ end <= Len(wire) /\ beg < end
  BY DEF DInv, Common
<1>2. rec.header \in Seq(Nat) /\ rec.content \in Seq(Nat) /\ rec.offset \in Nat
  BY <1>1 DEF Common, RecType
<1>3. wire \in Seq(Nat)
  BY <1>1, Layout
<1>4. Len(wire) \in Nat
  BY <1>3
<1>5. ~AtEnd
  BY DEF AtEnd
<1> QED BY <1>1, <1>2, <1>3, <1>4, <1>5 DEF DInv

\* fcgiProcessHeader: the byte is the next one of the record's header.
LEMMA HeaderStep ==
  ASSUME DInv, ProcessHeader
  PROVE  DInv'
<1>1. /\ pc = "decode" /\ rec.state = "header"
      /\ rec' = [rec EXCEPT !.header = Append(@, wire[beg + 1]),
                            !.state = IF Len(rec.header) = FCGI_HEADER_LEN - 1
                                      THEN "content" ELSE @]
      /\ beg' = beg + 1
      /\ pc' = IF beg' = end THEN "wait" ELSE "decode"
      /\ status' = (status /\ beg' # end)
      /\ UNCHANGED <<stream, wire, end, first_chunk, output>>
  BY DEF ProcessHeader
<1>2. /\ Common /\ Wired
      /\ beg \in Nat /\ end \in Nat /\ end <= Len(wire) /\ beg < end
      /\ wire \in Seq(Nat) /\ Len(wire) \in Nat
      /\ rec.header \in Seq(Nat) /\ rec.content \in Seq(Nat) /\ rec.offset \in Nat
  BY <1>1, Decoding
<1>3. PICK k \in 1 .. Len(stream) : InRecord(k) /\ Sent(k)
  BY <1>1, Decoding
<1>4. /\ Wired' /\ Len(stream)' = Len(stream) /\ Len(wire)' = Len(wire)
      /\ Starts(k)' = Starts(k) /\ Encode(stream[k])' = Encode(stream[k])
  <2>1. k \in Nat
    OBVIOUS
  <2> QED BY <1>1, <1>2, <2>1, SameWire
<1> DEFINE h == Len(rec.header)
           byte == wire[beg + 1]
           bytes == Encode(stream[k])
           header == Append(rec.header, byte)
           here == Starts(k)
<1>5. /\ h \in Nat /\ h <= 7 /\ beg = here + h /\ here \in Nat
      /\ \A i \in 1 .. h : rec.header[i] = bytes[i]
      /\ rec.offset = 0 /\ rec.content = <<>>
      /\ (first_chunk <=> k = 1) /\ status = FALSE
  <2>1. /\ h \in Nat /\ h < 8 /\ rec.offset = 0 /\ rec.content = <<>>
        /\ beg = here + h + rec.offset
    BY <1>1, <1>2, <1>3 DEF InRecord, FCGI_HEADER_LEN
  <2>2. here \in Nat
    BY <1>2, Layout
  <2>3. /\ \A i \in 1 .. h : rec.header[i] = bytes[i]
        /\ first_chunk <=> k = 1
        /\ status = FALSE
    BY <1>2, <1>3 DEF InRecord, Common
  <2> HIDE DEF h, here
  <2>4. h <= 7 /\ beg = here + h
    BY <2>1, <2>2
  <2> QED BY <2>1, <2>2, <2>3, <2>4
<1>6. byte \in Nat /\ byte = bytes[h + 1]
  <2>1. byte \in Nat
    <3>1. beg + 1 \in 1 .. Len(wire)
      BY <1>2
    <3> QED BY <1>2, <3>1
  <2>2. \A i \in 1 .. 8 : wire[here + i] = bytes[i]
    BY <1>2, RecordFacts
  <2> HIDE DEF h, here, bytes
  <2>3. h + 1 \in 1 .. 8 /\ beg + 1 = here + (h + 1)
    BY <1>5
  <2> QED BY <2>1, <2>2, <2>3
<1>7. /\ header \in Seq(Nat) /\ Len(header) = h + 1
      /\ \A i \in 1 .. h + 1 : header[i] = bytes[i]
  <2>1. /\ header \in Seq(Nat) /\ Len(header) = h + 1
        /\ \A i \in 1 .. h : header[i] = rec.header[i]
        /\ header[h + 1] = byte
    <3> HIDE DEF byte
    <3> QED BY <1>2, <1>6
  <2> HIDE DEF header, h, byte, bytes
  <2>2. \A i \in 1 .. h + 1 : i \in 1 .. h \/ i = h + 1
    BY <1>5
  <2> QED BY <1>5, <1>6, <2>1, <2>2
<1>8. /\ rec' \in RecType /\ rec'.header = header
      /\ rec'.state = IF h = 7 THEN "content" ELSE "header"
      /\ rec'.offset = 0 /\ rec'.content = <<>>
  <2>1. rec \in RecType
    BY <1>2 DEF Common
  <2>2. rec' = [rec EXCEPT !.header = header,
                           !.state = IF h = 7 THEN "content" ELSE "header"]
    BY <1>1, <2>1 DEF RecType, FCGI_HEADER_LEN
  <2> HIDE DEF header, h
  <2> QED BY <1>5, <1>7, <2>1, <2>2 DEF RecType
<1>9. Common'
  <2>1. RecType' = RecType
    BY DEF RecType
  <2>2. /\ pc' \in {"wait", "decode"} /\ beg' \in Nat
        /\ pc' = "wait" => beg' = end
        /\ pc' = "decode" => beg' < end
    BY <1>1, <1>2
  <2>3. first_chunk' \in BOOLEAN /\ status' \in BOOLEAN
    BY <1>1, <1>2 DEF Common
  <2> QED BY <1>1, <1>2, <1>4, <1>8, <2>1, <2>2, <2>3 DEF Common
<1>10. InRecord(k)'
  <2> HIDE DEF header, bytes, here, h, byte
  <2>1. /\ Len(rec'.header) = h + 1 /\ h + 1 <= 8
        /\ beg' = here + (h + 1) + rec'.offset
        /\ \A i \in 1 .. Len(rec'.header) : rec'.header[i] = bytes[i]
    <3>1. Len(rec'.header) = h + 1
      BY <1>7, <1>8
    <3>2. \A i \in 1 .. Len(rec'.header) : rec'.header[i] = bytes[i]
      BY <1>7, <1>8
    <3>3. rec'.offset = 0 /\ beg' = beg + 1
      BY <1>1, <1>8
    <3>4. beg' = here + (h + 1) + rec'.offset
      BY <1>5, <3>3
    <3> QED BY <1>5, <3>1, <3>2, <3>4
  <2>2. /\ rec'.state = "header" => Len(rec'.header) < 8
        /\ rec'.state # "header" => Len(rec'.header) = 8
        /\ rec'.state # "padding"
    BY <1>5, <1>8, <2>1
  <2>3. SubSeq(stream'[k].content, 1, 0) = <<>>
    BY SubSeqEmpty
  <2>4. (first_chunk' <=> k = 1) /\ ~status'
    BY <1>1, <1>5
  <2>5. here' = here /\ bytes' = bytes
    BY <1>4 DEF here, bytes
  <2> QED BY <1>8, <2>1, <2>2, <2>3, <2>4, <2>5
          DEF InRecord, FCGI_HEADER_LEN, here, bytes
<1>11. Sent(k)'
  BY <1>1, <1>2, <1>3, SentStays
<1>12. k \in 1 .. Len(stream)'
  BY <1>4
<1> QED BY <1>9, <1>10, <1>11, <1>12 DEF DInv

\* fcgiProcessContent in the padding: beg_buf moves to the next record.
LEMMA PaddingStep ==
  ASSUME DInv, OnlyLastEnds(stream), SkipPadding
  PROVE  DInv'
<1>1. pc = "decode" /\ rec.state = "padding"
  BY DEF SkipPadding
<1>2. /\ Common /\ Wired /\ beg \in Nat /\ end \in Nat /\ rec.offset \in Nat
  BY <1>1, Decoding
<1>3. PICK k \in 1 .. Len(stream) : InRecord(k) /\ Sent(k)
  BY <1>1, Decoding
<1> DEFINE next == beg + fcgiHeaderGetContentLen(rec) - rec.offset + PaddingLength(rec)
<1>4. RecordDone(rec.content, next)
  BY DEF SkipPadding
<1>5. rec.content = stream[k].content /\ Starts(k + 1) <= end
  BY <1>1, <1>3 DEF InRecord
<1>6. next = Starts(k + 1)
  <2> DEFINE len == Len(stream[k].content)
             pad == stream[k].pad
             here == Starts(k)
             there == Starts(k + 1)
             off == rec.offset
  <2>1. /\ len \in Nat /\ pad \in Nat /\ here \in Nat
        /\ there = here + 8 + len + pad
    BY <1>2, RecordFacts
  <2>2. beg = here + 8 + off
    BY <1>1, <1>3 DEF InRecord, FCGI_HEADER_LEN
  <2>3. next = beg + len - off + pad
    BY <1>1, <1>2, <1>3, HeaderFacts
  <2> HIDE DEF len, pad, here, there, off, next
  <2>4. off \in Nat
    BY <1>2 DEF off
  <2>5. next = there
    BY <1>2, <2>1, <2>2, <2>3, <2>4
  <2> QED BY <2>5 DEF there
<1> HIDE DEF next
<1>7. next <= end
  BY <1>5, <1>6
<1>8. rec.state # "header"
  BY <1>1
<1> QED BY <1>1, <1>2, <1>3, <1>4, <1>5, <1>6, <1>7, <1>8, DoneStep

\* fcgiProcessContent in the content: the record is completed, or what the
\* block has of it is copied.
LEMMA ContentStep ==
  ASSUME DInv, OnlyLastEnds(stream), ProcessContent
  PROVE  DInv'
<1> DEFINE nb      == end - beg
           con_len == fcgiHeaderGetContentLen(rec) - rec.offset
           tot_len == con_len + PaddingLength(rec)
           cpy_len == IF con_len <= nb THEN con_len ELSE nb
           content == rec.content \o SubSeq(wire, beg + 1, beg + cpy_len)
           again   == [rec EXCEPT
                         !.state   = IF con_len <= nb THEN "padding" ELSE @,
                         !.content = content,
                         !.offset  = @ + nb]
<1>1. /\ pc = "decode" /\ rec.state = "content"
      /\ \/ tot_len <= nb /\ RecordDone(content, beg + tot_len)
         \/ tot_len > nb /\ RecordAgain(again)
  BY DEF ProcessContent
<1>2. /\ Common /\ Wired
      /\ beg \in Nat /\ end \in Nat /\ end <= Len(wire) /\ beg < end
      /\ wire \in Seq(Nat) /\ Len(wire) \in Nat
      /\ rec.header \in Seq(Nat) /\ rec.offset \in Nat
  BY <1>1, Decoding
<1>3. PICK k \in 1 .. Len(stream) : InRecord(k) /\ Sent(k)
  BY <1>1, Decoding
<1> DEFINE whole == stream[k].content
           len == Len(whole)
           pad == stream[k].pad
           here == Starts(k)
           there == Starts(k + 1)
           off == rec.offset
<1>4. /\ whole \in Seq(Nat) /\ len \in Nat /\ pad \in Nat /\ here \in Nat
      /\ there = here + 8 + len + pad
      /\ \A i \in 1 .. len : wire[here + 8 + i] = whole[i]
  BY <1>2, RecordFacts
<1>5. con_len = len - off /\ tot_len = con_len + pad
  BY <1>1, <1>2, <1>3, HeaderFacts
<1>6. /\ Len(rec.header) = 8 /\ beg = here + 8 + off
      /\ (off = 0 \/ off < len) /\ rec.content = SubSeq(whole, 1, off)
  BY <1>1, <1>3 DEF InRecord, FCGI_HEADER_LEN
<1> HIDE DEF whole, len, pad, here, there, off, con_len, tot_len, again, content
<1>7. off \in Nat /\ off <= len
  <2>1. off \in Nat
    BY <1>2 DEF off
  <2> QED BY <1>4, <1>6, <2>1
<1>8. /\ con_len \in Nat /\ nb \in Nat /\ cpy_len \in Nat
      /\ cpy_len <= con_len /\ cpy_len <= nb
      /\ off + cpy_len <= len /\ beg + cpy_len <= Len(wire)
  BY <1>2, <1>4, <1>5, <1>7
<1> HIDE DEF cpy_len
<1>9. content = SubSeq(whole, 1, off + cpy_len)
  <2>1. \A i \in 1 .. cpy_len : wire[beg + i] = whole[off + i]
    <3> SUFFICES ASSUME NEW i \in 1 .. cpy_len
                 PROVE  wire[beg + i] = whole[off + i]
      OBVIOUS
    <3>1. off + i \in 1 .. len /\ beg + i = here + 8 + (off + i)
      BY <1>4, <1>6, <1>7, <1>8
    <3> QED BY <1>4, <3>1
  <2>2. off + cpy_len <= Len(whole)
    BY <1>8 DEF len
  <2>3. SubSeq(whole, 1, off) \o SubSeq(wire, beg + 1, beg + cpy_len)
          = SubSeq(whole, 1, off + cpy_len)
    <3>1. whole \in Seq(Nat) /\ wire \in Seq(Nat)
      BY <1>2, <1>4
    <3>2. off \in Nat /\ cpy_len \in Nat /\ beg \in Nat
      BY <1>2, <1>7, <1>8
    <3>3. beg + cpy_len <= Len(wire)
      BY <1>8
    <3> QED BY <2>1, <2>2, <3>1, <3>2, <3>3, CopyStep, ZenonT(60)
  <2> QED BY <1>6, <2>3 DEF content
<1>10. con_len <= nb => content = whole
  <2>1. ASSUME con_len <= nb
        PROVE  off + cpy_len = len
    BY <1>5, <1>4, <1>7, <2>1 DEF cpy_len
  <2>2. SubSeq(whole, 1, Len(whole)) = whole
    BY <1>4, SubSeqFull
  <2> QED BY <1>9, <2>1, <2>2 DEF len
<1>11. CASE tot_len <= nb /\ RecordDone(content, beg + tot_len)
  <2> DEFINE next == beg + tot_len
  <2>1. next = there /\ next <= end /\ con_len <= nb
    BY <1>2, <1>4, <1>5, <1>6, <1>7, <1>8, <1>11
  <2>2. content = stream[k].content
    BY <1>10, <2>1 DEF whole
  <2>3. next = Starts(k + 1) /\ next <= end /\ RecordDone(content, next)
    BY <1>11, <2>1 DEF there
  <2>4. rec.state # "header"
    BY <1>1
  <2> HIDE DEF next
  <2> QED BY <1>1, <1>2, <1>3, <2>2, <2>3, <2>4, DoneStep
<1>12. CASE tot_len > nb /\ RecordAgain(again)
  <2>1. /\ rec' = again /\ beg' = end /\ pc' = "wait" /\ status' = FALSE
        /\ UNCHANGED <<stream, wire, end, first_chunk, output>>
    BY <1>12 DEF RecordAgain
  <2>2. /\ Wired' /\ Len(stream)' = Len(stream) /\ Len(wire)' = Len(wire)
        /\ Starts(k)' = Starts(k) /\ Encode(stream[k])' = Encode(stream[k])
    <3>1. k \in Nat
      OBVIOUS
    <3> QED BY <1>2, <2>1, <3>1, SameWire
  <2>3. content \in Seq(Nat)
    <3>1. \A i \in 1 .. off + cpy_len : whole[i] \in Nat
      <4>1. \A i \in 1 .. len : whole[i] \in Nat
        BY <1>4 DEF len
      <4> QED BY <1>4, <1>7, <1>8, <4>1
    <3>2. 1 \in Int /\ off + cpy_len \in Int
      BY <1>7, <1>8
    <3> QED BY <1>9, <3>1, <3>2, SubSeqProperties
  <2>4. /\ rec' \in RecType /\ rec'.header = rec.header
        /\ rec'.state = IF con_len <= nb THEN "padding" ELSE "content"
        /\ rec'.content = content /\ rec'.offset = off + nb
    <3>1. rec \in RecType
      BY <1>2 DEF Common
    <3>2. rec' = [rec EXCEPT !.state   = IF con_len <= nb THEN "padding" ELSE "content",
                             !.content = content,
                             !.offset  = off + nb]
      BY <1>1, <2>1, <3>1 DEF again, off, RecType
    <3>3. off + nb \in Nat
      BY <1>7, <1>8
    <3> HIDE DEF nb
    <3> QED BY <2>3, <3>1, <3>2, <3>3 DEF RecType
  <2>5. Common'
    <3>1. RecType' = RecType
      BY DEF RecType
    <3>2. first_chunk' \in BOOLEAN /\ status' \in BOOLEAN
      BY <1>2, <2>1 DEF Common
    <3> QED BY <1>2, <2>1, <2>2, <2>4, <3>1, <3>2 DEF Common
  <2>6. InRecord(k)'
    <3>1. /\ Len(rec'.header) = 8
          /\ \A i \in 1 .. Len(rec'.header) : rec'.header[i] = Encode(stream'[k])[i]
      BY <1>3, <1>6, <2>2, <2>4 DEF InRecord
    <3>2. beg' = here + 8 + rec'.offset
      BY <1>2, <1>4, <1>6, <1>7, <2>1, <2>4
    <3>3. rec'.state \in {"content", "padding"}
      BY <2>4
    <3>4. ASSUME rec'.state = "content"
          PROVE  /\ rec'.offset < len
                 /\ rec'.content = SubSeq(whole, 1, rec'.offset)
      <4>1. ~(con_len <= nb)
        BY <2>4, <3>4
      <4>2. cpy_len = nb
        BY <4>1 DEF cpy_len
      <4>3. rec'.offset = off + cpy_len /\ rec'.content = SubSeq(whole, 1, off + cpy_len)
        BY <1>9, <2>4, <4>2
      <4>4. off + nb < len
        BY <1>4, <1>5, <1>7, <1>8, <4>1
      <4> QED BY <4>2, <4>3, <4>4
    <3>5. ASSUME rec'.state = "padding"
          PROVE  /\ len <= rec'.offset /\ rec'.offset < len + pad
                 /\ rec'.content = whole
      <4>1. con_len <= nb
        BY <2>4, <3>5
      <4>2. len <= off + nb /\ off + nb < len + pad
        BY <1>4, <1>5, <1>7, <1>8, <1>12, <4>1
      <4> QED BY <1>10, <2>4, <4>1, <4>2
    <3>6. (first_chunk' <=> k = 1) /\ ~status'
      BY <1>3, <2>1 DEF InRecord
    <3>7. stream'[k].content = whole /\ stream'[k].pad = pad
      BY <2>1 DEF whole, pad
    <3> QED BY <2>1, <2>2, <3>1, <3>2, <3>3, <3>4, <3>5, <3>6, <3>7
            DEF InRecord, FCGI_HEADER_LEN, here, len
  <2>7. Sent(k)'
    BY <1>2, <1>3, <2>1, SentStays
  <2>8. k \in 1 .. Len(stream)'
    BY <2>2
  <2> QED BY <2>5, <2>6, <2>7, <2>8 DEF DInv
<1> QED BY <1>1, <1>11, <1>12

-----------------------------------------------------------------------------
(***************************************************************************)
(* What the invariant says of the output.                                  *)
(***************************************************************************)

\* The same in front of a prefix and of the whole.
LEMMA PrefixConcat ==
  ASSUME NEW S, NEW l \in Seq(S), NEW a \in Seq(S), NEW b \in Seq(S),
         Len(a) <= Len(b), \A i \in 1 .. Len(a) : b[i] = a[i]
  PROVE  IsPrefix(l \o a, l \o b)
<1> DEFINE la == l \o a
           lb == l \o b
           n == Len(la)
<1>1. Len(l) \in Nat /\ Len(a) \in Nat /\ Len(b) \in Nat
  OBVIOUS
<1>2. /\ la \in Seq(S) /\ Len(la) = Len(l) + Len(a)
      /\ \A i \in 1 .. Len(l) + Len(a) : la[i] = IF i <= Len(l) THEN l[i] ELSE a[i - Len(l)]
  BY ConcatProperties
<1>3. /\ lb \in Seq(S) /\ Len(lb) = Len(l) + Len(b)
      /\ \A i \in 1 .. Len(l) + Len(b) : lb[i] = IF i <= Len(l) THEN l[i] ELSE b[i - Len(l)]
  BY ConcatProperties
<1> HIDE DEF la, lb
<1>4. Len(la) <= Len(lb) /\ n \in Nat /\ 0 \in Nat
  BY <1>1, <1>2, <1>3
<1>5. \A i \in 1 .. n : lb[i] = la[i]
  <2> SUFFICES ASSUME NEW i \in 1 .. n
               PROVE  lb[i] = la[i]
    OBVIOUS
  <2>1. CASE i <= Len(l)
    <3>1. i \in 1 .. Len(l) + Len(a) /\ i \in 1 .. Len(l) + Len(b)
      BY <1>1, <1>2
    <3> QED BY <1>2, <1>3, <2>1, <3>1
  <2>2. CASE ~(i <= Len(l))
    <3>1. i - Len(l) \in 1 .. Len(a)
      BY <1>1, <1>2, <2>2
    <3>2. i \in 1 .. Len(l) + Len(a) /\ i \in 1 .. Len(l) + Len(b)
      BY <1>1, <1>2
    <3> QED BY <1>2, <1>3, <2>2, <3>1, <3>2
  <2> QED BY <2>1, <2>2
<1>6. SubSeq(la, 1, n) = la
  BY <1>2, SubSeqFull
<1>9. n = Len(la)
  OBVIOUS
<1> HIDE DEF n
<1>7. SubSeq(lb, 1, n) = la
  <2>1. \A i \in 1 .. n : lb[i] \in S
    <3>1. \A i \in 1 .. Len(lb) : lb[i] \in S
      BY <1>3
    <3>2. n <= Len(lb) /\ Len(lb) \in Nat
      BY <1>1, <1>3, <1>4, <1>9
    <3> QED BY <1>4, <3>1, <3>2
  <2> DEFINE u == SubSeq(lb, 1, n)
  <2>2. /\ u \in Seq(S) /\ Len(u) = (IF 1 <= n THEN n - 1 + 1 ELSE 0)
        /\ \A i \in 1 .. n - 1 + 1 : u[i] = lb[1 + i - 1]
    <3>1. 1 \in Int /\ n \in Int
      BY <1>4
    <3> HIDE DEF u
    <3> QED BY <2>1, <3>1, SubSeqProperties DEF u
  <2> HIDE DEF u
  <2>3. Len(u) = n /\ \A i \in 1 .. n : u[i] = lb[i]
    BY <1>4, <2>2
  <2>4. Len(u) = Len(la) /\ \A i \in 1 .. Len(u) : u[i] = la[i]
    BY <1>5, <1>9, <2>3
  <2>5. u = la
    BY <1>2, <2>2, <2>4, SeqEqual
  <2> QED BY <2>5 DEF u
<1>8. IsPrefix(la, lb)
  BY <1>4, <1>6, <1>7, <1>9 DEF IsPrefix
<1> QED BY <1>8 DEF la, lb

\* What has been sent is the beginning of what is to come.
LEMMA SentPrefix ==
  ASSUME Wired, NEW k \in 1 .. Len(stream) + 1, Sent(k), stream # <<>>
  PROVE  \E line \in StatusLine(stream[1].content) :
           /\ IsPrefix(output, line \o Reference)
           /\ k = Len(stream) + 1 => output = line \o Reference
<1>1. /\ Len(stream) \in Nat \ {0} /\ stream[1].content \in Seq(Nat)
  <2>1. /\ stream \in Seq(Records)
        /\ \A j \in 1 .. Len(stream) : stream[j] \in Records
    BY EncodedType
  <2>2. Len(stream) \in Nat \ {0}
    BY <2>1
  <2>3. stream[1] \in Records
    BY <2>1, <2>2
  <2> QED BY <2>2, <2>3 DEF Records
<1>2. /\ Results \in Seq(Seq(Int)) /\ Len(Results) = Len(stream)
      /\ Flat(Results, Len(stream)) = Reference
  BY ResultsType
<1>3. k - 1 \in 0 .. Len(Results) /\ Len(Results) \in (k - 1) .. Len(Results)
  BY <1>1, <1>2
<1> DEFINE part == Flat(Results, k - 1)
<1>4. \E line \in StatusLine(stream[1].content) :
        output = line \o part \/ (k = 1 /\ output = <<>>)
  <2>1. CASE k = 1
    <3>1. \E line : line \in StatusLine(stream[1].content)
      BY Zenon DEF StatusLine
    <3>2. output = <<>>
      BY <2>1 DEF Sent
    <3> HIDE DEF part
    <3> QED BY <2>1, <3>1, <3>2
  <2>2. CASE k # 1
    BY <2>2 DEF Sent
  <2> QED BY <2>1, <2>2
<1>5. PICK line \in StatusLine(stream[1].content) :
        output = line \o part \/ (k = 1 /\ output = <<>>)
  BY <1>4
<1>6. line \in Seq(Int)
  BY <1>1, DeliveredType
<1>7. /\ part \in Seq(Int) /\ Reference \in Seq(Int)
      /\ Len(part) <= Len(Reference)
      /\ \A i \in 1 .. Len(part) : Reference[i] = part[i]
  <2>1. part \in Seq(Int) /\ Flat(Results, Len(Results)) \in Seq(Int)
    BY <1>2, <1>3, FlatType
  <2>2. /\ Len(part) <= Len(Flat(Results, Len(Results)))
        /\ \A i \in 1 .. Len(part) : Flat(Results, Len(Results))[i] = part[i]
    BY <1>2, <1>3, FlatPrefix
  <2> HIDE DEF part
  <2> QED BY <1>2, <2>1, <2>2
<1>8. CASE output = line \o part
  <2>1. IsPrefix(output, line \o Reference)
    <3> HIDE DEF part
    <3>1. IsPrefix(line \o part, line \o Reference)
      BY <1>6, <1>7, PrefixConcat
    <3> QED BY <1>8, <3>1
  <2>2. k = Len(stream) + 1 => part = Reference
    <3>1. k = Len(stream) + 1 => k - 1 = Len(stream)
      BY <1>1
    <3> QED BY <1>2, <3>1
  <2> QED BY <1>8, <2>1, <2>2
<1>9. CASE k = 1 /\ output = <<>>
  <2> DEFINE all == line \o Reference
  <2>1. all \in Seq(Int)
    BY <1>6, <1>7, ConcatProperties
  <2> HIDE DEF all
  <2>2. IsPrefix(<<>>, all)
    <3>1. Len(all) \in Nat /\ Len(<<>>) = 0
      BY <2>1
    <3>2. SubSeq(all, 1, 0) = <<>> /\ SubSeq(<<>>, 1, 0) = <<>>
      BY SubSeqEmpty
    <3> QED BY <3>1, <3>2 DEF IsPrefix
  <2>3. k # Len(stream) + 1
    BY <1>1, <1>9
  <2> QED BY <1>9, <2>2, <2>3 DEF all
<1> QED BY <1>5, <1>8, <1>9

-----------------------------------------------------------------------------
(***************************************************************************)
(* The theorems.                                                           *)
(***************************************************************************)

\* What the application has to keep to: one record ends the response, and the
\* padding of a record fits a block.
WellFormed == \A s \in Streams : OnlyLastEnds(s) /\ PaddingFits(s)

\* The record that ends the response has a byte behind its header. The body of
\* an END_REQUEST has 8.
EndsWithBytes(s) == Len(s[Len(s)].content) + s[Len(s)].pad > 0

\* The decoder starts in the first record.
LEMMA DInvInit ==
  ASSUME Init, WellFormed
  PROVE  DInv
<1>1. Wired
  BY DEF Init, Wired, Encoded
<1>2. Len(stream) \in Nat /\ 1 \in 1 .. Len(stream)
  <2>1. stream \in Seq(Records)
    BY <1>1, EncodedType
  <2>2. stream # <<>>
    BY <1>1 DEF Wired, WellFormed, OnlyLastEnds
  <2>3. Len(stream) \in Nat \ {0}
    BY <2>1, <2>2, EmptySeq
  <2>4. \A m \in Nat \ {0} : m \in Nat /\ 1 \in 1 .. m
    OBVIOUS
  <2> QED BY <2>3, <2>4, Zenon
<1>3. Starts(1) = 0 /\ wire \in Seq(Nat)
  BY <1>1, Layout
<1>4. rec \in RecType
  BY DEF Init, NewRecord, RecType
<1>5. Common
  <2>1. beg \in Nat /\ end \in Nat /\ end <= Len(wire) /\ beg = end
    <3>1. Len(wire) \in Nat
      BY <1>3
    <3>2. beg = 0 /\ end = 0
      BY DEF Init
    <3> QED BY <3>1, <3>2
  <2>2. pc = "wait" /\ first_chunk \in BOOLEAN /\ status \in BOOLEAN
    BY DEF Init
  <2> QED BY <1>1, <1>4, <2>1, <2>2 DEF Common
<1>6. InRecord(1)
  <2>1. /\ rec.state = "header" /\ rec.header = <<>> /\ Len(rec.header) = 0
        /\ rec.offset = 0 /\ rec.content = <<>>
    BY DEF Init, NewRecord
  <2> QED BY <1>3, <2>1 DEF Init, InRecord, FCGI_HEADER_LEN
<1>7. Sent(1)
  BY DEF Init, Sent
<1> QED BY <1>2, <1>5, <1>6, <1>7 DEF DInv

\* Every step keeps it in a record or at the end.
LEMMA DInvStep ==
  ASSUME DInv, WellFormed, [Next]_vars
  PROVE  DInv'
<1>1. stream \in Streams
  BY DEF DInv, Common, Wired
<1>2. OnlyLastEnds(stream) /\ PaddingFits(stream)
  BY <1>1 DEF WellFormed
<1>3. CASE \E n \in BlockSizes : Block(n)
  BY <1>2, <1>3, BlockStep
<1>4. CASE ProcessHeader
  BY <1>4, HeaderStep
<1>5. CASE ProcessContent
  BY <1>2, <1>5, ContentStep
<1>6. CASE SkipPadding
  BY <1>2, <1>6, PaddingStep
<1>7. CASE UNCHANGED vars
  <2>1. /\ stream' = stream /\ wire' = wire /\ beg' = beg /\ end' = end
        /\ pc' = pc /\ rec' = rec /\ first_chunk' = first_chunk
        /\ output' = output /\ status' = status
    BY <1>7 DEF vars
  <2>2. Common /\ Wired
    BY DEF DInv, Common
  <2>3. /\ Wired' /\ Len(stream)' = Len(stream) /\ Len(wire)' = Len(wire)
        /\ \A k \in Nat : Starts(k)' = Starts(k)
        /\ \A k \in Nat : Encode(stream[k])' = Encode(stream[k])
    BY <2>1, <2>2, SameWire
  <2>4. Common'
    <3>1. RecType' = RecType
      BY DEF RecType
    <3> QED BY <2>1, <2>2, <2>3, <3>1 DEF Common
  <2>5. ASSUME NEW k \in 1 .. Len(stream), InRecord(k), Sent(k)
        PROVE  k \in 1 .. Len(stream)' /\ InRecord(k)' /\ Sent(k)'
    <3>1. k \in Nat /\ k + 1 \in Nat
      OBVIOUS
    <3>2. /\ Starts(k)' = Starts(k) /\ Starts(k + 1)' = Starts(k + 1)
          /\ Encode(stream[k])' = Encode(stream[k])
      BY <2>3, <3>1
    <3>3. InRecord(k)'
      BY <2>1, <2>5, <3>2 DEF InRecord
    <3>4. Sent(k)'
      BY <2>1, <2>2, <2>5, SentStays
    <3> QED BY <2>3, <3>3, <3>4
  <2>6. ASSUME AtEnd, Sent(Len(stream) + 1)
        PROVE  AtEnd' /\ Sent(Len(stream) + 1)'
    <3>1. AtEnd'
      BY <2>1, <2>6 DEF AtEnd, NewRecord
    <3> DEFINE n == Len(stream) + 1
    <3>2. PICK m : m = n
      OBVIOUS
    <3>3. Sent(m)
      BY <2>6, <3>2
    <3>4. Sent(m)'
      BY <2>1, <2>2, <3>3, SentStays
    <3>5. m = n'
      BY <2>3, <3>2
    <3> QED BY <3>1, <3>4, <3>5
  <2>7. CASE \E k \in 1 .. Len(stream) : InRecord(k) /\ Sent(k)
    BY <2>4, <2>5, <2>7 DEF DInv
  <2>8. CASE AtEnd /\ Sent(Len(stream) + 1)
    BY <2>4, <2>6, <2>8 DEF DInv
  <2> QED BY <2>7, <2>8 DEF DInv
<1> QED BY <1>3, <1>4, <1>5, <1>6, <1>7 DEF Next

\* The invariant holds throughout.
LEMMA DInvAlways ==
  ASSUME WellFormed
  PROVE  Spec => []DInv
<1>1. Init => DInv
  BY DInvInit
<1>2. DInv /\ [Next]_vars => DInv'
  BY DInvStep
<1> QED BY <1>1, <1>2, PTL DEF Spec

\* fcgiProcessBuffer does not pass the end of a block that is as long as the
\* padding, and whatever the blocks are: this is what skipping the padding as
\* a whole relies on.
THEOREM NeverOverrun ==
  ASSUME WellFormed
  PROVE  Spec => []WithinBlock
<1>1. DInv => WithinBlock
  BY DEF DInv, Common, WithinBlock
<1> QED BY <1>1, DInvAlways, PTL

\* fcgiProcessRecord takes a record to start where the application started one.
THEOREM StaysInSync ==
  ASSUME WellFormed
  PROVE  Spec => []InSync
<1>1. ASSUME DInv, rec = NewRecord
      PROVE  \E k \in 1 .. Len(stream) + 1 : beg = Starts(k)
  <2>1. Common /\ Wired
    BY <1>1 DEF DInv, Common
  <2>2. Len(stream) \in Nat /\ Starts(Len(stream) + 1) = Len(wire)
    BY <2>1, EncodedType, Layout
  <2>3. CASE AtEnd
    <3>1. beg = Starts(Len(stream) + 1)
      BY <2>2, <2>3 DEF AtEnd
    <3>2. Len(stream) + 1 \in 1 .. Len(stream) + 1
      BY <2>2
    <3> QED BY <3>1, <3>2
  <2>4. ASSUME NEW k \in 1 .. Len(stream), InRecord(k)
        PROVE  beg = Starts(k) /\ k \in 1 .. Len(stream) + 1
    <3>1. Len(rec.header) = 0 /\ rec.offset = 0
      BY <1>1 DEF NewRecord
    <3>2. Starts(k) \in Nat
      BY <2>1, Layout
    <3>3. beg = Starts(k)
      BY <2>4, <3>1, <3>2 DEF InRecord
    <3> QED BY <2>2, <3>3
  <2> QED BY <1>1, <2>3, <2>4 DEF DInv
<1>2. DInv => InSync
  BY <1>1 DEF InSync
<1> QED BY <1>2, DInvAlways, PTL

\* What is left of the response while the decoder is in a record.
LEMMA NotAtTheEnd ==
  ASSUME Common, NEW k \in 1 .. Len(stream), InRecord(k),
         EndsWithBytes(stream)
  PROVE  beg < Len(wire)
<1>1. Wired
  BY DEF Common
<1> DEFINE n == Len(stream)
           len == Len(stream[k].content)
           pad == stream[k].pad
           here == Starts(k)
           there == Starts(k + 1)
           h == Len(rec.header)
           off == rec.offset
<1>2. /\ len \in Nat /\ pad \in Nat /\ here \in Nat /\ there \in Nat
      /\ there = here + 8 + len + pad /\ there <= Len(wire) /\ Len(wire) \in Nat
  BY <1>1, RecordFacts
<1>3. k # n => there < Len(wire)
  <2> SUFFICES ASSUME k # n
               PROVE  there < Len(wire)
    OBVIOUS
  <2>1. n \in Nat
    BY <1>1, EncodedType
  <2>2. k + 1 \in 1 .. n
    BY <2>1
  <2> DEFINE len2 == Len(stream[k + 1].content)
             pad2 == stream[k + 1].pad
             there2 == Starts((k + 1) + 1)
  <2>3. /\ len2 \in Nat /\ pad2 \in Nat /\ there2 \in Nat
        /\ there2 = there + 8 + len2 + pad2 /\ there2 <= Len(wire)
    BY <1>1, <2>2, RecordFacts
  <2> HIDE DEF n, len, pad, here, there, len2, pad2, there2
  <2> QED BY <1>2, <2>3
<1>4. k = n => len + pad > 0
  BY DEF EndsWithBytes
<1>5. /\ h \in Nat /\ h <= 8 /\ off \in Nat /\ beg = here + h + off
      /\ rec.state = "header" => h < 8 /\ off = 0
      /\ rec.state = "content" => h = 8 /\ (off = 0 \/ off < len)
      /\ rec.state = "padding" => h = 8 /\ off < len + pad
      /\ rec.state \in {"header", "content", "padding"}
  <2>1. h \in Nat /\ off \in Nat /\ rec.state \in {"header", "content", "padding"}
    BY DEF Common, RecType
  <2> QED BY <2>1 DEF InRecord, FCGI_HEADER_LEN
<1> HIDE DEF n, len, pad, here, there, h, off
<1>6. CASE rec.state = "header"
  BY <1>2, <1>5, <1>6
<1>7. CASE rec.state = "content"
  <2>1. off = 0 \/ off < len
    BY <1>5, <1>7
  <2>2. CASE k = n
    BY <1>2, <1>4, <1>5, <1>7, <2>1, <2>2
  <2>3. CASE k # n
    BY <1>2, <1>3, <1>5, <1>7, <2>1, <2>3
  <2> QED BY <2>2, <2>3
<1>8. CASE rec.state = "padding"
  BY <1>2, <1>5, <1>8
<1> QED BY <1>5, <1>6, <1>7, <1>8

\* fcgiDecodeRecordChunk: wherever the blocks end, the output is the content of
\* the records so far, in order, after at most one status line, and the end of
\* the response is reported with its last byte.
THEOREM DecodesEveryStream ==
  ASSUME WellFormed, \A s \in Streams : EndsWithBytes(s)
  PROVE  Spec => []DecodesStream
<1>1. ASSUME DInv
      PROVE  DecodesStream
  <2>1. Common /\ Wired /\ stream \in Streams
    BY <1>1 DEF DInv, Common, Wired
  <2>2. stream # <<>> /\ EndsWithBytes(stream)
    BY <2>1 DEF WellFormed, OnlyLastEnds
  <2>3. Len(stream) \in Nat /\ wire \in Seq(Nat)
    BY <2>1, EncodedType, Layout
  <2>4. pc = "wait" => beg = end
    BY <2>1 DEF Common
  <2>5. CASE AtEnd /\ Sent(Len(stream) + 1)
    <3>1. Len(stream) + 1 \in 1 .. Len(stream) + 1
      BY <2>3
    <3>2. PICK line \in StatusLine(stream[1].content) :
            IsPrefix(output, line \o Reference) /\ output = line \o Reference
      BY <2>1, <2>2, <2>5, <3>1, SentPrefix
    <3>3. status /\ end = Len(wire)
      BY <2>4, <2>5 DEF AtEnd
    <3> QED BY <3>2, <3>3 DEF DecodesStream
  <2>6. ASSUME NEW k \in 1 .. Len(stream), InRecord(k), Sent(k)
        PROVE  DecodesStream
    <3>1. k \in 1 .. Len(stream) + 1
      BY <2>3
    <3>2. PICK line \in StatusLine(stream[1].content) :
            IsPrefix(output, line \o Reference)
      BY <2>1, <2>2, <2>6, <3>1, SentPrefix
    <3>3. beg < Len(wire)
      BY <2>1, <2>2, <2>6, NotAtTheEnd
    <3>4. ~status
      BY <2>6 DEF InRecord
    <3>5. pc = "wait" => end # Len(wire)
      BY <2>1, <2>3, <2>4, <3>3 DEF Common
    <3> QED BY <3>2, <3>4, <3>5 DEF DecodesStream
  <2> QED BY <1>1, <2>5, <2>6 DEF DInv
<1> QED BY <1>1, DInvAlways, PTL

-----------------------------------------------------------------------------
(***************************************************************************)
(* Type correctness, of any responses in any blocks: the decoder keeps its *)
(* state in order even where it has lost the records.                      *)
(***************************************************************************)

Positions ==
  /\ wire \in Seq(Nat) /\ Len(wire) \in Nat
  /\ beg \in Nat /\ end \in Nat /\ end <= Len(wire)
  /\ pc \in {"wait", "decode", "overrun"}
  /\ pc = "decode" => beg < end
  /\ first_chunk \in BOOLEAN /\ status \in BOOLEAN

RecordOK ==
  /\ rec \in RecType
  /\ rec.state = "header" => Len(rec.header) < 8 /\ rec.offset = 0
  /\ rec.state # "header" => Len(rec.header) = 8
  /\ rec.state = "content" =>
       rec.offset = 0 \/ rec.offset < fcgiHeaderGetContentLen(rec)
  /\ rec.state = "padding" =>
       rec.offset < fcgiHeaderGetContentLen(rec) + PaddingLength(rec)

TInv == Positions /\ RecordOK

\* The lengths that a whole header states.
LEMMA LengthTypes ==
  ASSUME rec \in RecType, Len(rec.header) = 8
  PROVE  fcgiHeaderGetContentLen(rec) \in Nat /\ PaddingLength(rec) \in Nat
<1>1. rec.header \in Seq(Nat)
  BY DEF RecType
<1>2. rec.header[5] \in Nat /\ rec.header[6] \in Nat /\ rec.header[7] \in Nat
  BY <1>1
<1> QED BY <1>2 DEF fcgiHeaderGetContentLen, PaddingLength

\* The steps, one by one, as in the proof of the invariant.
LEMMA TDoneStep ==
  ASSUME TInv, NEW content, NEW next \in Nat, RecordDone(content, next)
  PROVE  TInv'
<1> DEFINE last == Type(rec) \in {FCGI_STDERR, FCGI_END_REQUEST}
<1>1. /\ first_chunk' = FALSE /\ rec' = NewRecord /\ beg' = next
      /\ pc' = CASE last \/ next = end -> "wait"
                 [] ~last /\ next > end -> "overrun"
                 [] OTHER -> "decode"
      /\ status' = IF pc' = "wait" THEN last ELSE status
      /\ wire' = wire /\ end' = end
  BY DEF RecordDone
<1>2. last \in BOOLEAN
  OBVIOUS
<1> HIDE DEF last
<1>3. /\ wire \in Seq(Nat) /\ Len(wire) \in Nat /\ end \in Nat
      /\ end <= Len(wire) /\ status \in BOOLEAN
  BY DEF TInv, Positions
<1>4. /\ pc' \in {"wait", "decode", "overrun"}
      /\ pc' = "decode" => next < end
  <2>1. CASE last \/ next = end
    BY <1>1, <2>1
  <2>2. CASE ~last /\ next > end
    BY <1>1, <1>3, <2>2
  <2>3. CASE ~last /\ next # end /\ ~(next > end)
    <3>1. next < end
      BY <1>3, <2>3
    <3> QED BY <1>1, <2>3, <3>1
  <2> QED BY <1>2, <2>1, <2>2, <2>3
<1>5. status' \in BOOLEAN
  BY <1>1, <1>2, <1>3
<1>6. /\ rec' \in RecType /\ rec'.state = "header"
      /\ Len(rec'.header) = 0 /\ rec'.offset = 0
  BY <1>1 DEF NewRecord, RecType
<1>7. RecType' = RecType
  BY DEF RecType
<1>8. Positions'
  BY <1>1, <1>3, <1>4, <1>5 DEF Positions
<1>9. RecordOK'
  BY <1>6, <1>7 DEF RecordOK
<1> QED BY <1>8, <1>9 DEF TInv

\* A header has no more than 8 bytes.
LEMMA THeaderStep ==
  ASSUME TInv, ProcessHeader
  PROVE  TInv'
<1> DEFINE byte == wire[beg + 1]
           header == Append(rec.header, byte)
           h == Len(rec.header)
<1>1. /\ pc = "decode" /\ rec.state = "header"
      /\ rec' = [rec EXCEPT !.header = header,
                            !.state = IF h = FCGI_HEADER_LEN - 1
                                      THEN "content" ELSE @]
      /\ beg' = beg + 1
      /\ pc' = IF beg' = end THEN "wait" ELSE "decode"
      /\ status' = (status /\ beg' # end)
      /\ UNCHANGED <<stream, wire, end, first_chunk, output>>
  BY DEF ProcessHeader
<1>2. /\ wire \in Seq(Nat) /\ Len(wire) \in Nat
      /\ beg \in Nat /\ end \in Nat /\ end <= Len(wire) /\ beg < end
      /\ rec \in RecType /\ h < 8 /\ rec.offset = 0
  BY <1>1 DEF TInv, Positions, RecordOK
<1>3. rec.header \in Seq(Nat) /\ h \in Nat
  BY <1>2 DEF RecType
<1>4. byte \in Nat
  <2>1. beg + 1 \in 1 .. Len(wire)
    BY <1>2
  <2> QED BY <1>2, <2>1
<1>5. header \in Seq(Nat) /\ Len(header) = h + 1
  <2> HIDE DEF byte
  <2> QED BY <1>3, <1>4
<1> HIDE DEF header, byte
<1>6. /\ rec' \in RecType /\ rec'.header = header /\ rec'.offset = 0
      /\ rec'.state = IF h = 7 THEN "content" ELSE "header"
  <2> DEFINE state == IF h = 7 THEN "content" ELSE "header"
  <2>1. rec' = [rec EXCEPT !.header = header, !.state = state]
    BY <1>1, <1>2 DEF FCGI_HEADER_LEN, RecType
  <2>2. state \in {"content", "header"}
    OBVIOUS
  <2> HIDE DEF h, state
  <2>3. /\ rec' \in RecType /\ rec'.header = header /\ rec'.offset = 0
        /\ rec'.state = state
    BY <1>2, <1>5, <2>1, <2>2 DEF RecType
  <2> QED BY <2>3 DEF state, h
<1>7. /\ rec'.state = "header" => Len(rec'.header) < 8
      /\ rec'.state # "header" => Len(rec'.header) = 8
      /\ rec'.state # "padding"
  <2> DEFINE state == rec'.state
             len == Len(rec'.header)
  <2>1. state = (IF h = 7 THEN "content" ELSE "header") /\ len = h + 1
    BY <1>5, <1>6
  <2>2. h \in Nat /\ h < 8
    BY <1>2, <1>3
  <2> HIDE DEF h, state, len
  <2>3. /\ state = "header" => len < 8
        /\ state # "header" => len = 8
        /\ state # "padding"
    BY <2>1, <2>2
  <2> QED BY <2>3 DEF state, len
<1>8. RecType' = RecType
  BY DEF RecType
<1>9. beg' \in Nat /\ (pc' = "decode" => beg' < end) /\ pc' \in {"wait", "decode"}
  BY <1>1, <1>2
<1>10. first_chunk' \in BOOLEAN /\ status' \in BOOLEAN
  BY <1>1 DEF TInv, Positions
<1>11. Positions'
  BY <1>1, <1>2, <1>9, <1>10 DEF Positions
<1>12. RecordOK'
  BY <1>6, <1>7, <1>8 DEF RecordOK
<1> QED BY <1>11, <1>12 DEF TInv

\* What is left of a record is never less than nothing, whatever lengths its
\* header states.
LEMMA TContentStep ==
  ASSUME TInv, ProcessContent
  PROVE  TInv'
<1> DEFINE nb      == end - beg
           con_len == fcgiHeaderGetContentLen(rec) - rec.offset
           tot_len == con_len + PaddingLength(rec)
           cpy_len == IF con_len <= nb THEN con_len ELSE nb
           content == rec.content \o SubSeq(wire, beg + 1, beg + cpy_len)
           state   == IF con_len <= nb THEN "padding" ELSE "content"
           again   == [rec EXCEPT
                         !.state   = IF con_len <= nb THEN "padding" ELSE @,
                         !.content = content,
                         !.offset  = @ + nb]
<1>1. /\ pc = "decode" /\ rec.state = "content"
      /\ \/ tot_len <= nb /\ RecordDone(content, beg + tot_len)
         \/ tot_len > nb /\ RecordAgain(again)
  BY DEF ProcessContent
<1>2. /\ wire \in Seq(Nat) /\ Len(wire) \in Nat
      /\ beg \in Nat /\ end \in Nat /\ end <= Len(wire) /\ beg < end
      /\ rec \in RecType /\ Len(rec.header) = 8
      /\ rec.offset = 0 \/ rec.offset < fcgiHeaderGetContentLen(rec)
  BY <1>1 DEF TInv, Positions, RecordOK
<1> DEFINE len == fcgiHeaderGetContentLen(rec)
           pad == PaddingLength(rec)
           off == rec.offset
<1>3. len \in Nat /\ pad \in Nat
  BY <1>2, LengthTypes
<1>4. off \in Nat /\ rec.content \in Seq(Nat)
  BY <1>2 DEF RecType
<1> HIDE DEF len, pad, off
<1>5. con_len = len - off /\ tot_len = con_len + pad /\ (off = 0 \/ off < len)
  BY <1>2 DEF len, pad, off
<1> HIDE DEF con_len, tot_len, content, again
<1>6. con_len \in Nat /\ tot_len \in Nat /\ nb \in Nat
  BY <1>2, <1>3, <1>4, <1>5
<1>7. CASE tot_len <= nb /\ RecordDone(content, beg + tot_len)
  <2> DEFINE next == beg + tot_len
  <2>1. next \in Nat /\ RecordDone(content, next)
    BY <1>2, <1>6, <1>7
  <2> HIDE DEF next
  <2> QED BY <2>1, TDoneStep
<1>8. CASE tot_len > nb /\ RecordAgain(again)
  <2>1. /\ rec' = again /\ beg' = end /\ pc' = "wait" /\ status' = FALSE
        /\ UNCHANGED <<stream, wire, end, first_chunk, output>>
    BY <1>8 DEF RecordAgain
  <2>2. content \in Seq(Nat)
    <3>1. /\ beg + 1 \in Int /\ beg + cpy_len \in Int
          /\ \A i \in beg + 1 .. beg + cpy_len : i \in 1 .. Len(wire)
      BY <1>2, <1>6
    <3>2. \A i \in beg + 1 .. beg + cpy_len : wire[i] \in Nat
      BY <1>2, <3>1
    <3> DEFINE new == SubSeq(wire, beg + 1, beg + cpy_len)
    <3>3. new \in Seq(Nat)
      BY <3>1, <3>2, SubSeqProperties
    <3> HIDE DEF new
    <3>4. rec.content \o new \in Seq(Nat)
      BY <1>4, <3>3, ConcatProperties
    <3> QED BY <3>4 DEF content, new
  <2>3. off + nb \in Nat /\ state \in {"padding", "content"}
    BY <1>4, <1>6
  <2>4. /\ rec' \in RecType /\ rec'.header = rec.header
        /\ rec'.state = state /\ rec'.offset = off + nb
    <3>1. rec' = [rec EXCEPT !.state = state, !.content = content, !.offset = off + nb]
      BY <1>1, <1>2, <2>1 DEF again, off, RecType
    <3> HIDE DEF nb, state
    <3> QED BY <1>2, <2>2, <2>3, <3>1 DEF RecType
  <2>5. fcgiHeaderGetContentLen(rec') = len /\ PaddingLength(rec') = pad
    BY <2>4 DEF fcgiHeaderGetContentLen, PaddingLength, len, pad
  <2>6. /\ state = "content" => off + nb < len
        /\ state = "padding" => off + nb < len + pad
    BY <1>2, <1>3, <1>4, <1>5, <1>6, <1>8
  <2>7. RecordOK'
    <3> HIDE DEF state
    <3>1. RecType' = RecType
      BY DEF RecType
    <3>2. Len(rec'.header) = 8 /\ rec'.state # "header"
      BY <1>2, <2>3, <2>4
    <3>3. /\ rec'.state = "content" => rec'.offset < fcgiHeaderGetContentLen(rec')
          /\ rec'.state = "padding" =>
               rec'.offset < fcgiHeaderGetContentLen(rec') + PaddingLength(rec')
      BY <2>4, <2>5, <2>6
    <3>4. rec' \in RecType
      BY <2>4
    <3> HIDE DEF nb
    <3> QED BY <3>1, <3>2, <3>3, <3>4 DEF RecordOK
  <2>8. first_chunk \in BOOLEAN
    BY DEF TInv, Positions
  <2>9. Positions'
    BY <1>2, <2>1, <2>8 DEF Positions
  <2> QED BY <2>7, <2>9 DEF TInv
<1> QED BY <1>1, <1>7, <1>8

\* The same in the padding.
LEMMA TPaddingStep ==
  ASSUME TInv, SkipPadding
  PROVE  TInv'
<1>1. pc = "decode" /\ rec.state = "padding"
  BY DEF SkipPadding
<1> DEFINE len == fcgiHeaderGetContentLen(rec)
           pad == PaddingLength(rec)
           off == rec.offset
           next == beg + len - off + pad
<1>2. /\ beg \in Nat /\ rec \in RecType /\ Len(rec.header) = 8
      /\ off < len + pad
  BY <1>1 DEF TInv, Positions, RecordOK
<1>3. len \in Nat /\ pad \in Nat
  BY <1>2, LengthTypes
<1>4. off \in Nat
  BY <1>2 DEF RecType
<1>5. RecordDone(rec.content, next)
  BY DEF SkipPadding
<1>6. next \in Nat
  <2> HIDE DEF len, pad, off
  <2> QED BY <1>2, <1>3, <1>4
<1> HIDE DEF next
<1> QED BY <1>5, <1>6, TDoneStep

\* FCGIRecordList and the positions in a block: the types, the header of no
\* more than 8 bytes, and no more bytes than the application has sent.
THEOREM DecoderTypes == Spec => []TypeOK
<1>1. ASSUME Init
      PROVE  TInv
  <2>1. Wired
    BY <1>1 DEF Init, Wired, Encoded
  <2>2. wire \in Seq(Nat)
    BY <2>1, Layout
  <2>3. Len(wire) \in Nat
    BY <2>2
  <2>4. beg = 0 /\ end = 0
    BY <1>1 DEF Init
  <2>5. pc = "wait" /\ first_chunk \in BOOLEAN /\ status \in BOOLEAN
    BY <1>1 DEF Init
  <2>6. Positions
    BY <2>2, <2>3, <2>4, <2>5 DEF Positions
  <2>7. /\ rec \in RecType /\ rec.state = "header"
        /\ Len(rec.header) = 0 /\ rec.offset = 0
    BY <1>1 DEF Init, NewRecord, RecType
  <2>8. RecordOK
    BY <2>7 DEF RecordOK
  <2> QED BY <2>6, <2>8 DEF TInv
<1>2. ASSUME TInv, [Next]_vars
      PROVE  TInv'
  <2>1. ASSUME NEW n \in BlockSizes, Block(n)
        PROVE  TInv'
    <3>1. /\ pc = "wait" /\ end < Len(wire) /\ beg' = end /\ pc' = "decode"
          /\ end' = IF end + n <= Len(wire) THEN end + n ELSE Len(wire)
          /\ UNCHANGED <<stream, wire, rec, first_chunk, output, status>>
      BY <2>1 DEF Block
    <3>2. n \in Nat \ {0}
      BY DecoderAssumption
    <3>3. /\ wire \in Seq(Nat) /\ Len(wire) \in Nat /\ end \in Nat
          /\ first_chunk \in BOOLEAN /\ status \in BOOLEAN
      BY <1>2 DEF TInv, Positions
    <3>4. end' \in Nat /\ end' <= Len(wire) /\ end < end'
      BY <3>1, <3>2, <3>3
    <3>5. Positions'
      BY <3>1, <3>3, <3>4 DEF Positions
    <3>6. RecordOK
      BY <1>2 DEF TInv
    <3>7. RecordOK'
      BY <3>1, <3>6
         DEF RecordOK, RecType, fcgiHeaderGetContentLen, PaddingLength
    <3> QED BY <3>5, <3>7 DEF TInv
  <2>2. CASE ProcessHeader
    BY <1>2, <2>2, THeaderStep
  <2>3. CASE ProcessContent
    BY <1>2, <2>3, TContentStep
  <2>4. CASE SkipPadding
    BY <1>2, <2>4, TPaddingStep
  <2>5. CASE UNCHANGED vars
    BY <1>2, <2>5 DEF vars, TInv, Positions, RecordOK, RecType,
         fcgiHeaderGetContentLen, PaddingLength
  <2> QED BY <1>2, <2>1, <2>2, <2>3, <2>4, <2>5 DEF Next
<1>3. ASSUME TInv
      PROVE  TypeOK
  <2>1. Positions /\ RecordOK
    BY <1>3 DEF TInv
  <2>2. /\ 0 <= beg /\ 0 <= end /\ end <= Len(wire)
        /\ pc \in {"wait", "decode", "overrun"}
        /\ first_chunk \in BOOLEAN /\ status \in BOOLEAN
    BY <2>1 DEF Positions
  <2>3. /\ rec.state \in {"header", "content", "padding"}
        /\ rec.header \in Seq(Nat) /\ rec.offset \in Nat
    BY <2>1 DEF RecordOK, RecType
  <2>4. Len(rec.header) <= 8
    <3> DEFINE h == Len(rec.header)
    <3>1. h \in Nat
      BY <2>3
    <3>2. h < 8 \/ h = 8
      BY <2>1 DEF RecordOK
    <3> HIDE DEF h
    <3>3. h <= 8
      BY <3>1, <3>2
    <3> QED BY <3>3 DEF h
  <2> QED BY <2>2, <2>3, <2>4 DEF TypeOK, FCGI_HEADER_LEN
<1> QED BY <1>1, <1>2, <1>3, PTL DEF Spec

=============================================================================
