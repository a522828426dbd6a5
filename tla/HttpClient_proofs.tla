------------------------- MODULE HttpClient_proofs -------------------------
(***************************************************************************)
(* Proofs about HttpClient for every exchange, size of read and way the    *)
(* stream is cut.                                                          *)
(***************************************************************************)
EXTENDS HttpClient, WellFoundedInduction, SequenceTheorems, TLAPS

-----------------------------------------------------------------------------
(* Sequences built one part after the other.                               *)

\* A set that holds 0 and the successor of each of its numbers holds them all.
LEMMA SetInduction ==
  ASSUME NEW T \in SUBSET Nat, 0 \in T, \A n \in T : n + 1 \in T
  PROVE  T = Nat
<1> DEFINE LessThan == {ss \in Nat \X Nat : ss[1] < ss[2]}
           R == Nat \ T
<1>1. IsWellFoundedOn(LessThan, Nat)
  BY NatLessThanWellFounded DEF OpToRel
<1>2. \A m, n \in Nat : m < n => <<m, n>> \in LessThan
  OBVIOUS
<1> HIDE DEF LessThan
<1>3. SUFFICES ASSUME R # {} PROVE FALSE
  OBVIOUS
<1>4. R \in SUBSET Nat
  OBVIOUS
<1> HIDE DEF R
<1>5. PICK x \in R : \A y \in R : <<y, x>> \notin LessThan
  BY <1>1, <1>3, <1>4, WFMin, Zenon
<1> USE DEF R
<1>6. x \in Nat /\ x # 0 /\ x \notin T
  OBVIOUS
<1>7. x - 1 \in Nat /\ x - 1 < x /\ (x - 1) + 1 = x
  BY <1>6
<1>8. x - 1 \in R
  BY <1>6, <1>7
<1> QED BY <1>2, <1>5, <1>6, <1>7, <1>8

\* What a function makes of a value and the members of a sequence in turn.
IsFold(f, g, q, cs, n) ==
  /\ DOMAIN f = 0 .. n /\ f[0] = q
  /\ \A k \in 1 .. n : f[k] = g[<<f[k - 1], cs[k]>>]

LEMMA FoldExists ==
  ASSUME NEW Q, NEW C, NEW g \in [Q \X C -> Q], NEW q \in Q, NEW N \in Nat, NEW cs,
         \A k \in 1 .. N : cs[k] \in C
  PROVE  \E f \in [0 .. N -> Q] : IsFold(f, g, q, cs, N)
<1> DEFINE T == {n \in Nat : n <= N => \E f \in [0 .. n -> Q] : IsFold(f, g, q, cs, n)}
<1>1. 0 \in T
  <2>1. [k \in 0 .. 0 |-> q] \in [0 .. 0 -> Q] /\ IsFold([k \in 0 .. 0 |-> q], g, q, cs, 0)
    BY DEF IsFold
  <2> QED BY <2>1
<1>2. ASSUME NEW n \in T PROVE n + 1 \in T
  <2> SUFFICES ASSUME n + 1 <= N
               PROVE  \E f \in [0 .. n + 1 -> Q] : IsFold(f, g, q, cs, n + 1)
    OBVIOUS
  <2>1. PICK f \in [0 .. n -> Q] : IsFold(f, g, q, cs, n)
    BY <1>2
  <2> DEFINE last == g[<<f[n], cs[n + 1]>>]
             h == [k \in 0 .. n + 1 |-> IF k = n + 1 THEN last ELSE f[k]]
  <2>2. last \in Q
    <3>1. f[n] \in Q /\ cs[n + 1] \in C
      BY <2>1
    <3> QED BY <3>1
  <2> HIDE DEF last
  <2>3. h \in [0 .. n + 1 -> Q]
    <3> SUFFICES ASSUME NEW k \in 0 .. n + 1, k # n + 1 PROVE f[k] \in Q
      BY <2>2
    <3>1. k \in 0 .. n
      OBVIOUS
    <3> QED BY <2>1, <3>1
  <2>4. DOMAIN h = 0 .. n + 1 /\ h[0] = q
    BY <2>1 DEF IsFold
  <2>5. ASSUME NEW k \in 1 .. n + 1 PROVE h[k] = g[<<h[k - 1], cs[k]>>]
    <3>1. CASE k = n + 1
      BY <3>1 DEF last
    <3>2. CASE k # n + 1
      <4>1. k \in 1 .. n /\ k - 1 \in 0 .. n /\ k - 1 # n + 1 /\ k \in 0 .. n + 1
        BY <3>2
      <4>2. h[k] = f[k] /\ h[k - 1] = f[k - 1]
        BY <3>2, <4>1
      <4> HIDE DEF h
      <4> QED BY <2>1, <4>1, <4>2 DEF IsFold
    <3> QED BY <3>1, <3>2
  <2> HIDE DEF h
  <2>6. IsFold(h, g, q, cs, n + 1)
    BY <2>4, <2>5 DEF IsFold
  <2> QED BY <2>3, <2>6
<1>3. T = Nat
  <2>1. T \in SUBSET Nat
    OBVIOUS
  <2> HIDE DEF T
  <2> QED BY <1>1, <1>2, <2>1, SetInduction
<1> QED BY <1>3

\* The symbols of any stream.
Names == {"other", "content-length", "transfer-encoding"}

Symbols ==
  {NL} \cup [t : {"status"}, code : Nat] \cup [t : {"header"}, name : Names, value : Int]
       \cup [t : {"continuation"}, value : Int] \cup [t : {"chunklen"}, n : Nat]
       \cup [t : {"data"}, chunk : Nat, pos : Nat]

\* A sequence has another inside it, after its first n members.
Has(s, n, t) == /\ n + Len(t) <= Len(s)
                /\ \A i \in n + 1 .. n + Len(t) : s[i] = t[i - n]

LEMMA HasAt ==
  ASSUME NEW s, NEW n \in Nat, NEW t \in Seq(Symbols), Has(s, n, t), NEW j \in 1 .. Len(t)
  PROVE  s[n + j] = t[j]
<1>1. PICK i : i = n + j
  OBVIOUS
<1>2. i \in n + 1 .. n + Len(t) /\ i - n = j
  BY <1>1
<1> QED BY <1>1, <1>2 DEF Has

LEMMA HasLast ==
  ASSUME NEW s \in Seq(Symbols), NEW t \in Seq(Symbols)
  PROVE  /\ s \o t \in Seq(Symbols) /\ Len(s \o t) = Len(s) + Len(t)
         /\ Len(s) \in Nat /\ Len(t) \in Nat
         /\ Has(s \o t, Len(s), t) /\ Has(s \o t, 0, s)
<1>1. s \o t \in Seq(Symbols) /\ Len(s \o t) = Len(s) + Len(t)
      /\ Len(s) \in Nat /\ Len(t) \in Nat
  OBVIOUS
<1>2. \A i \in Len(s) + 1 .. Len(s) + Len(t) : (s \o t)[i] = t[i - Len(s)]
  OBVIOUS
<1>3. \A i \in 0 + 1 .. 0 + Len(s) : (s \o t)[i] = s[i - 0]
  OBVIOUS
<1> HIDE DEF Symbols
<1>4. Len(s) + Len(t) <= Len(s \o t) /\ 0 + Len(s) <= Len(s \o t)
  BY <1>1
<1> QED BY <1>1, <1>2, <1>3, <1>4, Zenon DEF Has

LEMMA HasWithin ==
  ASSUME NEW s \in Seq(Symbols), NEW t \in Seq(Symbols), NEW u \in Seq(Symbols),
         NEW n \in Nat, NEW k \in Nat, Has(s, n, t), Has(t, k, u)
  PROVE  Has(s, n + k, u)
<1>1. Len(s) \in Nat /\ Len(t) \in Nat /\ Len(u) \in Nat
  OBVIOUS
<1>2. n + Len(t) <= Len(s) /\ k + Len(u) <= Len(t)
  BY DEF Has
<1>3. ASSUME NEW i \in (n + k) + 1 .. (n + k) + Len(u) PROVE s[i] = u[i - (n + k)]
  <2>1. PICK j : j = i - n
    OBVIOUS
  <2>2. /\ i \in n + 1 .. n + Len(t) /\ j \in k + 1 .. k + Len(u)
        /\ i - n = j /\ j - k = i - (n + k)
    BY <1>1, <1>2, <2>1
  <2>3. s[i] = t[j] /\ t[j] = u[j - k]
    BY <2>2 DEF Has
  <2> QED BY <2>2, <2>3
<1>4. (n + k) + Len(u) <= Len(s)
  BY <1>1, <1>2
<1> QED BY <1>3, <1>4 DEF Has

LEMMA HasLonger ==
  ASSUME NEW s \in Seq(Symbols), NEW t \in Seq(Symbols), NEW u \in Seq(Symbols),
         NEW n \in Nat, Has(s, n, t)
  PROVE  Has(s \o u, n, t)
<1>1. s \o u \in Seq(Symbols) /\ Has(s \o u, 0, s)
  BY HasLast
<1>2. Has(s \o u, 0 + n, t)
  BY <1>1, HasWithin
<1> QED BY <1>2

\* Three sequences in a row.
LEMMA Row ==
  ASSUME NEW s \in Seq(Symbols), NEW t \in Seq(Symbols), NEW u \in Seq(Symbols)
  PROVE  /\ (s \o t) \o u \in Seq(Symbols)
         /\ Len((s \o t) \o u) = Len(s) + Len(t) + Len(u)
         /\ Len(s) \in Nat /\ Len(t) \in Nat /\ Len(u) \in Nat
         /\ Has((s \o t) \o u, 0, s) /\ Has((s \o t) \o u, Len(s), t)
         /\ Has((s \o t) \o u, Len(s) + Len(t), u)
<1> DEFINE st == s \o t
<1>1. /\ st \in Seq(Symbols) /\ Len(st) = Len(s) + Len(t)
      /\ Len(s) \in Nat /\ Len(t) \in Nat
      /\ Has(st, Len(s), t) /\ Has(st, 0, s)
  BY HasLast
<1> HIDE DEF st
<1>2. /\ st \o u \in Seq(Symbols) /\ Len(st \o u) = Len(st) + Len(u)
      /\ Len(u) \in Nat /\ Has(st \o u, Len(st), u)
  BY <1>1, HasLast
<1>3. Has(st \o u, 0, s) /\ Has(st \o u, Len(s), t)
  BY <1>1, HasLonger
<1> QED BY <1>1, <1>2, <1>3 DEF st

\* The first parts of a sequence of sequences, one after the other.
UpTo(parts, k) == FlattenSeq([l \in 1 .. k |-> parts[l]])

Parts(parts, N) == N \in Nat /\ \A k \in 1 .. N : parts[k] \in Seq(Symbols)

LEMMA UpToFacts ==
  ASSUME NEW N, NEW parts, Parts(parts, N)
  PROVE  /\ \A k \in 0 .. N : UpTo(parts, k) \in Seq(Symbols)
         /\ UpTo(parts, 0) = <<>>
         /\ \A k \in 1 .. N : UpTo(parts, k) = UpTo(parts, k - 1) \o parts[k]
<1>0. N \in Nat /\ \A k \in 1 .. N : parts[k] \in Seq(Symbols)
  BY DEF Parts
<1> USE <1>0
<1> DEFINE g == [st \in Seq(Symbols) \X Seq(Symbols) |-> st[1] \o st[2]]
<1>1. g \in [Seq(Symbols) \X Seq(Symbols) -> Seq(Symbols)]
  BY ConcatProperties
<1>2. <<>> \in Seq(Symbols)
  OBVIOUS
<1>3. \A s, t \in Seq(Symbols) : g[<<s, t>>] = s \o t
  OBVIOUS
<1> HIDE DEF g
<1>4. PICK f \in [0 .. N -> Seq(Symbols)] : IsFold(f, g, <<>>, parts, N)
  BY <1>1, <1>2, FoldExists
<1>5. f[0] = <<>>
  BY <1>4 DEF IsFold
<1>6. ASSUME NEW k \in 1 .. N PROVE f[k] = f[k - 1] \o parts[k]
  <2>1. f[k] = g[<<f[k - 1], parts[k]>>]
    BY <1>4 DEF IsFold
  <2>2. f[k - 1] \in Seq(Symbols) /\ parts[k] \in Seq(Symbols)
    OBVIOUS
  <2> QED BY <1>3, <2>1, <2>2
<1>7. ASSUME NEW k \in 0 .. N PROVE UpTo(parts, k) = f[k]
  <2> DEFINE seqs == [l \in 1 .. k |-> parts[l]]
             Sums(e) == [i \in 1 .. Len(seqs) |->
                           IF i = 1 THEN seqs[i] ELSE e[i - 1] \o seqs[i]]
             flatten == CHOOSE e : e = Sums(e)
             h == [i \in 1 .. k |-> f[i]]
  <2>1. Len(seqs) = k /\ \A i \in 1 .. k : seqs[i] = parts[i]
    OBVIOUS
  <2>2. CASE k = 0
    <3>1. seqs = <<>>
      BY <2>2
    <3> QED BY <1>5, <2>1, <2>2, <3>1 DEF UpTo, FlattenSeq
  <2>3. CASE k # 0
    <3>1. h = Sums(h)
      <4> SUFFICES ASSUME NEW i \in 1 .. k
                   PROVE  f[i] = IF i = 1 THEN parts[i] ELSE h[i - 1] \o parts[i]
        BY <2>1
      <4>1. f[i] = f[i - 1] \o parts[i] /\ parts[i] \in Seq(Symbols)
        <5>1. i \in 1 .. N
          OBVIOUS
        <5> QED BY <1>6, <5>1, Zenon
      <4>2. i = 1 => f[i] = parts[i]
        <5>1. ASSUME i = 1 PROVE f[i] = <<>> \o parts[i]
          <6>1. i - 1 = 0
            BY <5>1
          <6> QED BY <1>5, <4>1, <6>1
        <5> QED BY <4>1, <5>1, ConcatEmptySeq
      <4>3. i # 1 => h[i - 1] = f[i - 1]
        OBVIOUS
      <4> QED BY <4>1, <4>2, <4>3
    <3>2. flatten = Sums(flatten)
      BY <3>1
    <3>3. UpTo(parts, k) = flatten[k]
      BY <2>1, <2>3 DEF UpTo, FlattenSeq
    <3> HIDE DEF flatten
    <3>4. \A i \in 1 .. k : flatten[i] = IF i = 1 THEN parts[i] ELSE flatten[i - 1] \o parts[i]
      BY <2>1, <3>2
    <3> DEFINE T == {n \in Nat : n + 1 <= k => flatten[n + 1] = f[n + 1]}
    <3>5. 0 \in T
      <4>1. 1 \in 1 .. k /\ 1 \in 1 .. N
        BY <2>3
      <4>2. f[1] = f[0] \o parts[1] /\ parts[1] \in Seq(Symbols)
        <5>1. f[1] = f[1 - 1] \o parts[1] /\ parts[1] \in Seq(Symbols)
          BY <1>6, <4>1, Zenon
        <5>2. 1 - 1 = 0
          OBVIOUS
        <5> QED BY <5>1, <5>2
      <4>3. f[1] = parts[1]
        BY <1>5, <4>2, ConcatEmptySeq
      <4> QED BY <3>4, <4>1, <4>3
    <3>6. ASSUME NEW n \in T PROVE n + 1 \in T
      <4> SUFFICES ASSUME n + 1 + 1 <= k PROVE flatten[n + 1 + 1] = f[n + 1 + 1]
        OBVIOUS
      <4> DEFINE i == n + 1 + 1
      <4>1. i \in 1 .. k /\ i \in 1 .. N /\ i # 1 /\ i - 1 = n + 1 /\ n + 1 <= k
        OBVIOUS
      <4>2. flatten[n + 1] = f[n + 1]
        BY <3>6, <4>1
      <4> HIDE DEF i
      <4>3. flatten[i] = flatten[i - 1] \o parts[i] /\ f[i] = f[i - 1] \o parts[i]
        BY <1>6, <3>4, <4>1
      <4>4. flatten[i] = f[i]
        BY <4>1, <4>2, <4>3
      <4> QED BY <4>4 DEF i
    <3>7. T = Nat
      <4>1. T \in SUBSET Nat
        OBVIOUS
      <4> HIDE DEF T
      <4> QED BY <3>5, <3>6, <4>1, SetInduction
    <3>8. k - 1 \in Nat /\ (k - 1) + 1 = k
      BY <2>3
    <3>9. k - 1 \in T
      <4> HIDE DEF T
      <4> QED BY <3>7, <3>8
    <3> QED BY <3>3, <3>8, <3>9
  <2> QED BY <2>2, <2>3
<1>8. ASSUME NEW k \in 0 .. N PROVE UpTo(parts, k) \in Seq(Symbols)
  BY <1>4, <1>7
<1>9. ASSUME NEW k \in 1 .. N PROVE UpTo(parts, k) = UpTo(parts, k - 1) \o parts[k]
  <2>1. k \in 0 .. N /\ k - 1 \in 0 .. N
    OBVIOUS
  <2>2. UpTo(parts, k) = f[k] /\ UpTo(parts, k - 1) = f[k - 1] /\ f[k] = f[k - 1] \o parts[k]
    BY <1>6, <1>7, <2>1
  <2> QED BY <2>2
<1>10. UpTo(parts, 0) = <<>>
  <2>1. 0 \in 0 .. N
    OBVIOUS
  <2> QED BY <1>5, <1>7, <2>1
<1> QED BY <1>8, <1>9, <1>10

LEMMA UpToGrows ==
  ASSUME NEW N, NEW parts, Parts(parts, N)
  PROVE  \A a \in 0 .. N : \A b \in a .. N : Has(UpTo(parts, b), 0, UpTo(parts, a))
<1>0. N \in Nat /\ \A k \in 1 .. N : parts[k] \in Seq(Symbols)
  BY DEF Parts
<1> TAKE a \in 0 .. N
<1> TAKE b \in a .. N
<1> DEFINE U(k) == UpTo(parts, k)
           T == {n \in Nat : a + n <= N => Has(U(a + n), 0, U(a))}
<1>1. /\ \A k \in 0 .. N : U(k) \in Seq(Symbols)
      /\ \A k \in 1 .. N : U(k) = U(k - 1) \o parts[k]
  BY UpToFacts
<1> HIDE DEF U
<1>2. U(a) \in Seq(Symbols) /\ Len(U(a)) \in Nat
  BY <1>0, <1>1
<1>3. 0 \in T
  <2>1. a + 0 = a
    BY <1>0
  <2>2. Has(U(a), 0, U(a))
    BY <1>2 DEF Has
  <2> QED BY <2>1, <2>2
<1>4. ASSUME NEW n \in T PROVE n + 1 \in T
  <2> SUFFICES ASSUME a + (n + 1) <= N PROVE Has(U(a + (n + 1)), 0, U(a))
    OBVIOUS
  <2>1. PICK k : k = a + (n + 1)
    OBVIOUS
  <2>2. k \in 1 .. N /\ k - 1 \in 0 .. N /\ k - 1 = a + n
    BY <1>0, <2>1
  <2>3. Has(U(k - 1), 0, U(a))
    BY <1>4, <2>2
  <2>4. U(k) = U(k - 1) \o parts[k] /\ U(k - 1) \in Seq(Symbols) /\ parts[k] \in Seq(Symbols)
    BY <1>0, <1>1, <2>2
  <2> HIDE DEF T
  <2>5. Has(U(k), 0, U(a))
    BY <1>2, <2>3, <2>4, HasLonger
  <2> QED BY <2>1, <2>5
<1>5. T = Nat
  <2>1. T \in SUBSET Nat
    OBVIOUS
  <2> HIDE DEF T
  <2> QED BY <1>3, <1>4, <2>1, SetInduction
<1>6. b - a \in Nat /\ a + (b - a) = b /\ b <= N
  BY <1>0
<1>7. b - a \in T
  <2> HIDE DEF T
  <2> QED BY <1>5, <1>6
<1> QED BY <1>6, <1>7 DEF U

\* Where a part of a sequence is found, whatever follows.
LEMMA PartAt ==
  ASSUME NEW N, NEW parts, Parts(parts, N), NEW k \in 1 .. N, NEW n \in k .. N
  PROVE  /\ UpTo(parts, k - 1) \in Seq(Symbols) /\ UpTo(parts, k) \in Seq(Symbols)
         /\ UpTo(parts, n) \in Seq(Symbols) /\ parts[k] \in Seq(Symbols)
         /\ Len(UpTo(parts, k)) = Len(UpTo(parts, k - 1)) + Len(parts[k])
         /\ Has(UpTo(parts, n), 0, UpTo(parts, k - 1))
         /\ Has(UpTo(parts, n), Len(UpTo(parts, k - 1)), parts[k])
<1>0. N \in Nat /\ \A l \in 1 .. N : parts[l] \in Seq(Symbols)
  BY DEF Parts
<1> DEFINE U(l) == UpTo(parts, l)
<1>1. /\ \A l \in 0 .. N : U(l) \in Seq(Symbols)
      /\ \A l \in 1 .. N : U(l) = U(l - 1) \o parts[l]
  BY UpToFacts
<1>2. k \in 0 .. N /\ k - 1 \in 0 .. N /\ n \in 0 .. N /\ n \in k - 1 .. N
  BY <1>0
<1>3. Has(U(n), 0, U(k)) /\ Has(U(n), 0, U(k - 1))
  BY <1>2, UpToGrows
<1> HIDE DEF U
<1>4. /\ U(k) = U(k - 1) \o parts[k] /\ U(k - 1) \in Seq(Symbols) /\ parts[k] \in Seq(Symbols)
      /\ U(k) \in Seq(Symbols) /\ U(n) \in Seq(Symbols)
  BY <1>0, <1>1, <1>2
<1>5. /\ Len(U(k)) = Len(U(k - 1)) + Len(parts[k]) /\ Len(U(k - 1)) \in Nat
      /\ Has(U(k), Len(U(k - 1)), parts[k])
  BY <1>4, HasLast
<1>6. Has(U(n), 0 + Len(U(k - 1)), parts[k])
  BY <1>3, <1>4, <1>5, HasWithin
<1>7. 0 + Len(U(k - 1)) = Len(U(k - 1))
  BY <1>5
<1> QED BY <1>3, <1>4, <1>5, <1>6, <1>7 DEF U

-----------------------------------------------------------------------------
(* What is on the wire.                                                    *)

Headers == [name : Names, value : Int]

DataParts(m) == [c \in 1 .. Len(m.chunks) |-> Data(c, m.chunks[c])]
ChunkParts(m) == [c \in 1 .. Len(m.chunks) |-> Chunk(m, c)]

ContinueLength(m) == IF m.continue THEN 3 ELSE 0

FramingName(m) == IF m.framing = "length" THEN "content-length" ELSE "transfer-encoding"
FramingValue(m) == IF m.framing = "length" THEN Len(Body(m)) ELSE Chunked
FramingLength(m) == IF m.framing = "close" THEN 0 ELSE IF m.folded THEN 4 ELSE 2

HeadLength(m) == ContinueLength(m) + 5 + FramingLength(m)

LEMMA DataFacts ==
  ASSUME NEW m \in Messages, NEW c \in 1 .. Len(m.chunks)
  PROVE  /\ m.chunks[c] \in Nat \ {0}
         /\ Data(c, m.chunks[c]) \in Seq(Symbols)
         /\ Len(Data(c, m.chunks[c])) = m.chunks[c]
         /\ \A p \in 1 .. m.chunks[c] :
              Data(c, m.chunks[c])[p] = [t |-> "data", chunk |-> c, pos |-> p]
<1>1. m.chunks \in Seq(Nat \ {0})
  BY DEF Messages
<1>2. m.chunks[c] \in Nat \ {0} /\ c \in Nat
  BY <1>1
<1> DEFINE n == m.chunks[c]
<1> HIDE DEF n
<1>3. n \in Nat \ {0}
  BY <1>2 DEF n
<1>4. \A p \in 1 .. n : [t |-> "data", chunk |-> c, pos |-> p] \in Symbols
  BY <1>2, <1>3 DEF Symbols
<1>5. Data(c, n) \in Seq(Symbols) /\ Len(Data(c, n)) = n
  BY <1>3, <1>4 DEF Data
<1>6. \A p \in 1 .. n : Data(c, n)[p] = [t |-> "data", chunk |-> c, pos |-> p]
  BY DEF Data
<1> QED BY <1>2, <1>5, <1>6 DEF n

LEMMA Lines ==
  /\ \A code \in Nat :
       /\ StatusLine(code) = <<[t |-> "status", code |-> code], NL>>
       /\ StatusLine(code) \in Seq(Symbols) /\ Len(StatusLine(code)) = 2
  /\ \A name \in Names, v \in Int :
       /\ Header(name, v) = <<[t |-> "header", name |-> name, value |-> v], NL>>
       /\ Header(name, v) \in Seq(Symbols) /\ Len(Header(name, v)) = 2
       /\ Folded(name, v) = <<[t |-> "header", name |-> name, value |-> Blank], NL,
                             [t |-> "continuation", value |-> v], NL>>
       /\ Folded(name, v) \in Seq(Symbols) /\ Len(Folded(name, v)) = 4
  /\ \A n \in Nat :
       /\ ChunkLine(n) = <<[t |-> "chunklen", n |-> n], NL>>
       /\ ChunkLine(n) \in Seq(Symbols) /\ Len(ChunkLine(n)) = 2
  /\ <<NL>> \in Seq(Symbols) /\ Len(<<NL>>) = 1 /\ <<>> \in Seq(Symbols)
<1>1. NL \in Symbols
  BY DEF Symbols
<1>2. ASSUME NEW code \in Nat
      PROVE  /\ StatusLine(code) = <<[t |-> "status", code |-> code], NL>>
             /\ StatusLine(code) \in Seq(Symbols) /\ Len(StatusLine(code)) = 2
  <2>1. [t |-> "status", code |-> code] \in Symbols
    BY DEF Symbols
  <2> QED BY <1>1, <2>1 DEF StatusLine
<1>3. ASSUME NEW name \in Names, NEW v \in Int
      PROVE  /\ Header(name, v) = <<[t |-> "header", name |-> name, value |-> v], NL>>
             /\ Header(name, v) \in Seq(Symbols) /\ Len(Header(name, v)) = 2
             /\ Folded(name, v) = <<[t |-> "header", name |-> name, value |-> Blank], NL,
                                   [t |-> "continuation", value |-> v], NL>>
             /\ Folded(name, v) \in Seq(Symbols) /\ Len(Folded(name, v)) = 4
  <2>1. /\ [t |-> "header", name |-> name, value |-> v] \in Symbols
        /\ [t |-> "header", name |-> name, value |-> Blank] \in Symbols
        /\ [t |-> "continuation", value |-> v] \in Symbols
    BY DEF Symbols, Blank
  <2> DEFINE a == [t |-> "header", name |-> name, value |-> v]
             b == [t |-> "header", name |-> name, value |-> Blank]
             c == [t |-> "continuation", value |-> v]
  <2>2. /\ Header(name, v) = <<a, NL>>
        /\ Folded(name, v) = <<b, NL>> \o <<c, NL>>
    BY DEF Header, Folded
  <2>3. a \in Symbols /\ b \in Symbols /\ c \in Symbols
    BY <2>1
  <2> HIDE DEF a, b, c
  <2>4. <<b, NL>> \o <<c, NL>> = <<b, NL, c, NL>>
    <3> DEFINE x == <<b, NL>>  y == <<c, NL>>
    <3>1. /\ x \in Seq(Symbols) /\ Len(x) = 2 /\ x[1] = b /\ x[2] = NL
          /\ y \in Seq(Symbols) /\ Len(y) = 2 /\ y[1] = c /\ y[2] = NL
      BY <1>1, <2>3
    <3> HIDE DEF x, y
    <3>2. /\ x \o y \in Seq(Symbols) /\ Len(x \o y) = 4
          /\ (x \o y)[1] = b /\ (x \o y)[2] = NL /\ (x \o y)[3] = c /\ (x \o y)[4] = NL
      <4>1. /\ x \o y \in Seq(Symbols) /\ Len(x \o y) = Len(x) + Len(y)
            /\ Has(x \o y, Len(x), y) /\ Has(x \o y, 0, x)
        BY <3>1, HasLast, Zenon
      <4>2. Has(x \o y, 2, y) /\ Has(x \o y, 0, x)
        BY <3>1, <4>1
      <4> QED BY <3>1, <4>1, <4>2 DEF Has
    <3>3. /\ <<b, NL, c, NL>> \in Seq(Symbols) /\ Len(<<b, NL, c, NL>>) = 4
          /\ \A i \in 1 .. 4 : (x \o y)[i] = <<b, NL, c, NL>>[i]
      BY <1>1, <2>3, <3>2
    <3>4. x \o y = <<b, NL, c, NL>>
      BY <3>2, <3>3, SeqEqual
    <3> QED BY <3>4 DEF x, y
  <2>5. /\ <<a, NL>> \in Seq(Symbols) /\ Len(<<a, NL>>) = 2
        /\ <<b, NL, c, NL>> \in Seq(Symbols) /\ Len(<<b, NL, c, NL>>) = 4
    BY <1>1, <2>3
  <2> QED BY <2>2, <2>4, <2>5 DEF a, b, c
<1>4. ASSUME NEW n \in Nat
      PROVE  /\ ChunkLine(n) = <<[t |-> "chunklen", n |-> n], NL>>
             /\ ChunkLine(n) \in Seq(Symbols) /\ Len(ChunkLine(n)) = 2
  <2>1. [t |-> "chunklen", n |-> n] \in Symbols
    BY DEF Symbols
  <2> QED BY <1>1, <2>1 DEF ChunkLine
<1>5. <<NL>> \in Seq(Symbols) /\ Len(<<NL>>) = 1 /\ <<>> \in Seq(Symbols)
  BY <1>1
<1> QED BY <1>2, <1>3, <1>4, <1>5

\* A body and the frame of a chunk.
LEMMA ChunkFacts ==
  ASSUME NEW m \in Messages, NEW c \in 1 .. Len(m.chunks)
  PROVE  LET n == m.chunks[c] IN
         /\ Chunk(m, c) \in Seq(Symbols)
         /\ Len(Chunk(m, c)) = n + 3
         /\ Has(Chunk(m, c), 0, ChunkLine(n))
         /\ Has(Chunk(m, c), 2, Data(c, n))
         /\ Has(Chunk(m, c), n + 2, <<NL>>)
<1> DEFINE n == m.chunks[c]
           d == Data(c, n)
           l == ChunkLine(n)
<1>1. n \in Nat \ {0} /\ d \in Seq(Symbols) /\ Len(d) = n
  BY DataFacts
<1>2. l \in Seq(Symbols) /\ Len(l) = 2
  BY <1>1, Lines
<1>3. <<NL>> \in Seq(Symbols) /\ Len(<<NL>>) = 1
  BY Lines
<1>4. Chunk(m, c) = (l \o d) \o <<NL>>
  BY DEF Chunk
<1> HIDE DEF n, d, l
<1>5. /\ (l \o d) \o <<NL>> \in Seq(Symbols)
      /\ Len((l \o d) \o <<NL>>) = Len(l) + Len(d) + Len(<<NL>>)
      /\ Has((l \o d) \o <<NL>>, 0, l) /\ Has((l \o d) \o <<NL>>, Len(l), d)
      /\ Has((l \o d) \o <<NL>>, Len(l) + Len(d), <<NL>>)
  BY <1>1, <1>2, <1>3, Row, Zenon
<1>6. 2 + n + 1 = n + 3 /\ 2 + n = n + 2
  BY <1>1
<1> HIDE DEF Symbols, NL
<1>7. /\ Chunk(m, c) \in Seq(Symbols) /\ Len(Chunk(m, c)) = n + 3
      /\ Has(Chunk(m, c), 0, l) /\ Has(Chunk(m, c), 2, d)
      /\ Has(Chunk(m, c), n + 2, <<NL>>)
  BY <1>1, <1>2, <1>3, <1>4, <1>5, <1>6
<1> QED BY <1>7 DEF n, d, l

\* The parts that bodies are made of.
LEMMA BodyFacts ==
  ASSUME NEW m \in Messages
  PROVE  /\ Len(m.chunks) \in Nat
         /\ Parts(DataParts(m), Len(m.chunks)) /\ Parts(ChunkParts(m), Len(m.chunks))
         /\ Body(m) = UpTo(DataParts(m), Len(m.chunks)) /\ Body(m) \in Seq(Symbols)
         /\ UpTo(ChunkParts(m), Len(m.chunks)) \in Seq(Symbols)
<1> DEFINE L == Len(m.chunks)
<1>1. L \in Nat
  BY DEF Messages
<1>2. Parts(DataParts(m), L)
  BY <1>1, DataFacts DEF Parts, DataParts
<1>3. Parts(ChunkParts(m), L)
  BY <1>1, ChunkFacts DEF Parts, ChunkParts
<1>4. Body(m) = UpTo(DataParts(m), L)
  <2>1. [c \in 1 .. L |-> DataParts(m)[c]] = [c \in 1 .. L |-> Data(c, m.chunks[c])]
    BY DEF DataParts
  <2> QED BY <2>1 DEF Body, UpTo
<1>5. UpTo(DataParts(m), L) \in Seq(Symbols) /\ UpTo(ChunkParts(m), L) \in Seq(Symbols)
  <2>1. L \in 0 .. L
    BY <1>1
  <2> QED BY <1>2, <1>3, <2>1, UpToFacts
<1> QED BY <1>1, <1>2, <1>3, <1>4, <1>5

\* The length of the chunks of a message.
ChunksLength(m) == Len(UpTo(ChunkParts(m), Len(m.chunks)))

LEMMA FramedFacts ==
  ASSUME NEW m \in Messages
  PROVE  /\ FramedBody(m) \in Seq(Symbols) /\ ChunksLength(m) \in Nat
         /\ m.framing # "chunked" => FramedBody(m) = Body(m)
         /\ m.framing = "chunked" =>
              /\ Len(FramedBody(m)) = ChunksLength(m) + 5
              /\ Has(FramedBody(m), 0, UpTo(ChunkParts(m), Len(m.chunks)))
              /\ Has(FramedBody(m), ChunksLength(m), ChunkLine(0))
              /\ Has(FramedBody(m), ChunksLength(m) + 2, Header("other", 0))
              /\ Has(FramedBody(m), ChunksLength(m) + 4, <<NL>>)
<1> DEFINE u == UpTo(ChunkParts(m), Len(m.chunks))
           l == ChunkLine(0)
           h == Header("other", 0)
<1>1. u \in Seq(Symbols) /\ Len(u) \in Nat /\ ChunksLength(m) = Len(u)
  BY BodyFacts DEF ChunksLength
<1>2. CASE m.framing # "chunked"
  BY <1>1, <1>2, BodyFacts DEF FramedBody
<1>3. CASE m.framing = "chunked"
  <2>1. FramedBody(m) = ((u \o l) \o h) \o <<NL>>
    <3>1. [c \in 1 .. Len(m.chunks) |-> ChunkParts(m)[c]]
            = [c \in 1 .. Len(m.chunks) |-> Chunk(m, c)]
      BY DEF ChunkParts
    <3> QED BY <1>3, <3>1 DEF FramedBody, UpTo
  <2>2. l \in Seq(Symbols) /\ Len(l) = 2 /\ h \in Seq(Symbols) /\ Len(h) = 2
    <3>1. 0 \in Nat /\ 0 \in Int /\ "other" \in Names
      BY DEF Names
    <3> QED BY <3>1, Lines
  <2>3. <<NL>> \in Seq(Symbols) /\ Len(<<NL>>) = 1
    BY Lines
  <2> HIDE DEF u, l, h
  <2> DEFINE v == (u \o l) \o h
  <2>4. /\ v \in Seq(Symbols) /\ Len(v) = Len(u) + Len(l) + Len(h)
        /\ Has(v, 0, u) /\ Has(v, Len(u), l) /\ Has(v, Len(u) + Len(l), h)
    BY <1>1, <2>2, Row
  <2> HIDE DEF v, Symbols, NL
  <2>5. /\ v \o <<NL>> \in Seq(Symbols) /\ Len(v \o <<NL>>) = Len(v) + Len(<<NL>>)
        /\ Has(v \o <<NL>>, Len(v), <<NL>>)
    BY <2>3, <2>4, HasLast, Zenon
  <2>6. /\ Len(u) + Len(l) = Len(u) + 2 /\ Len(v) = Len(u) + 4
        /\ Len(v) + Len(<<NL>>) = Len(u) + 5
    BY <1>1, <2>2, <2>3, <2>4
  <2>7. Has(v, Len(u) + 2, h)
    BY <2>4, <2>6
  <2>8. /\ Has(v \o <<NL>>, 0, u) /\ Has(v \o <<NL>>, Len(u), l)
        /\ Has(v \o <<NL>>, Len(u) + 2, h)
    <3>1. 0 \in Nat /\ Len(u) + 2 \in Nat
      BY <1>1
    <3> QED BY <1>1, <2>2, <2>3, <2>4, <2>7, <3>1, HasLonger, Zenon
  <2>9. FramedBody(m) = v \o <<NL>>
    BY <2>1 DEF v
  <2> QED BY <1>1, <1>3, <2>5, <2>6, <2>8, <2>9 DEF u, l, h
<1> QED BY <1>2, <1>3

ContinuePart(m) == IF m.continue THEN StatusLine(100) \o <<NL>> ELSE <<>>

LEMMA FramingHeaderFacts ==
  ASSUME NEW m \in Messages
  PROVE  /\ FramingHeader(m) \in Seq(Symbols) /\ Len(FramingHeader(m)) = FramingLength(m)
         /\ FramingLength(m) \in Nat /\ ContinueLength(m) \in Nat
         /\ FramingValue(m) \in Nat
         /\ ContinuePart(m) \in Seq(Symbols) /\ Len(ContinuePart(m)) = ContinueLength(m)
         /\ m.framing # "close" =>
              FramingHeader(m) = IF m.folded THEN Folded(FramingName(m), FramingValue(m))
                                 ELSE Header(FramingName(m), FramingValue(m))
         /\ m.continue => /\ Has(ContinuePart(m), 0, StatusLine(100))
                          /\ Has(ContinuePart(m), 2, <<NL>>)
<1>1. Body(m) \in Seq(Symbols)
  BY BodyFacts
<1>2. FramingValue(m) \in Nat /\ FramingValue(m) \in Int /\ FramingName(m) \in Names
  BY <1>1 DEF FramingValue, FramingName, Chunked, Names
<1>3. m.framing \in {"length", "chunked", "close"}
  BY DEF Messages
<1>4. ASSUME m.framing = "close"
      PROVE  FramingHeader(m) = <<>> /\ FramingLength(m) = 0
  BY <1>4 DEF FramingHeader, FramingLength
<1>5. ASSUME m.framing # "close"
      PROVE  FramingHeader(m) = IF m.folded THEN Folded(FramingName(m), FramingValue(m))
                                ELSE Header(FramingName(m), FramingValue(m))
  BY <1>3, <1>5 DEF FramingHeader, FramingName, FramingValue
<1>6. /\ ContinuePart(m) \in Seq(Symbols) /\ Len(ContinuePart(m)) = ContinueLength(m)
      /\ m.continue => /\ Has(ContinuePart(m), 0, StatusLine(100))
                       /\ Has(ContinuePart(m), 2, <<NL>>)
  <2>1. CASE ~m.continue
    <3>1. <<>> \in Seq(Symbols) /\ Len(<<>>) = 0
      OBVIOUS
    <3> QED BY <2>1, <3>1 DEF ContinuePart, ContinueLength
  <2>2. CASE m.continue
    <3> DEFINE l == StatusLine(100)
    <3>1. l \in Seq(Symbols) /\ Len(l) = 2 /\ <<NL>> \in Seq(Symbols) /\ Len(<<NL>>) = 1
      <4>1. 100 \in Nat
        OBVIOUS
      <4> QED BY <4>1, Lines, Zenon
    <3> HIDE DEF l, Symbols, NL
    <3>2. /\ l \o <<NL>> \in Seq(Symbols) /\ Len(l \o <<NL>>) = Len(l) + Len(<<NL>>)
          /\ Has(l \o <<NL>>, Len(l), <<NL>>) /\ Has(l \o <<NL>>, 0, l)
      BY <3>1, HasLast, Zenon
    <3>3. ContinuePart(m) = l \o <<NL>> /\ ContinueLength(m) = 3
      BY <2>2 DEF ContinuePart, ContinueLength, l
    <3>4. Len(l \o <<NL>>) = 3 /\ Has(l \o <<NL>>, 2, <<NL>>)
      BY <3>1, <3>2
    <3> QED BY <3>2, <3>3, <3>4 DEF l
  <2> QED BY <2>1, <2>2
<1>7. FramingLength(m) \in Nat /\ ContinueLength(m) \in Nat
  BY DEF FramingLength, ContinueLength
<1>8. FramingHeader(m) \in Seq(Symbols) /\ Len(FramingHeader(m)) = FramingLength(m)
  <2>1. CASE m.framing = "close"
    BY <1>4, <2>1, Lines
  <2>2. CASE m.framing # "close"
    <3>1. /\ Header(FramingName(m), FramingValue(m)) \in Seq(Symbols)
          /\ Len(Header(FramingName(m), FramingValue(m))) = 2
          /\ Folded(FramingName(m), FramingValue(m)) \in Seq(Symbols)
          /\ Len(Folded(FramingName(m), FramingValue(m))) = 4
      BY <1>2, Lines, Zenon
    <3> QED BY <1>5, <2>2, <3>1 DEF FramingLength
  <2> QED BY <2>1, <2>2
<1> QED BY <1>2, <1>5, <1>6, <1>7, <1>8

\* Where everything of a message is.
LEMMA EncodedFacts ==
  ASSUME NEW m \in Messages
  PROVE  LET o == ContinueLength(m)
             E == Encoded(m)
         IN  /\ E \in Seq(Symbols) /\ Len(E) = HeadLength(m) + Len(FramedBody(m))
             /\ Len(FramedBody(m)) \in Nat
             /\ Has(E, 0, ContinuePart(m)) /\ Has(E, o, StatusLine(m.status))
             /\ Has(E, o + 2, Header("other", 0)) /\ Has(E, o + 4, FramingHeader(m))
             /\ Has(E, o + 4 + FramingLength(m), <<NL>>)
             /\ Has(E, HeadLength(m), FramedBody(m))
<1> DEFINE o == ContinueLength(m)
           f == FramingLength(m)
           p == ContinuePart(m)
           l == StatusLine(m.status)
           h == Header("other", 0)
           g == FramingHeader(m)
           b == FramedBody(m)
<1>1. p \in Seq(Symbols) /\ Len(p) = o /\ o \in Nat
      /\ g \in Seq(Symbols) /\ Len(g) = f /\ f \in Nat
  BY FramingHeaderFacts
<1>2. l \in Seq(Symbols) /\ Len(l) = 2 /\ h \in Seq(Symbols) /\ Len(h) = 2
  <2>1. m.status \in Nat /\ 0 \in Int /\ "other" \in Names
    BY DEF Messages, Names
  <2> QED BY <2>1, Lines, Zenon
<1>3. <<NL>> \in Seq(Symbols) /\ Len(<<NL>>) = 1
  BY Lines
<1>4. b \in Seq(Symbols) /\ Len(b) \in Nat
  BY FramedFacts
<1>5. Encoded(m) = ((((p \o l) \o h) \o g) \o <<NL>>) \o b
  BY DEF Encoded, ContinuePart
<1>6. HeadLength(m) = o + 5 + f
  BY DEF HeadLength
<1> HIDE DEF o, f, p, l, h, g, b, Symbols, NL
<1> DEFINE s == (p \o l) \o h
<1>7. /\ s \in Seq(Symbols) /\ Len(s) = o + 4
      /\ Has(s, 0, p) /\ Has(s, o, l) /\ Has(s, o + 2, h)
  <2>1. /\ s \in Seq(Symbols) /\ Len(s) = Len(p) + Len(l) + Len(h)
        /\ Has(s, 0, p) /\ Has(s, Len(p), l) /\ Has(s, Len(p) + Len(l), h)
    BY <1>1, <1>2, Row
  <2> QED BY <1>1, <1>2, <2>1
<1> HIDE DEF s
<1> DEFINE t == (s \o g) \o <<NL>>
<1>8. /\ t \in Seq(Symbols) /\ Len(t) = o + 5 + f
      /\ Has(t, 0, s) /\ Has(t, o + 4, g) /\ Has(t, o + 4 + f, <<NL>>)
  <2>1. /\ t \in Seq(Symbols) /\ Len(t) = Len(s) + Len(g) + Len(<<NL>>)
        /\ Has(t, 0, s) /\ Has(t, Len(s), g) /\ Has(t, Len(s) + Len(g), <<NL>>)
    BY <1>1, <1>3, <1>7, Row, Zenon
  <2> QED BY <1>1, <1>3, <1>7, <2>1
<1> HIDE DEF t
<1>9. /\ t \o b \in Seq(Symbols) /\ Len(t \o b) = (o + 5 + f) + Len(b)
      /\ Has(t \o b, 0, t) /\ Has(t \o b, o + 5 + f, b)
  BY <1>4, <1>8, HasLast
<1>10. ASSUME NEW n \in Nat, NEW x \in Seq(Symbols), Has(t, n, x) PROVE Has(t \o b, n, x)
  BY <1>4, <1>8, <1>10, HasLonger
<1>11. ASSUME NEW n \in Nat, NEW x \in Seq(Symbols), Has(s, n, x) PROVE Has(t, n, x)
  <2>1. Has(t, 0 + n, x)
    BY <1>7, <1>8, <1>11, HasWithin
  <2> QED BY <2>1
<1>12. 0 \in Nat /\ o + 2 \in Nat /\ o + 4 \in Nat /\ o + 4 + f \in Nat
  BY <1>1
<1>13. /\ Has(t \o b, 0, p) /\ Has(t \o b, o, l) /\ Has(t \o b, o + 2, h)
       /\ Has(t \o b, o + 4, g) /\ Has(t \o b, o + 4 + f, <<NL>>)
  BY <1>1, <1>2, <1>3, <1>7, <1>8, <1>10, <1>11, <1>12, Zenon
<1>14. Encoded(m) = t \o b
  BY <1>5 DEF s, t
<1> QED BY <1>4, <1>6, <1>9, <1>13, <1>14 DEF o, f, p, l, h, g, b

-----------------------------------------------------------------------------
(* What the parser has made of the beginning of a message.                 *)

Responses ==
  [state : {"STATUSLINE", "HEADERS", "BODY", "CHUNKLEN", "CHUNKEND", "TRAILERS", "COMPLETE"},
   line : Seq(Symbols), status : Nat, accum : Seq(Headers), headers : SUBSET Headers,
   chunked : BOOLEAN, chunkleft : Nat, length : Nat \cup {-1}, read : Nat,
   body : Seq(Symbols), threw : BOOLEAN]

Other == [name |-> "other", value |-> 0]
FramingAs(m, v) == [name |-> FramingName(m), value |-> v]
\* The value on the line of the header's name.
FirstValue(m) == IF m.folded THEN Blank ELSE FramingValue(m)

\* Nothing of the body is known.
Bodiless(r) == /\ ~r.chunked /\ r.chunkleft = 0 /\ r.length = -1 /\ r.read = 0
               /\ r.body = <<>> /\ ~r.threw

Reading(r, state, line, accum, headers) ==
  /\ r.state = state /\ r.line = line /\ r.accum = accum /\ r.headers = headers

\* The first v symbols of m have been read, and they end before its body.
InHead(r, m, v) ==
  LET o == ContinueLength(m) IN
  /\ Bodiless(r)
  /\ \/ v \in {0, o} /\ Reading(r, "STATUSLINE", <<>>, <<>>, {})
     \/ /\ m.continue /\ v = 1
        /\ Reading(r, "STATUSLINE", <<[t |-> "status", code |-> 100]>>, <<>>, {})
     \/ m.continue /\ v = 2 /\ r.status = 100 /\ Reading(r, "HEADERS", <<>>, <<>>, {})
     \/ v = o + 1 /\ Reading(r, "STATUSLINE", <<[t |-> "status", code |-> m.status]>>, <<>>, {})
     \/ /\ r.status = m.status
        /\ \/ v = o + 2 /\ Reading(r, "HEADERS", <<>>, <<>>, {})
           \/ /\ v = o + 3
              /\ Reading(r, "HEADERS", <<[t |-> "header", name |-> "other", value |-> 0]>>,
                         <<>>, {})
           \/ v = o + 4 /\ Reading(r, "HEADERS", <<>>, <<Other>>, {})
           \/ /\ m.framing # "close" /\ v = o + 5
              /\ Reading(r, "HEADERS",
                         <<[t |-> "header", name |-> FramingName(m), value |-> FirstValue(m)]>>,
                         <<Other>>, {})
           \/ /\ m.framing # "close" /\ v = o + 6
              /\ Reading(r, "HEADERS", <<>>, <<FramingAs(m, FirstValue(m))>>, {Other})
           \/ /\ m.framing # "close" /\ m.folded /\ v = o + 7
              /\ Reading(r, "HEADERS", <<[t |-> "continuation", value |-> FramingValue(m)]>>,
                         <<FramingAs(m, Blank)>>, {Other})
           \/ /\ m.framing # "close" /\ m.folded /\ v = o + 8
              /\ Reading(r, "HEADERS", <<>>, <<FramingAs(m, FramingValue(m))>>, {Other})

\* x bytes of the body have been given.
BodyGiven(r, m, x) == r.read = x /\ r.body = SubSeq(Body(m), 1, x)

\* b symbols of a body without chunks have been read.
InPlainBody(r, m, b) ==
  /\ m.framing # "chunked" /\ b <= Len(Body(m))
  /\ ~r.chunked /\ r.state = "BODY" /\ BodyGiven(r, m, b)
  /\ IF m.framing = "length" THEN r.length = Len(Body(m)) /\ b < Len(Body(m))
     ELSE r.length = -1

ChunkStart(m, c) == Len(UpTo(ChunkParts(m), c - 1))
DataStart(m, c) == Len(UpTo(DataParts(m), c - 1))
\* The length that the c-th line of a length gives; the last of them gives 0.
ChunkSize(m, c) == IF c <= Len(m.chunks) THEN m.chunks[c] ELSE 0

AtChunkLine(r, m, b, c) ==
  /\ c \in 1 .. Len(m.chunks) + 1 /\ r.state = "CHUNKLEN" /\ BodyGiven(r, m, DataStart(m, c))
  /\ \/ b = ChunkStart(m, c) /\ r.line = <<>>
     \/ b = ChunkStart(m, c) + 1 /\ r.line = <<[t |-> "chunklen", n |-> ChunkSize(m, c)]>>

InChunk(r, m, b, c, p) ==
  /\ c \in 1 .. Len(m.chunks) /\ p \in 0 .. m.chunks[c] - 1
  /\ r.state = "BODY" /\ r.line = <<>> /\ r.chunkleft = m.chunks[c] - p
  /\ b = ChunkStart(m, c) + 2 + p /\ BodyGiven(r, m, DataStart(m, c) + p)

AtChunkEnd(r, m, b, c) ==
  /\ c \in 1 .. Len(m.chunks)
  /\ r.state = "CHUNKEND" /\ r.line = <<>>
  /\ b = ChunkStart(m, c) + 2 + m.chunks[c] /\ BodyGiven(r, m, DataStart(m, c + 1))

InTrailers(r, m, b) ==
  /\ r.state = "TRAILERS" /\ BodyGiven(r, m, Len(Body(m)))
  /\ \/ b \in {ChunksLength(m) + 2, ChunksLength(m) + 4} /\ r.line = <<>>
     \/ /\ b = ChunksLength(m) + 3
        /\ r.line = <<[t |-> "header", name |-> "other", value |-> 0]>>

InChunkedBody(r, m, b) ==
  /\ m.framing = "chunked" /\ r.chunked
  /\ \/ \E c \in Nat : AtChunkLine(r, m, b, c) \/ AtChunkEnd(r, m, b, c)
     \/ \E c, p \in Nat : InChunk(r, m, b, c, p)
     \/ InTrailers(r, m, b)

InBody(r, m, v) ==
  /\ r.status = m.status /\ ~r.threw /\ v - HeadLength(m) \in Nat
  /\ InPlainBody(r, m, v - HeadLength(m)) \/ InChunkedBody(r, m, v - HeadLength(m))

\* The messages an HTTP server sends with a body: the code waits for the rest
\* of one that has none (http_empty).
Bodied(m) == /\ m.framing = "length" => m.chunks # <<>>
             /\ m.framing # "chunked" => m.status # 204

\* A line is read up to its end.
LEMMA FeedText ==
  ASSUME NEW r \in Responses, NEW c \in Symbols, c.t # "newline", r.state # "BODY", r.line = <<>>
  PROVE  Feed(r, c) \in Responses /\ Feed(r, c) = [r EXCEPT !.line = <<c>>]
<1>1. c # NL
  BY DEF NL
<1>2. Append(r.line, c) = <<c>> /\ <<c>> \in Seq(Symbols)
  OBVIOUS
<1>3. Feed(r, c) = [r EXCEPT !.line = Append(@, c)]
  BY <1>1 DEF Feed
<1>4. Feed(r, c) = [r EXCEPT !.line = <<c>>]
  BY <1>2, <1>3 DEF Responses
<1> HIDE DEF Symbols
<1>5. [r EXCEPT !.line = <<c>>] \in Responses
  BY <1>2 DEF Responses
<1> QED BY <1>4, <1>5

\* And then processed.
LEMMA FeedNewline ==
  ASSUME NEW r \in Responses, r.state # "BODY"
  PROVE  /\ Feed(r, NL) = ProcessLine([r EXCEPT !.line = <<>>], r.line)
         /\ [r EXCEPT !.line = <<>>] \in Responses
<1>1. <<>> \in Seq(Symbols)
  OBVIOUS
<1> HIDE DEF Symbols
<1> QED BY <1>1 DEF Feed, Responses

LEMMA FeedStatus ==
  ASSUME NEW r \in Responses, NEW code \in Nat, r.state = "STATUSLINE",
         r.line = <<[t |-> "status", code |-> code]>>
  PROVE  /\ Feed(r, NL) \in Responses
         /\ Feed(r, NL) = [r EXCEPT !.line = <<>>, !.status = code, !.state = "HEADERS",
                                   !.accum = <<>>]
<1> DEFINE e == [r EXCEPT !.line = <<>>]
           x == [t |-> "status", code |-> code]
<1>1. Feed(r, NL) = ProcessLine(e, r.line) /\ e \in Responses
  BY FeedNewline
<1>2. e.state = "STATUSLINE"
  BY DEF Responses
<1>3. x.t = "status" /\ x.code = code /\ r.line = <<x>> /\ <<x>> # <<>> /\ <<x>>[1] = x
  OBVIOUS
<1> HIDE DEF x, Symbols
<1>4. Feed(r, NL) = [e EXCEPT !.status = code, !.state = "HEADERS", !.accum = <<>>]
  BY <1>1, <1>2, <1>3 DEF ProcessLine, ProcessStatusLine
<1>5. <<>> \in Seq(Headers)
  OBVIOUS
<1>6. [e EXCEPT !.status = code, !.state = "HEADERS", !.accum = <<>>] \in Responses
  BY <1>1, <1>5 DEF Responses
<1>7. [e EXCEPT !.status = code, !.state = "HEADERS", !.accum = <<>>]
        = [r EXCEPT !.line = <<>>, !.status = code, !.state = "HEADERS", !.accum = <<>>]
  BY DEF Responses
<1> QED BY <1>4, <1>6, <1>7

FlushedHeaders(r) ==
  IF r.accum = <<>> THEN r.headers
  ELSE {h \in r.headers : h.name # r.accum[1].name} \cup {r.accum[1]}

LEMMA FlushFacts ==
  ASSUME NEW r \in Responses
  PROVE  /\ FlushHeader(r) \in Responses
         /\ FlushHeader(r) = [r EXCEPT !.headers = FlushedHeaders(r), !.accum = <<>>]
<1> DEFINE f == [r EXCEPT !.headers = FlushedHeaders(r), !.accum = <<>>]
<1>1. FlushHeader(r) = f
  <2>1. CASE r.accum = <<>>
    BY <2>1 DEF FlushHeader, FlushedHeaders, Responses
  <2>2. CASE r.accum # <<>>
    <3>1. FlushHeader(r) =
            [r EXCEPT !.headers = {h \in @ : h.name # r.accum[1].name} \cup {r.accum[1]},
                      !.accum = <<>>]
      BY <2>2 DEF FlushHeader
    <3>2. FlushedHeaders(r) = {h \in r.headers : h.name # r.accum[1].name} \cup {r.accum[1]}
      BY <2>2 DEF FlushedHeaders
    <3> DEFINE H == FlushedHeaders(r)
    <3> HIDE DEF H
    <3>3. FlushHeader(r) = [r EXCEPT !.headers = H, !.accum = <<>>]
      BY <3>1, <3>2 DEF H, Responses
    <3> QED BY <3>3 DEF H
  <2> QED BY <2>1, <2>2
<1>2. FlushedHeaders(r) \subseteq Headers
  <2>1. r.accum # <<>> => r.accum[1] \in Headers
    BY DEF Responses
  <2>2. r.headers \subseteq Headers
    BY DEF Responses
  <2> QED BY <2>1, <2>2 DEF FlushedHeaders
<1>3. <<>> \in Seq(Headers)
  OBVIOUS
<1>4. f \in Responses
  BY <1>2, <1>3 DEF Responses
<1> QED BY <1>1, <1>4

LEMMA FeedHeader ==
  ASSUME NEW r \in Responses, NEW h \in Headers, r.state = "HEADERS",
         r.line = <<[t |-> "header", name |-> h.name, value |-> h.value]>>
  PROVE  /\ Feed(r, NL) \in Responses
         /\ Feed(r, NL) = [r EXCEPT !.line = <<>>, !.headers = FlushedHeaders(r), !.accum = <<h>>]
<1> DEFINE e == [r EXCEPT !.line = <<>>]
           x == [t |-> "header", name |-> h.name, value |-> h.value]
<1>1. Feed(r, NL) = ProcessLine(e, r.line) /\ e \in Responses
  BY FeedNewline
<1>2. e.state = "HEADERS" /\ e.accum = r.accum /\ e.headers = r.headers
  BY DEF Responses
<1>3. x.t = "header" /\ r.line = <<x>> /\ <<x>> # <<>> /\ <<x>>[1] = x
  OBVIOUS
<1>4. [name |-> x.name, value |-> x.value] = h
  BY DEF Headers
<1>5. /\ FlushHeader(e) = [e EXCEPT !.headers = FlushedHeaders(e), !.accum = <<>>]
      /\ FlushHeader(e) \in Responses
  BY <1>1, FlushFacts
<1>6. FlushedHeaders(e) = FlushedHeaders(r)
  BY <1>2 DEF FlushedHeaders
<1>7. <<h>> \in Seq(Headers)
  OBVIOUS
<1> HIDE DEF x, Symbols, Headers
<1>8. Feed(r, NL) = [FlushHeader(e) EXCEPT !.accum = <<h>>]
  BY <1>1, <1>2, <1>3, <1>4 DEF ProcessLine, ProcessHeaderLine
<1>9. [FlushHeader(e) EXCEPT !.accum = <<h>>] \in Responses
  BY <1>5, <1>7 DEF Responses
<1> DEFINE H == FlushedHeaders(r)
<1>10. FlushHeader(e) = [e EXCEPT !.headers = H, !.accum = <<>>]
  BY <1>5, <1>6
<1> HIDE DEF H
<1>11. [FlushHeader(e) EXCEPT !.accum = <<h>>]
         = [r EXCEPT !.line = <<>>, !.headers = H, !.accum = <<h>>]
  BY <1>10 DEF Responses
<1> QED BY <1>8, <1>9, <1>11 DEF H

LEMMA FeedContinuation ==
  ASSUME NEW r \in Responses, NEW h \in Headers, NEW v \in Int, r.state = "HEADERS",
         r.line = <<[t |-> "continuation", value |-> v]>>, r.accum = <<h>>, h.value = Blank
  PROVE  /\ Feed(r, NL) \in Responses
         /\ Feed(r, NL) = [r EXCEPT !.line = <<>>, !.accum = <<[h EXCEPT !.value = v]>>]
<1> DEFINE e == [r EXCEPT !.line = <<>>]
           x == [t |-> "continuation", value |-> v]
           g == [h EXCEPT !.value = v]
<1>1. Feed(r, NL) = ProcessLine(e, r.line) /\ e \in Responses
  BY FeedNewline
<1>2. e.state = "HEADERS" /\ e.accum = <<h>> /\ <<h>> # <<>> /\ <<h>>[1] = h
  BY DEF Responses
<1>3. x.t = "continuation" /\ x.value = v /\ r.line = <<x>> /\ <<x>> # <<>> /\ <<x>>[1] = x
  OBVIOUS
<1>4. Continued(h, x) = g
  BY DEF Continued
<1>5. g \in Headers
  BY DEF Headers
<1> HIDE DEF x, g, Symbols, Headers
<1>6. Feed(r, NL) = [e EXCEPT !.accum = <<Continued(@[1], x)>>]
  BY <1>1, <1>2, <1>3 DEF ProcessLine, ProcessHeaderLine
<1>7. Feed(r, NL) = [e EXCEPT !.accum = <<g>>]
  BY <1>1, <1>2, <1>4, <1>6 DEF Responses
<1>8. <<g>> \in Seq(Headers)
  BY <1>5
<1>9. [e EXCEPT !.accum = <<g>>] \in Responses
  BY <1>1, <1>8 DEF Responses
<1>10. [e EXCEPT !.accum = <<g>>] = [r EXCEPT !.line = <<>>, !.accum = <<g>>]
  BY DEF Responses
<1> QED BY <1>7, <1>9, <1>10 DEF g

\* The headers are complete.
HeadersEnded(r) == [r EXCEPT !.line = <<>>, !.headers = FlushedHeaders(r), !.accum = <<>>]

Continuing(r) == [HeadersEnded(r) EXCEPT !.state = "STATUSLINE"]

\* The blank line after them.
LEMMA FeedBlank ==
  ASSUME NEW r \in Responses, r.state = "HEADERS", r.line = <<>>
  PROVE  /\ HeadersEnded(r) \in Responses
         /\ Feed(r, NL) = IF r.status = 100 THEN Continuing(r) ELSE BeginBody(HeadersEnded(r))
<1> DEFINE e == [r EXCEPT !.line = <<>>]
           H == FlushedHeaders(r)
           f == [r EXCEPT !.line = <<>>, !.headers = H, !.accum = <<>>]
<1>1. Feed(r, NL) = ProcessLine(e, r.line) /\ e \in Responses
  BY FeedNewline
<1>2. e.state = "HEADERS" /\ e.accum = r.accum /\ e.headers = r.headers /\ e.status = r.status
  BY DEF Responses
<1>3. /\ FlushHeader(e) = [e EXCEPT !.headers = FlushedHeaders(e), !.accum = <<>>]
      /\ FlushHeader(e) \in Responses
  BY <1>1, FlushFacts
<1>4. FlushedHeaders(e) = H
  BY <1>2 DEF FlushedHeaders
<1> HIDE DEF H
<1>5. FlushHeader(e) = f
  BY <1>3, <1>4 DEF Responses
<1>6. f.status = r.status
  BY DEF Responses
<1> HIDE DEF f
<1>7. Feed(r, NL) = EndHeaders(e)
  BY <1>1, <1>2 DEF ProcessLine, ProcessHeaderLine
<1>8. Feed(r, NL) = IF r.status = 100 THEN [f EXCEPT !.state = "STATUSLINE"] ELSE BeginBody(f)
  BY <1>5, <1>6, <1>7 DEF EndHeaders
<1> QED BY <1>3, <1>5, <1>8 DEF f, H, HeadersEnded, Continuing

\* What the headers say of the body.
Awaited(m) == IF m.status = 204 THEN 0 ELSE IF m.framing = "length" THEN Len(Body(m)) ELSE -1

BodyBegun(m, f) == [f EXCEPT !.chunked = (m.framing = "chunked"), !.length = Awaited(m),
                             !.state = IF m.framing = "chunked" THEN "CHUNKLEN" ELSE "BODY"]

LEMMA BeginBodyFacts ==
  ASSUME NEW m \in Messages, Bodied(m), NEW f \in Responses, f.status = m.status,
         f.headers = IF m.framing = "close" THEN {Other}
                     ELSE {Other, FramingAs(m, FramingValue(m))}
  PROVE  BeginBody(f) \in Responses /\ BeginBody(f) = BodyBegun(m, f)
<1> DEFINE C == HeaderValues(f, "transfer-encoding")
           N == HeaderValues(f, "content-length")
<1>0. m.framing \in {"length", "chunked", "close"} /\ m.status \in {200, 204, 404}
  BY DEF Messages
<1>1. Len(Body(m)) \in Nat
  BY BodyFacts
<1> DEFINE a == Other
           b == FramingAs(m, FramingValue(m))
<1>2. /\ a.name = "other" /\ b.value = FramingValue(m) /\ b.name = FramingName(m)
      /\ FramingName(m) = IF m.framing = "length" THEN "content-length" ELSE "transfer-encoding"
      /\ m.framing = "chunked" => FramingValue(m) = 0
      /\ m.framing = "length" => FramingValue(m) = Len(Body(m))
  BY DEF Other, FramingAs, FramingName, FramingValue, Chunked
<1> HIDE DEF a, b
<1>10. \A name \in {"content-length", "transfer-encoding"} :
         {g \in f.headers : g.name = name} =
           IF m.framing # "close" /\ FramingName(m) = name THEN {b} ELSE {}
  <2>1. f.headers = IF m.framing = "close" THEN {a} ELSE {a, b}
    BY DEF a, b
  <2> QED BY <1>2, <2>1
<1>11. \A name \in {"content-length", "transfer-encoding"} :
         HeaderValues(f, name) =
           IF m.framing # "close" /\ FramingName(m) = name THEN {FramingValue(m)} ELSE {}
  BY <1>2, <1>10 DEF HeaderValues
<1>12. C = IF m.framing = "chunked" THEN {0} ELSE {}
  BY <1>0, <1>2, <1>11
<1>3. N = IF m.framing = "length" THEN {Len(Body(m))} ELSE {}
  BY <1>0, <1>2, <1>11
<1>4. IsChunked(f) = (m.framing = "chunked")
  BY <1>12 DEF IsChunked, Chunked
<1> DEFINE length == IF NoBodyStatus(f.status) THEN 0
                     ELSE IF N # {} /\ ~IsChunked(f) THEN CHOOSE v \in N : TRUE ELSE -1
           k == IF m.status = 204 THEN 0
                ELSE IF m.framing = "length" THEN Len(Body(m)) ELSE -1
<1>5. NoBodyStatus(f.status) = (m.status = 204)
  BY <1>0 DEF NoBodyStatus
<1>6. length = k
  <2>1. m.framing = "length" => (CHOOSE v \in N : TRUE) = Len(Body(m))
    BY <1>3
  <2>2. N # {} <=> m.framing = "length"
    BY <1>3
  <2> HIDE DEF N
  <2> QED BY <1>4, <1>5, <2>1, <2>2
<1>7. BeginBody(f) = [f EXCEPT !.chunked = IsChunked(f), !.length = length,
                              !.state = IF IsChunked(f) THEN "CHUNKLEN" ELSE "BODY"]
  BY DEF BeginBody
<1>8. k \in Nat \cup {-1}
  BY <1>1
<1> HIDE DEF length, k, C, N
<1>9. BeginBody(f) = [f EXCEPT !.chunked = (m.framing = "chunked"), !.length = k,
                              !.state = IF m.framing = "chunked" THEN "CHUNKLEN" ELSE "BODY"]
  BY <1>4, <1>6, <1>7
<1>13. BeginBody(f) \in Responses
  BY <1>8, <1>9 DEF Responses
<1> QED BY <1>9, <1>13 DEF k, BodyBegun, Awaited

\* The symbols of the head of a message.
LEMMA HeadSymbols ==
  ASSUME NEW m \in Messages
  PROVE  LET o == ContinueLength(m)
             E == Encoded(m)
         IN  /\ m.continue => E[1] = [t |-> "status", code |-> 100] /\ E[2] = NL /\ E[3] = NL
             /\ E[o + 1] = [t |-> "status", code |-> m.status] /\ E[o + 2] = NL
             /\ E[o + 3] = [t |-> "header", name |-> "other", value |-> 0] /\ E[o + 4] = NL
             /\ m.framing # "close" =>
                  /\ E[o + 5] = [t |-> "header", name |-> FramingName(m),
                                 value |-> FirstValue(m)]
                  /\ E[o + 6] = NL
                  /\ m.folded => /\ E[o + 7] = [t |-> "continuation", value |-> FramingValue(m)]
                                 /\ E[o + 8] = NL
             /\ E[HeadLength(m)] = NL
<1> DEFINE o == ContinueLength(m)
           E == Encoded(m)
           f == FramingLength(m)
           p == ContinuePart(m)
           g == FramingHeader(m)
           x == [t |-> "status", code |-> m.status]
           y == [t |-> "header", name |-> "other", value |-> 0]
<1>1. /\ o \in Nat /\ f \in Nat /\ HeadLength(m) = o + 5 + f
      /\ p \in Seq(Symbols) /\ g \in Seq(Symbols) /\ Len(g) = f
  BY FramingHeaderFacts DEF HeadLength
<1>2. /\ Has(E, 0, p) /\ Has(E, o, StatusLine(m.status)) /\ Has(E, o + 2, Header("other", 0))
      /\ Has(E, o + 4, g) /\ Has(E, o + 4 + f, <<NL>>)
  BY EncodedFacts
<1>3. /\ StatusLine(m.status) = <<x, NL>> /\ StatusLine(m.status) \in Seq(Symbols)
      /\ Header("other", 0) = <<y, NL>> /\ Header("other", 0) \in Seq(Symbols)
      /\ <<NL>> \in Seq(Symbols)
  <2>1. m.status \in Nat /\ 0 \in Int /\ "other" \in Names
    BY DEF Messages, Names
  <2> QED BY <2>1, Lines, Zenon
<1> HIDE DEF o, E, f, p, g, x, y, Symbols, NL
<1>4. ASSUME NEW n \in Nat, NEW a, NEW b, <<a, b>> \in Seq(Symbols), Has(E, n, <<a, b>>)
      PROVE  E[n + 1] = a /\ E[n + 2] = b
  <2>1. Len(<<a, b>>) = 2 /\ <<a, b>>[1] = a /\ <<a, b>>[2] = b
    OBVIOUS
  <2>2. 1 \in 1 .. Len(<<a, b>>) /\ 2 \in 1 .. Len(<<a, b>>)
    BY <2>1
  <2>3. E[n + 1] = <<a, b>>[1] /\ E[n + 2] = <<a, b>>[2]
    BY <1>4, <2>2, HasAt, Zenon
  <2> QED BY <2>1, <2>3
<1>5. ASSUME NEW n \in Nat, Has(E, n, <<NL>>) PROVE E[n + 1] = NL
  <2>1. Len(<<NL>>) = 1 /\ <<NL>>[1] = NL /\ 1 \in 1 .. 1
    OBVIOUS
  <2>2. E[n + 1] = <<NL>>[1]
    BY <1>3, <1>5, <2>1, HasAt, Zenon
  <2> QED BY <2>1, <2>2
<1>6. E[o + 1] = x /\ E[o + 2] = NL
  <2>1. <<x, NL>> \in Seq(Symbols) /\ Has(E, o, <<x, NL>>)
    BY <1>2, <1>3
  <2> QED BY <1>1, <1>4, <2>1, Zenon
<1>7. E[o + 3] = y /\ E[o + 4] = NL
  <2>1. o + 2 \in Nat
    BY <1>1
  <2>4. <<y, NL>> \in Seq(Symbols) /\ Has(E, o + 2, <<y, NL>>)
    BY <1>2, <1>3, Zenon
  <2>2. E[(o + 2) + 1] = y /\ E[(o + 2) + 2] = NL
    BY <1>4, <2>1, <2>4, Zenon
  <2>3. (o + 2) + 1 = o + 3 /\ (o + 2) + 2 = o + 4
    BY <1>1
  <2> QED BY <2>2, <2>3
<1>8. E[HeadLength(m)] = NL
  <2>1. o + 4 + f \in Nat /\ (o + 4 + f) + 1 = HeadLength(m)
    BY <1>1
  <2> QED BY <1>2, <1>5, <2>1
<1>9. ASSUME m.continue
      PROVE  E[1] = [t |-> "status", code |-> 100] /\ E[2] = NL /\ E[3] = NL
  <2> DEFINE z == [t |-> "status", code |-> 100]
             l == StatusLine(100)
  <2>1. l = <<z, NL>> /\ l \in Seq(Symbols)
    <3>1. 100 \in Nat
      OBVIOUS
    <3> QED BY <3>1, Lines, Zenon
  <2>2. Has(p, 0, l) /\ Has(p, 2, <<NL>>)
    BY <1>9, FramingHeaderFacts DEF p
  <2>3. E \in Seq(Symbols)
    BY EncodedFacts DEF E
  <2> HIDE DEF z, l
  <2>4. Has(E, 0 + 0, l) /\ Has(E, 0 + 2, <<NL>>)
    <3>1. 0 \in Nat /\ 2 \in Nat
      OBVIOUS
    <3> QED BY <1>1, <1>2, <1>3, <2>1, <2>2, <2>3, <3>1, HasWithin, Zenon
  <2>5. E[(0 + 0) + 1] = z /\ E[(0 + 0) + 2] = NL
    <3>1. 0 + 0 \in Nat
      OBVIOUS
    <3>2. <<z, NL>> \in Seq(Symbols) /\ Has(E, 0 + 0, <<z, NL>>)
      BY <2>1, <2>4
    <3> QED BY <1>4, <3>1, <3>2, Zenon
  <2>6. E[(0 + 2) + 1] = NL
    <3>1. 0 + 2 \in Nat
      OBVIOUS
    <3> QED BY <1>5, <2>4, <3>1, Zenon
  <2>7. (0 + 0) + 1 = 1 /\ (0 + 0) + 2 = 2 /\ (0 + 2) + 1 = 3
    OBVIOUS
  <2> QED BY <2>5, <2>6, <2>7 DEF z
<1>10. ASSUME m.framing # "close"
       PROVE  /\ E[o + 5] = [t |-> "header", name |-> FramingName(m), value |-> FirstValue(m)]
              /\ E[o + 6] = NL
              /\ m.folded => /\ E[o + 7] = [t |-> "continuation", value |-> FramingValue(m)]
                             /\ E[o + 8] = NL
  <2> DEFINE a == [t |-> "header", name |-> FramingName(m), value |-> FirstValue(m)]
             b == [t |-> "continuation", value |-> FramingValue(m)]
  <2>1. FramingName(m) \in Names /\ FramingValue(m) \in Int
    BY FramingHeaderFacts DEF FramingName, Names
  <2>2. g = IF m.folded THEN <<a, NL, b, NL>> ELSE <<a, NL>>
    <3>1. g = IF m.folded THEN Folded(FramingName(m), FramingValue(m))
              ELSE Header(FramingName(m), FramingValue(m))
      BY <1>10, FramingHeaderFacts DEF g
    <3>2. /\ Header(FramingName(m), FramingValue(m)) =
               <<[t |-> "header", name |-> FramingName(m), value |-> FramingValue(m)], NL>>
          /\ Folded(FramingName(m), FramingValue(m)) =
               <<[t |-> "header", name |-> FramingName(m), value |-> Blank], NL, b, NL>>
      BY <2>1, Lines, Zenon
    <3> QED BY <3>1, <3>2 DEF FirstValue
  <2> HIDE DEF a, b
  <2>3. ASSUME NEW j \in 1 .. f PROVE E[(o + 4) + j] = g[j]
    <3>1. o + 4 \in Nat /\ j \in 1 .. Len(g)
      BY <1>1
    <3> QED BY <1>1, <1>2, <3>1, HasAt, Zenon
  <2>4. f = IF m.folded THEN 4 ELSE 2
    BY <1>10 DEF f, FramingLength
  <2>5. E[(o + 4) + 1] = a /\ E[(o + 4) + 2] = NL
    <3>1. 1 \in 1 .. f /\ 2 \in 1 .. f
      BY <2>4
    <3>2. g[1] = a /\ g[2] = NL
      BY <2>2
    <3>3. E[(o + 4) + 1] = g[1] /\ E[(o + 4) + 2] = g[2]
      BY <2>3, <3>1
    <3> QED BY <3>2, <3>3
  <2>6. m.folded => E[(o + 4) + 3] = b /\ E[(o + 4) + 4] = NL
    <3> SUFFICES ASSUME m.folded PROVE E[(o + 4) + 3] = b /\ E[(o + 4) + 4] = NL
      OBVIOUS
    <3>1. 3 \in 1 .. f /\ 4 \in 1 .. f
      BY <2>4
    <3>2. g[3] = b /\ g[4] = NL
      BY <2>2
    <3>3. E[(o + 4) + 3] = g[3] /\ E[(o + 4) + 4] = g[4]
      BY <2>3, <3>1
    <3> QED BY <3>2, <3>3
  <2>7. /\ (o + 4) + 1 = o + 5 /\ (o + 4) + 2 = o + 6
        /\ (o + 4) + 3 = o + 7 /\ (o + 4) + 4 = o + 8
    BY <1>1
  <2> QED BY <2>5, <2>6, <2>7 DEF a, b
<1> QED BY <1>6, <1>7, <1>8, <1>9, <1>10 DEF o, E, x, y

\* What reading a line changes, before the body.
LEMMA TextRead ==
  ASSUME NEW r \in Responses, Bodiless(r), NEW a, NEW H, NEW c \in Symbols, c.t # "newline",
         NEW st \in {"STATUSLINE", "HEADERS"}, Reading(r, st, <<>>, a, H)
  PROVE  /\ Feed(r, c) \in Responses /\ Bodiless(Feed(r, c))
         /\ Feed(r, c).status = r.status /\ Reading(Feed(r, c), st, <<c>>, a, H)
<1>1. r.state # "BODY" /\ r.line = <<>>
  BY DEF Reading
<1>2. Feed(r, c) \in Responses /\ Feed(r, c) = [r EXCEPT !.line = <<c>>]
  BY <1>1, FeedText
<1> HIDE DEF Symbols
<1> QED BY <1>2 DEF Bodiless, Reading, Responses

LEMMA StatusRead ==
  ASSUME NEW r \in Responses, Bodiless(r), NEW a, NEW H, NEW code \in Nat,
         Reading(r, "STATUSLINE", <<[t |-> "status", code |-> code]>>, a, H)
  PROVE  /\ Feed(r, NL) \in Responses /\ Bodiless(Feed(r, NL))
         /\ Feed(r, NL).status = code /\ Reading(Feed(r, NL), "HEADERS", <<>>, <<>>, H)
<1>1. /\ Feed(r, NL) \in Responses
      /\ Feed(r, NL) = [r EXCEPT !.line = <<>>, !.status = code, !.state = "HEADERS",
                                 !.accum = <<>>]
  BY FeedStatus DEF Reading
<1> HIDE DEF Symbols
<1> QED BY <1>1 DEF Bodiless, Reading, Responses

LEMMA HeaderRead ==
  ASSUME NEW r \in Responses, Bodiless(r), NEW a, NEW H, NEW h \in Headers,
         Reading(r, "HEADERS", <<[t |-> "header", name |-> h.name, value |-> h.value]>>, a, H)
  PROVE  /\ Feed(r, NL) \in Responses /\ Bodiless(Feed(r, NL))
         /\ Feed(r, NL).status = r.status
         /\ Reading(Feed(r, NL), "HEADERS", <<>>, <<h>>, FlushedHeaders(r))
<1>1. /\ Feed(r, NL) \in Responses
      /\ Feed(r, NL) = [r EXCEPT !.line = <<>>, !.headers = FlushedHeaders(r), !.accum = <<h>>]
  BY FeedHeader DEF Reading
<1> DEFINE G == FlushedHeaders(r)
<1> HIDE DEF Symbols, G
<1>2. Feed(r, NL) = [r EXCEPT !.line = <<>>, !.headers = G, !.accum = <<h>>]
  BY <1>1 DEF G
<1>3. r.state = "HEADERS"
  BY DEF Reading
<1>4. /\ Bodiless(Feed(r, NL)) /\ Feed(r, NL).status = r.status
      /\ Reading(Feed(r, NL), "HEADERS", <<>>, <<h>>, G)
  BY <1>2, <1>3 DEF Bodiless, Reading, Responses
<1> QED BY <1>1, <1>4 DEF G

LEMMA ContinuationRead ==
  ASSUME NEW r \in Responses, Bodiless(r), NEW H, NEW h \in Headers, NEW v \in Int,
         h.value = Blank,
         Reading(r, "HEADERS", <<[t |-> "continuation", value |-> v]>>, <<h>>, H)
  PROVE  /\ Feed(r, NL) \in Responses /\ Bodiless(Feed(r, NL))
         /\ Feed(r, NL).status = r.status
         /\ Reading(Feed(r, NL), "HEADERS", <<>>, <<[h EXCEPT !.value = v]>>, H)
<1> DEFINE g == <<[h EXCEPT !.value = v]>>
<1>1. /\ r.state = "HEADERS" /\ r.accum = <<h>> /\ r.headers = H
      /\ r.line = <<[t |-> "continuation", value |-> v]>>
  BY DEF Reading
<1>2. /\ Feed(r, NL) \in Responses
      /\ Feed(r, NL) = [r EXCEPT !.line = <<>>, !.accum = g]
  BY <1>1, FeedContinuation
<1> HIDE DEF Symbols, g
<1>3. /\ Bodiless(Feed(r, NL)) /\ Feed(r, NL).status = r.status
      /\ Reading(Feed(r, NL), "HEADERS", <<>>, g, H)
  BY <1>1, <1>2 DEF Bodiless, Reading, Responses
<1> QED BY <1>2, <1>3 DEF g

LEMMA PrefixFacts ==
  ASSUME NEW B \in Seq(Symbols)
  PROVE  /\ Len(B) \in Nat /\ SubSeq(B, 1, 0) = <<>> /\ SubSeq(B, 1, Len(B)) = B
         /\ \A x \in 0 .. Len(B) : SubSeq(B, 1, x) \in Seq(Symbols)
         /\ \A x \in 0 .. Len(B) - 1 : Append(SubSeq(B, 1, x), B[x + 1]) = SubSeq(B, 1, x + 1)
<1>1. Len(B) \in Nat /\ SubSeq(B, 1, 0) = <<>> /\ SubSeq(B, 1, Len(B)) = B
  OBVIOUS
<1> HIDE DEF Symbols
<1>2. ASSUME NEW x \in 0 .. Len(B)
      PROVE  SubSeq(B, 1, x) \in Seq(Symbols) /\ Len(SubSeq(B, 1, x)) = x
             /\ \A i \in 1 .. x : SubSeq(B, 1, x)[i] = B[i]
  OBVIOUS
<1>3. ASSUME NEW x \in 0 .. Len(B) - 1
      PROVE  Append(SubSeq(B, 1, x), B[x + 1]) = SubSeq(B, 1, x + 1)
  <2> DEFINE a == SubSeq(B, 1, x)
             b == SubSeq(B, 1, x + 1)
             e == B[x + 1]
  <2>1. x \in 0 .. Len(B) /\ x + 1 \in 0 .. Len(B) /\ x \in Nat /\ e \in Symbols
    OBVIOUS
  <2>2. a \in Seq(Symbols) /\ Len(a) = x /\ \A i \in 1 .. x : a[i] = B[i]
    BY <1>2, <2>1
  <2>3. b \in Seq(Symbols) /\ Len(b) = x + 1 /\ \A i \in 1 .. x + 1 : b[i] = B[i]
    BY <1>2, <2>1
  <2>4. b[x + 1] = e
    BY <2>1, <2>3
  <2> HIDE DEF a, b, e
  <2>5. /\ Append(a, e) \in Seq(Symbols) /\ Len(Append(a, e)) = x + 1
        /\ Append(a, e)[x + 1] = e /\ \A i \in 1 .. x : Append(a, e)[i] = a[i]
    BY <2>1, <2>2
  <2>6. \A i \in 1 .. x + 1 : Append(a, e)[i] = b[i]
    BY <2>1, <2>2, <2>3, <2>4, <2>5
  <2>7. Append(a, e) = b
    BY <2>3, <2>5, <2>6, SeqEqual
  <2> QED BY <2>7 DEF a, b, e
<1> QED BY <1>1, <1>2, <1>3

\* v symbols of m have been read, and it is not at its end.
At(r, m, v) ==
  /\ r \in Responses /\ v \in Nat
  /\ IF v < HeadLength(m) THEN InHead(r, m, v) ELSE InBody(r, m, v)

\* Where the first and the last of the chunks are.
LEMMA FirstChunk ==
  ASSUME NEW m \in Messages
  PROVE  /\ ChunkStart(m, 1) = 0 /\ DataStart(m, 1) = 0 /\ Len(m.chunks) \in Nat
         /\ ChunkStart(m, Len(m.chunks) + 1) = ChunksLength(m)
         /\ DataStart(m, Len(m.chunks) + 1) = Len(Body(m))
         /\ m.chunks # <<>> => Len(Body(m)) > 0
<1> DEFINE L == Len(m.chunks)
<1>1. /\ L \in Nat /\ Parts(DataParts(m), L) /\ Parts(ChunkParts(m), L)
      /\ Body(m) = UpTo(DataParts(m), L) /\ Body(m) \in Seq(Symbols)
  BY BodyFacts
<1>2. UpTo(ChunkParts(m), 0) = <<>> /\ UpTo(DataParts(m), 0) = <<>>
  BY <1>1, UpToFacts, Zenon
<1>3. 1 - 1 = 0 /\ (L + 1) - 1 = L
  BY <1>1
<1>4. ChunkStart(m, 1) = 0 /\ DataStart(m, 1) = 0
  BY <1>2, <1>3 DEF ChunkStart, DataStart
<1>5. ASSUME m.chunks # <<>> PROVE Len(Body(m)) > 0
  <2>1. L # 0
    BY <1>5 DEF Messages
  <2>2. 1 \in 1 .. L /\ L \in 1 .. L
    BY <1>1, <2>1
  <2>3. /\ Has(UpTo(DataParts(m), L), Len(UpTo(DataParts(m), 1 - 1)), DataParts(m)[1])
        /\ DataParts(m)[1] \in Seq(Symbols)
    BY <1>1, <2>2, PartAt, Zenon
  <2>4. Len(DataParts(m)[1]) = m.chunks[1] /\ m.chunks[1] \in Nat \ {0}
    BY <2>2, DataFacts DEF DataParts
  <2>5. 0 + Len(DataParts(m)[1]) <= Len(Body(m))
    BY <1>1, <1>2, <1>3, <2>3 DEF Has
  <2>6. Len(Body(m)) \in Nat
    BY <1>1
  <2> QED BY <2>4, <2>5, <2>6
<1> QED BY <1>1, <1>3, <1>4, <1>5 DEF ChunkStart, DataStart, ChunksLength

\* The blank line that ends the head.
LEMMA BodyBegins ==
  ASSUME NEW m \in Messages, Bodied(m), NEW r \in Responses, Bodiless(r), r.status = m.status,
         IF m.framing = "close" THEN Reading(r, "HEADERS", <<>>, <<Other>>, {})
         ELSE Reading(r, "HEADERS", <<>>, <<FramingAs(m, FramingValue(m))>>, {Other})
  PROVE  At(Feed(r, NL), m, HeadLength(m))
<1> DEFINE H == FlushedHeaders(r)
           f == HeadersEnded(r)
           s == Feed(r, NL)
<1>1. r.state = "HEADERS" /\ r.line = <<>> /\ r.status # 100 /\ m.status \in {200, 204, 404}
  BY DEF Reading, Messages
<1>2. f \in Responses /\ s = BeginBody(f)
  <2>1. r.state = "HEADERS" /\ r.line = <<>>
    BY <1>1
  <2>2. HeadersEnded(r) \in Responses
        /\ Feed(r, NL) = IF r.status = 100 THEN Continuing(r) ELSE BeginBody(HeadersEnded(r))
    BY <2>1, FeedBlank
  <2> QED BY <1>1, <2>2
<1>3. H = IF m.framing = "close" THEN {Other} ELSE {Other, FramingAs(m, FramingValue(m))}
  <2> DEFINE a == Other
             b == FramingAs(m, FramingValue(m))
  <2>1. a.name # b.name
    BY DEF Other, FramingAs, FramingName
  <2>2. IF m.framing = "close" THEN r.accum = <<a>> /\ r.headers = {}
        ELSE r.accum = <<b>> /\ r.headers = {a}
    BY DEF Reading
  <2> HIDE DEF a, b
  <2>3. \A h : <<h>> # <<>> /\ <<h>>[1] = h
    OBVIOUS
  <2>4. m.framing = "close" => H = {h \in {} : h.name # a.name} \cup {a}
    BY <2>2, <2>3 DEF FlushedHeaders
  <2>5. m.framing # "close" => H = {h \in {a} : h.name # b.name} \cup {b}
    BY <2>2, <2>3 DEF FlushedHeaders
  <2> HIDE DEF H
  <2>6. H = IF m.framing = "close" THEN {a} ELSE {a, b}
    BY <2>1, <2>4, <2>5
  <2> QED BY <2>6 DEF a, b
<1> HIDE DEF H
<1>4. f.status = m.status /\ f.headers = H
  <2>1. f = [r EXCEPT !.line = <<>>, !.headers = H, !.accum = <<>>]
    BY DEF HeadersEnded, H
  <2> QED BY <2>1 DEF Responses
<1> DEFINE k == Awaited(m)
           st == IF m.framing = "chunked" THEN "CHUNKLEN" ELSE "BODY"
<1>5. /\ s \in Responses
      /\ s = [f EXCEPT !.chunked = (m.framing = "chunked"), !.length = k, !.state = st]
  <2>1. BeginBody(f) \in Responses /\ BeginBody(f) = BodyBegun(m, f)
    BY <1>2, <1>3, <1>4, BeginBodyFacts
  <2> QED BY <1>2, <2>1 DEF BodyBegun
<1>6. /\ HeadLength(m) \in Nat /\ HeadLength(m) - HeadLength(m) = 0
      /\ ~(HeadLength(m) < HeadLength(m)) /\ Len(Body(m)) \in Nat
      /\ SubSeq(Body(m), 1, 0) = <<>>
  BY FramingHeaderFacts, BodyFacts DEF HeadLength
<1>7. m.framing \in {"length", "chunked", "close"}
  BY DEF Messages
<1>8. m.framing # "chunked" => k = IF m.framing = "length" THEN Len(Body(m)) ELSE -1
  BY DEF Bodied, Awaited
<1>9. m.framing = "length" => Len(Body(m)) > 0
  BY FirstChunk DEF Bodied
<1>10. /\ f.chunkleft = 0 /\ f.read = 0 /\ f.body = <<>> /\ ~f.threw /\ f.line = <<>>
  BY DEF Bodiless, Responses, HeadersEnded
<1> HIDE DEF k, st, f
<1>11. /\ s.chunked = (m.framing = "chunked") /\ s.length = k /\ s.state = st
       /\ s.status = m.status
       /\ s.chunkleft = 0 /\ s.read = 0 /\ s.body = <<>> /\ ~s.threw /\ s.line = <<>>
  BY <1>2, <1>4, <1>5, <1>10 DEF Responses
<1> HIDE DEF s
<1>12. BodyGiven(s, m, 0)
  BY <1>6, <1>11 DEF BodyGiven
<1>13. m.framing # "chunked" => InPlainBody(s, m, 0)
  <2> SUFFICES ASSUME m.framing # "chunked" PROVE InPlainBody(s, m, 0)
    OBVIOUS
  <2>1. ~s.chunked
    BY <1>11
  <2>2. s.state = "BODY"
    BY <1>11 DEF st
  <2>3. 0 <= Len(Body(m)) /\ (m.framing = "length" => 0 < Len(Body(m)))
    BY <1>6, <1>9
  <2>4. s.length = IF m.framing = "length" THEN Len(Body(m)) ELSE -1
    BY <1>8, <1>11
  <2> QED BY <1>12, <2>1, <2>2, <2>3, <2>4 DEF InPlainBody
<1>14. m.framing = "chunked" => InChunkedBody(s, m, 0)
  <2>1. 1 \in 1 .. Len(m.chunks) + 1 /\ ChunkStart(m, 1) = 0 /\ DataStart(m, 1) = 0
    BY FirstChunk
  <2>2. m.framing = "chunked" => AtChunkLine(s, m, 0, 1)
    BY <1>11, <1>12, <2>1 DEF AtChunkLine, st
  <2> QED BY <1>11, <2>2 DEF InChunkedBody
<1>15. InBody(s, m, HeadLength(m))
  BY <1>6, <1>7, <1>11, <1>13, <1>14 DEF InBody
<1> QED BY <1>5, <1>6, <1>15 DEF At, s

\* One more symbol of the head.
LEMMA HeadStep ==
  ASSUME NEW m \in Messages, Bodied(m), NEW r \in Responses, NEW v \in Nat,
         v < HeadLength(m), InHead(r, m, v)
  PROVE  At(Feed(r, Encoded(m)[v + 1]), m, v + 1)
<1> DEFINE o == ContinueLength(m)
           c == Encoded(m)[v + 1]
           s == Feed(r, c)
           x == [t |-> "status", code |-> m.status]
           z == [t |-> "status", code |-> 100]
           y == [t |-> "header", name |-> "other", value |-> 0]
           a == [t |-> "header", name |-> FramingName(m), value |-> FirstValue(m)]
           b == [t |-> "continuation", value |-> FramingValue(m)]
           n == FramingAs(m, FirstValue(m))
           w == FramingAs(m, FramingValue(m))
<1>1. /\ m.status \in Nat /\ m.status # 100 /\ 100 \in Nat
      /\ m.continue \in BOOLEAN /\ m.folded \in BOOLEAN
  BY DEF Messages
<1>2. /\ HeadLength(m) = o + 5 + FramingLength(m) /\ o = IF m.continue THEN 3 ELSE 0
      /\ FramingLength(m) = IF m.framing = "close" THEN 0 ELSE IF m.folded THEN 4 ELSE 2
  BY DEF HeadLength, FramingLength, ContinueLength
<1>3. FramingValue(m) \in Int /\ FirstValue(m) \in Int /\ FramingName(m) \in Names
  BY FramingHeaderFacts DEF FirstValue, Blank, FramingName, Names
<1>4. /\ x \in Symbols /\ z \in Symbols /\ y \in Symbols /\ a \in Symbols /\ b \in Symbols
      /\ x.t # "newline" /\ z.t # "newline" /\ y.t # "newline" /\ a.t # "newline"
      /\ b.t # "newline"
  BY <1>1, <1>3 DEF Symbols, Names
<1>5. /\ Other \in Headers /\ n \in Headers /\ w \in Headers
      /\ Other.name = "other" /\ Other.value = 0
      /\ n.name = FramingName(m) /\ n.value = FirstValue(m) /\ n.name # "other"
      /\ (m.folded => n.value = Blank /\ [n EXCEPT !.value = FramingValue(m)] = w)
      /\ (~m.folded => n = w)
  BY <1>3 DEF Other, FramingAs, Headers, Names, FramingName, FirstValue
<1>6. /\ m.continue => Encoded(m)[1] = z /\ Encoded(m)[2] = NL /\ Encoded(m)[3] = NL
      /\ Encoded(m)[o + 1] = x /\ Encoded(m)[o + 2] = NL
      /\ Encoded(m)[o + 3] = y /\ Encoded(m)[o + 4] = NL
      /\ m.framing # "close" =>
           /\ Encoded(m)[o + 5] = a /\ Encoded(m)[o + 6] = NL
           /\ m.folded => Encoded(m)[o + 7] = b /\ Encoded(m)[o + 8] = NL
      /\ Encoded(m)[HeadLength(m)] = NL
  BY HeadSymbols
<1>7. Bodiless(r)
  BY DEF InHead
<1>8. v + 1 \in Nat
  OBVIOUS
<1> SUFFICES At(s, m, v + 1)
  OBVIOUS
\* The places before the last line.
<1>9. ASSUME s \in Responses, v + 1 < HeadLength(m), InHead(s, m, v + 1)
      PROVE  At(s, m, v + 1)
  BY <1>8, <1>9 DEF At
<1>10. ASSUME v + 1 = HeadLength(m), c = NL, r.status = m.status,
              IF m.framing = "close" THEN Reading(r, "HEADERS", <<>>, <<Other>>, {})
              ELSE Reading(r, "HEADERS", <<>>, <<w>>, {Other})
       PROVE  At(s, m, v + 1)
  <2>1. At(Feed(r, NL), m, HeadLength(m))
    BY <1>7, <1>10, BodyBegins
  <2> QED BY <1>10, <2>1
<1> HIDE DEF o, s, x, y, z, a, b, n, w, Symbols, NL, Headers, Names
<1>11. CASE v = 0 /\ m.continue /\ Reading(r, "STATUSLINE", <<>>, <<>>, {})
  <2>1. c = z /\ v + 1 = 1 /\ 1 < HeadLength(m)
    BY <1>2, <1>6, <1>11
  <2>2. s \in Responses /\ Bodiless(s) /\ Reading(s, "STATUSLINE", <<z>>, <<>>, {})
    BY <1>4, <1>7, <1>11, <2>1, TextRead DEF s
  <2>3. InHead(s, m, v + 1)
    BY <1>11, <2>1, <2>2 DEF InHead, z
  <2> QED BY <1>9, <2>1, <2>2, <2>3
<1>12. CASE v = o /\ Reading(r, "STATUSLINE", <<>>, <<>>, {})
  <2>1. c = x /\ v + 1 = o + 1 /\ o + 1 < HeadLength(m)
    BY <1>2, <1>6, <1>12
  <2>2. s \in Responses /\ Bodiless(s) /\ Reading(s, "STATUSLINE", <<x>>, <<>>, {})
    BY <1>4, <1>7, <1>12, <2>1, TextRead DEF s
  <2>3. InHead(s, m, v + 1)
    BY <1>12, <2>1, <2>2 DEF InHead, x, o
  <2> QED BY <1>9, <2>1, <2>2, <2>3
<1>13. CASE m.continue /\ v = 1 /\ Reading(r, "STATUSLINE", <<z>>, <<>>, {})
  <2>1. c = NL /\ v + 1 = 2 /\ 2 < HeadLength(m)
    BY <1>2, <1>6, <1>13
  <2>2. s \in Responses /\ Bodiless(s) /\ s.status = 100 /\ Reading(s, "HEADERS", <<>>, <<>>, {})
    BY <1>1, <1>7, <1>13, <2>1, StatusRead DEF s, z
  <2>3. InHead(s, m, v + 1)
    BY <1>13, <2>1, <2>2 DEF InHead
  <2> QED BY <1>9, <2>1, <2>2, <2>3
<1>14. CASE m.continue /\ v = 2 /\ r.status = 100 /\ Reading(r, "HEADERS", <<>>, <<>>, {})
  <2>1. c = NL /\ v + 1 = o /\ o < HeadLength(m)
    BY <1>2, <1>6, <1>14
  <2>2. HeadersEnded(r) \in Responses /\ s = Continuing(r)
    BY <1>14, <2>1, FeedBlank DEF s, Reading
  <2>3. FlushedHeaders(r) = {}
    BY <1>14 DEF FlushedHeaders, Reading
  <2>4. s = [r EXCEPT !.line = <<>>, !.headers = {}, !.accum = <<>>, !.state = "STATUSLINE"]
    BY <2>2, <2>3 DEF Continuing, HeadersEnded, Responses
  <2>5. s \in Responses
    BY <2>2 DEF Continuing, Responses
  <2>6. Bodiless(s) /\ Reading(s, "STATUSLINE", <<>>, <<>>, {})
    BY <1>7, <2>4 DEF Bodiless, Reading, Responses
  <2>7. InHead(s, m, v + 1)
    BY <2>1, <2>6 DEF InHead, o
  <2> QED BY <1>9, <2>1, <2>5, <2>7
<1>15. CASE v = o + 1 /\ Reading(r, "STATUSLINE", <<x>>, <<>>, {})
  <2>1. c = NL /\ v + 1 = o + 2 /\ o + 2 < HeadLength(m)
    BY <1>2, <1>6, <1>15
  <2>2. /\ s \in Responses /\ Bodiless(s) /\ s.status = m.status
        /\ Reading(s, "HEADERS", <<>>, <<>>, {})
    BY <1>1, <1>7, <1>15, <2>1, StatusRead DEF s, x
  <2>3. InHead(s, m, v + 1)
    BY <1>15, <2>1, <2>2 DEF InHead, o
  <2> QED BY <1>9, <2>1, <2>2, <2>3
<1>16. CASE v = o + 2 /\ r.status = m.status /\ Reading(r, "HEADERS", <<>>, <<>>, {})
  <2>1. c = y /\ v + 1 = o + 3 /\ o + 3 < HeadLength(m)
    BY <1>2, <1>6, <1>16
  <2>2. /\ s \in Responses /\ Bodiless(s) /\ s.status = m.status
        /\ Reading(s, "HEADERS", <<y>>, <<>>, {})
    BY <1>4, <1>7, <1>16, <2>1, TextRead DEF s
  <2>3. InHead(s, m, v + 1)
    BY <1>16, <2>1, <2>2 DEF InHead, o, y
  <2> QED BY <1>9, <2>1, <2>2, <2>3
<1>17. CASE v = o + 3 /\ r.status = m.status /\ Reading(r, "HEADERS", <<y>>, <<>>, {})
  <2>1. c = NL /\ v + 1 = o + 4 /\ o + 4 < HeadLength(m)
    BY <1>2, <1>6, <1>17
  <2>2. Reading(r, "HEADERS", <<[t |-> "header", name |-> Other.name, value |-> Other.value]>>,
                <<>>, {})
    BY <1>5, <1>17 DEF y
  <2>3. FlushedHeaders(r) = {}
    BY <1>17 DEF FlushedHeaders, Reading
  <2>6. /\ Feed(r, NL) \in Responses /\ Bodiless(Feed(r, NL)) /\ Feed(r, NL).status = r.status
        /\ Reading(Feed(r, NL), "HEADERS", <<>>, <<Other>>, FlushedHeaders(r))
    BY <1>5, <1>7, <2>2, HeaderRead
  <2>4. /\ s \in Responses /\ Bodiless(s) /\ s.status = m.status
        /\ Reading(s, "HEADERS", <<>>, <<Other>>, {})
    BY <1>17, <2>1, <2>3, <2>6 DEF s
  <2>5. InHead(s, m, v + 1)
    BY <1>17, <2>1, <2>4 DEF InHead, o
  <2> QED BY <1>9, <2>1, <2>4, <2>5
<1>18. CASE v = o + 4 /\ r.status = m.status /\ Reading(r, "HEADERS", <<>>, <<Other>>, {})
  <2>1. CASE m.framing = "close"
    <3>1. c = NL /\ v + 1 = HeadLength(m)
      BY <1>2, <1>6, <1>18, <2>1
    <3> QED BY <1>10, <1>18, <2>1, <3>1
  <2>2. CASE m.framing # "close"
    <3>1. c = a /\ v + 1 = o + 5 /\ o + 5 < HeadLength(m)
      BY <1>2, <1>6, <1>18, <2>2
    <3>2. /\ s \in Responses /\ Bodiless(s) /\ s.status = m.status
          /\ Reading(s, "HEADERS", <<a>>, <<Other>>, {})
      BY <1>4, <1>7, <1>18, <3>1, TextRead DEF s
    <3>3. InHead(s, m, v + 1)
      BY <1>18, <2>2, <3>1, <3>2 DEF InHead, o, a
    <3> QED BY <1>9, <3>1, <3>2, <3>3
  <2> QED BY <2>1, <2>2
<1>19. CASE /\ m.framing # "close" /\ v = o + 5 /\ r.status = m.status
            /\ Reading(r, "HEADERS", <<a>>, <<Other>>, {})
  <2>1. c = NL /\ v + 1 = o + 6 /\ o + 6 < HeadLength(m)
    BY <1>2, <1>6, <1>19
  <2>2. Reading(r, "HEADERS", <<[t |-> "header", name |-> n.name, value |-> n.value]>>,
                <<Other>>, {})
    BY <1>5, <1>19 DEF a
  <2>3. FlushedHeaders(r) = {Other}
    BY <1>19 DEF FlushedHeaders, Reading
  <2>6. /\ Feed(r, NL) \in Responses /\ Bodiless(Feed(r, NL)) /\ Feed(r, NL).status = r.status
        /\ Reading(Feed(r, NL), "HEADERS", <<>>, <<n>>, FlushedHeaders(r))
    BY <1>5, <1>7, <2>2, HeaderRead
  <2>4. /\ s \in Responses /\ Bodiless(s) /\ s.status = m.status
        /\ Reading(s, "HEADERS", <<>>, <<n>>, {Other})
    BY <1>19, <2>1, <2>3, <2>6 DEF s
  <2>5. InHead(s, m, v + 1)
    BY <1>19, <2>1, <2>4 DEF InHead, o, n
  <2> QED BY <1>9, <2>1, <2>4, <2>5
<1>20. CASE /\ m.framing # "close" /\ v = o + 6 /\ r.status = m.status
            /\ Reading(r, "HEADERS", <<>>, <<n>>, {Other})
  <2>1. CASE ~m.folded
    <3>1. c = NL /\ v + 1 = HeadLength(m)
      BY <1>2, <1>6, <1>20, <2>1
    <3>2. Reading(r, "HEADERS", <<>>, <<w>>, {Other})
      BY <1>5, <1>20, <2>1
    <3> QED BY <1>10, <1>20, <3>1, <3>2
  <2>2. CASE m.folded
    <3>1. c = b /\ v + 1 = o + 7 /\ o + 7 < HeadLength(m)
      BY <1>2, <1>6, <1>20, <2>2
    <3>2. n = FramingAs(m, Blank)
      BY <2>2 DEF n, FirstValue
    <3>3. /\ s \in Responses /\ Bodiless(s) /\ s.status = m.status
          /\ Reading(s, "HEADERS", <<b>>, <<n>>, {Other})
      BY <1>4, <1>7, <1>20, <3>1, TextRead DEF s
    <3>4. InHead(s, m, v + 1)
      BY <1>20, <2>2, <3>1, <3>2, <3>3 DEF InHead, o, b
    <3> QED BY <1>9, <3>1, <3>3, <3>4
  <2> QED BY <1>1, <2>1, <2>2
<1>21. CASE /\ m.framing # "close" /\ m.folded /\ v = o + 7 /\ r.status = m.status
            /\ Reading(r, "HEADERS", <<b>>, <<n>>, {Other})
  <2>1. c = NL /\ v + 1 = o + 8 /\ o + 8 < HeadLength(m)
    BY <1>2, <1>6, <1>21
  <2>2. /\ Feed(r, NL) \in Responses /\ Bodiless(Feed(r, NL)) /\ Feed(r, NL).status = r.status
        /\ Reading(Feed(r, NL), "HEADERS", <<>>, <<[n EXCEPT !.value = FramingValue(m)]>>, {Other})
    BY <1>3, <1>5, <1>7, <1>21, ContinuationRead DEF b
  <2>3. /\ s \in Responses /\ Bodiless(s) /\ s.status = m.status
        /\ Reading(s, "HEADERS", <<>>, <<w>>, {Other})
    BY <1>5, <1>21, <2>1, <2>2 DEF s
  <2>4. InHead(s, m, v + 1)
    BY <1>21, <2>1, <2>3 DEF InHead, o, w
  <2> QED BY <1>9, <2>1, <2>3, <2>4
<1>22. CASE /\ m.framing # "close" /\ m.folded /\ v = o + 8 /\ r.status = m.status
            /\ Reading(r, "HEADERS", <<>>, <<w>>, {Other})
  <2>1. c = NL /\ v + 1 = HeadLength(m)
    BY <1>2, <1>6, <1>22
  <2> QED BY <1>10, <1>22, <2>1
<1>23. \/ v \in {0, o} /\ Reading(r, "STATUSLINE", <<>>, <<>>, {})
       \/ m.continue /\ v = 1 /\ Reading(r, "STATUSLINE", <<z>>, <<>>, {})
       \/ m.continue /\ v = 2 /\ r.status = 100 /\ Reading(r, "HEADERS", <<>>, <<>>, {})
       \/ v = o + 1 /\ Reading(r, "STATUSLINE", <<x>>, <<>>, {})
       \/ /\ r.status = m.status
          /\ \/ v = o + 2 /\ Reading(r, "HEADERS", <<>>, <<>>, {})
             \/ v = o + 3 /\ Reading(r, "HEADERS", <<y>>, <<>>, {})
             \/ v = o + 4 /\ Reading(r, "HEADERS", <<>>, <<Other>>, {})
             \/ m.framing # "close" /\ v = o + 5 /\ Reading(r, "HEADERS", <<a>>, <<Other>>, {})
             \/ m.framing # "close" /\ v = o + 6 /\ Reading(r, "HEADERS", <<>>, <<n>>, {Other})
             \/ /\ m.framing # "close" /\ m.folded /\ v = o + 7
                /\ Reading(r, "HEADERS", <<b>>, <<FramingAs(m, Blank)>>, {Other})
             \/ /\ m.framing # "close" /\ m.folded /\ v = o + 8
                /\ Reading(r, "HEADERS", <<>>, <<w>>, {Other})
  BY Zenon DEF InHead, o, x, y, z, a, b, n, w
<1>24. m.folded => n = FramingAs(m, Blank)
  BY DEF n, FirstValue
<1>25. v = 0 /\ ~m.continue => v = o
  BY <1>2
<1> QED BY <1>11, <1>12, <1>13, <1>14, <1>15, <1>16, <1>17, <1>18, <1>19, <1>20, <1>21, <1>22,
           <1>23, <1>24, <1>25

\* The symbols of a chunk.
LEMMA ChunkSymbols ==
  ASSUME NEW m \in Messages, m.framing = "chunked", NEW c \in 1 .. Len(m.chunks)
  PROVE  LET n == m.chunks[c]
             k == ChunkStart(m, c)
             d == DataStart(m, c)
             F == FramedBody(m)
         IN  /\ n \in Nat \ {0} /\ k \in Nat /\ d \in Nat
             /\ ChunkStart(m, c + 1) = k + n + 3 /\ DataStart(m, c + 1) = d + n
             /\ k + n + 3 <= ChunksLength(m) /\ d + n <= Len(Body(m))
             /\ F[k + 1] = [t |-> "chunklen", n |-> n] /\ F[k + 2] = NL
             /\ \A p \in 1 .. n : F[k + 2 + p] = Body(m)[d + p]
             /\ F[k + n + 3] = NL
<1> DEFINE n == m.chunks[c]
           k == ChunkStart(m, c)
           d == DataStart(m, c)
           F == FramedBody(m)
           L == Len(m.chunks)
           D == Data(c, n)
           K == Chunk(m, c)
           z == [t |-> "chunklen", n |-> n]
           A == UpTo(ChunkParts(m), L)
           B == Body(m)
<1>1. /\ L \in Nat /\ Parts(DataParts(m), L) /\ Parts(ChunkParts(m), L)
      /\ B = UpTo(DataParts(m), L) /\ B \in Seq(Symbols) /\ A \in Seq(Symbols)
  BY BodyFacts
<1>2. n \in Nat \ {0} /\ D \in Seq(Symbols) /\ Len(D) = n
  BY DataFacts
<1>3. /\ K \in Seq(Symbols) /\ Len(K) = n + 3
      /\ Has(K, 0, ChunkLine(n)) /\ Has(K, 2, D) /\ Has(K, n + 2, <<NL>>)
  BY ChunkFacts
<1>4. ChunkLine(n) = <<z, NL>> /\ ChunkLine(n) \in Seq(Symbols) /\ <<NL>> \in Seq(Symbols)
  BY <1>2, Lines
<1>5. DataParts(m)[c] = D /\ ChunkParts(m)[c] = K
  BY DEF DataParts, ChunkParts
<1>6. c \in 1 .. L /\ L \in c .. L /\ (c + 1) - 1 = c
  BY <1>1
<1> HIDE DEF n, F, L, D, K, z, A, B, Symbols, NL
<1>7. /\ UpTo(DataParts(m), c - 1) \in Seq(Symbols)
      /\ Len(UpTo(DataParts(m), c)) = Len(UpTo(DataParts(m), c - 1)) + Len(D)
      /\ Has(B, Len(UpTo(DataParts(m), c - 1)), D)
  BY <1>1, <1>5, <1>6, PartAt
<1>8. /\ UpTo(ChunkParts(m), c - 1) \in Seq(Symbols)
      /\ Len(UpTo(ChunkParts(m), c)) = Len(UpTo(ChunkParts(m), c - 1)) + Len(K)
      /\ Has(A, Len(UpTo(ChunkParts(m), c - 1)), K)
  BY <1>1, <1>5, <1>6, PartAt DEF A
<1>9. k \in Nat /\ d \in Nat
  BY <1>7, <1>8 DEF ChunkStart, DataStart
<1>10. /\ ChunkStart(m, c + 1) = k + Len(K) /\ DataStart(m, c + 1) = d + Len(D)
       /\ Has(A, k, K) /\ Has(B, d, D)
  BY <1>6, <1>7, <1>8 DEF ChunkStart, DataStart
<1>11. Has(F, 0, A) /\ F \in Seq(Symbols) /\ ChunksLength(m) = Len(A) /\ Len(A) \in Nat
  BY <1>1, FramedFacts DEF F, A, L, ChunksLength
<1> HIDE DEF k, d
<1>12. Has(F, 0 + k, K)
  <2>1. 0 \in Nat
    OBVIOUS
  <2> QED BY <1>1, <1>3, <1>9, <1>10, <1>11, <2>1, HasWithin, Zenon
<1>13. 0 + k = k
  BY <1>9
<1>14. ASSUME NEW i \in 1 .. n + 3 PROVE F[k + i] = K[i]
  <2>1. i \in 1 .. Len(K) /\ Has(F, k, K)
    BY <1>3, <1>12, <1>13
  <2> QED BY <1>3, <1>9, <2>1, HasAt, Zenon
<1>15. K[1] = z /\ K[2] = NL
  <2>1. <<z, NL>>[1] = z /\ <<z, NL>>[2] = NL /\ Len(<<z, NL>>) = 2
    OBVIOUS
  <2>2. 1 \in 1 .. Len(<<z, NL>>) /\ 2 \in 1 .. Len(<<z, NL>>) /\ 0 \in Nat
    BY <2>1
  <2>4. Has(K, 0, <<z, NL>>) /\ <<z, NL>> \in Seq(Symbols)
    BY <1>3, <1>4, Zenon
  <2>3. K[0 + 1] = <<z, NL>>[1] /\ K[0 + 2] = <<z, NL>>[2]
    BY <1>3, <2>2, <2>4, HasAt, Zenon
  <2> QED BY <2>1, <2>3
<1>16. K[n + 3] = NL
  <2>1. <<NL>>[1] = NL /\ 1 \in 1 .. Len(<<NL>>)
    OBVIOUS
  <2>2. n + 2 \in Nat /\ (n + 2) + 1 = n + 3
    BY <1>2
  <2>3. K[(n + 2) + 1] = <<NL>>[1]
    BY <1>3, <1>4, <2>1, <2>2, HasAt, Zenon
  <2> QED BY <2>1, <2>2, <2>3
<1>17. ASSUME NEW p \in 1 .. n PROVE F[k + 2 + p] = B[d + p]
  <2>1. p \in 1 .. Len(D) /\ 2 \in Nat
    BY <1>2
  <2>2. K[2 + p] = D[p]
    BY <1>2, <1>3, <2>1, HasAt, Zenon
  <2>3. B[d + p] = D[p]
    BY <1>2, <1>9, <1>10, <2>1, HasAt, Zenon
  <2>4. 2 + p \in 1 .. n + 3 /\ k + (2 + p) = k + 2 + p
    BY <1>2, <1>9
  <2>5. F[k + (2 + p)] = K[2 + p]
    BY <1>14, <2>4, Zenon
  <2> QED BY <2>2, <2>3, <2>4, <2>5
<1>18. F[k + 1] = z /\ F[k + 2] = NL /\ F[k + (n + 3)] = NL
  <2>1. 1 \in 1 .. n + 3 /\ 2 \in 1 .. n + 3 /\ n + 3 \in 1 .. n + 3
    BY <1>2
  <2> QED BY <1>14, <1>15, <1>16, <2>1
<1>19. k + (n + 3) = k + n + 3 /\ k + n + 3 <= Len(A) /\ d + n <= Len(B)
  BY <1>2, <1>3, <1>9, <1>10 DEF Has
<1>20. ChunkStart(m, c + 1) = k + n + 3 /\ DataStart(m, c + 1) = d + n
  BY <1>2, <1>3, <1>9, <1>10, <1>19
<1> QED BY <1>2, <1>9, <1>11, <1>17, <1>18, <1>19, <1>20 DEF n, k, d, F, B, z

\* And those after the last chunk.
LEMMA TrailerSymbols ==
  ASSUME NEW m \in Messages, m.framing = "chunked"
  PROVE  LET n == ChunksLength(m)
             F == FramedBody(m)
         IN  /\ n \in Nat /\ Len(F) = n + 5
             /\ F[n + 1] = [t |-> "chunklen", n |-> 0] /\ F[n + 2] = NL
             /\ F[n + 3] = [t |-> "header", name |-> "other", value |-> 0]
             /\ F[n + 4] = NL /\ F[n + 5] = NL
<1> DEFINE n == ChunksLength(m)
           F == FramedBody(m)
           z == [t |-> "chunklen", n |-> 0]
           y == [t |-> "header", name |-> "other", value |-> 0]
<1>1. /\ n \in Nat /\ Len(F) = n + 5
      /\ Has(F, n, ChunkLine(0)) /\ Has(F, n + 2, Header("other", 0)) /\ Has(F, n + 4, <<NL>>)
  BY FramedFacts
<1>2. /\ ChunkLine(0) = <<z, NL>> /\ ChunkLine(0) \in Seq(Symbols)
      /\ Header("other", 0) = <<y, NL>> /\ Header("other", 0) \in Seq(Symbols)
      /\ <<NL>> \in Seq(Symbols)
  <2>1. 0 \in Nat /\ 0 \in Int /\ "other" \in Names
    BY DEF Names
  <2> QED BY <2>1, Lines
<1> HIDE DEF n, F, z, y, Symbols, NL
<1>3. ASSUME NEW i \in Nat, NEW a, NEW b, <<a, b>> \in Seq(Symbols), Has(F, i, <<a, b>>)
      PROVE  F[i + 1] = a /\ F[i + 2] = b
  <2>1. Len(<<a, b>>) = 2 /\ <<a, b>>[1] = a /\ <<a, b>>[2] = b
    OBVIOUS
  <2>2. 1 \in 1 .. Len(<<a, b>>) /\ 2 \in 1 .. Len(<<a, b>>)
    BY <2>1
  <2>3. F[i + 1] = <<a, b>>[1] /\ F[i + 2] = <<a, b>>[2]
    BY <1>3, <2>2, HasAt, Zenon
  <2> QED BY <2>1, <2>3
<1>4. F[n + 1] = z /\ F[n + 2] = NL
  <2>1. <<z, NL>> \in Seq(Symbols) /\ Has(F, n, <<z, NL>>)
    BY <1>1, <1>2, Zenon
  <2> QED BY <1>1, <1>3, <2>1, Zenon
<1>5. n + 2 \in Nat /\ n + 4 \in Nat /\ (n + 2) + 1 = n + 3 /\ (n + 2) + 2 = n + 4
      /\ (n + 4) + 1 = n + 5
  BY <1>1
<1>6. F[(n + 2) + 1] = y /\ F[(n + 2) + 2] = NL
  <2>1. <<y, NL>> \in Seq(Symbols) /\ Has(F, n + 2, <<y, NL>>)
    BY <1>1, <1>2, Zenon
  <2> QED BY <1>3, <1>5, <2>1, Zenon
<1>7. F[(n + 4) + 1] = NL
  <2>1. <<NL>>[1] = NL /\ 1 \in 1 .. Len(<<NL>>)
    OBVIOUS
  <2>2. F[(n + 4) + 1] = <<NL>>[1]
    BY <1>1, <1>2, <1>5, <2>1, HasAt, Zenon
  <2> QED BY <2>1, <2>2
<1> QED BY <1>1, <1>4, <1>5, <1>6, <1>7 DEF n, F, z, y

\* m has been read, and ended by its own length.
Done(r, m) == /\ r \in Responses /\ r.state = "COMPLETE" /\ ~r.threw
              /\ r.status = m.status /\ r.body = Body(m)

\* What a symbol of a body changes.
Grown(r, s) == s.status = r.status /\ s.read \in {r.read, r.read + 1}

\* One more symbol of a body that is not in chunks.
LEMMA PlainStep ==
  ASSUME NEW m \in Messages, NEW r \in Responses, r.status = m.status, ~r.threw,
         NEW b \in Nat, InPlainBody(r, m, b), b < Len(Body(m))
  PROVE  LET s == Feed(r, Body(m)[b + 1]) IN
         /\ s \in Responses /\ Grown(r, s) /\ ~s.threw /\ ~Unused(r)
         /\ IF m.framing = "length" /\ b + 1 = Len(Body(m)) THEN Done(s, m)
            ELSE InPlainBody(s, m, b + 1)
<1> DEFINE B == Body(m)
           c == B[b + 1]
           s == Feed(r, c)
           g == Append(r.body, c)
           f == [r EXCEPT !.body = g, !.read = r.read + 1]
<1>1. B \in Seq(Symbols) /\ Len(B) \in Nat
  BY BodyFacts
<1>2. /\ m.framing # "chunked" /\ ~r.chunked /\ r.state = "BODY" /\ r.read = b
      /\ r.body = SubSeq(B, 1, b)
      /\ (m.framing = "length" => r.length = Len(B))
      /\ (m.framing # "length" => r.length = -1)
  BY DEF InPlainBody, BodyGiven
<1>3. c \in Symbols /\ b \in 0 .. Len(B) - 1 /\ b + 1 \in 0 .. Len(B)
  BY <1>1
<1>4. Append(r.body, c) = SubSeq(B, 1, b + 1) /\ SubSeq(B, 1, b + 1) \in Seq(Symbols)
  BY <1>1, <1>2, <1>3, PrefixFacts
<1>5. r.length # r.read
  BY <1>1, <1>2
<1>6. SubSeq(B, 1, Len(B)) = B
  BY <1>1, PrefixFacts
<1> SUFFICES /\ s \in Responses /\ Grown(r, s) /\ ~s.threw /\ ~Unused(r)
             /\ IF m.framing = "length" /\ b + 1 = Len(B) THEN Done(s, m)
                ELSE InPlainBody(s, m, b + 1)
  OBVIOUS
<1> HIDE DEF B, c, Symbols
<1>7. f \in Responses
  <2>1. g \in Seq(Symbols) /\ r.read + 1 \in Nat
    BY <1>4 DEF Responses
  <2> HIDE DEF g
  <2> QED BY <2>1 DEF Responses
<1>8. /\ f.state = "BODY" /\ ~f.chunked /\ f.read = b + 1 /\ f.body = SubSeq(B, 1, b + 1)
      /\ f.length = r.length /\ f.status = r.status /\ ~f.threw
  BY <1>2, <1>4 DEF Responses
<1>9. s = ProcessDataNonChunked(r, c)
  BY <1>2 DEF Feed
<1> HIDE DEF s
<1>10. s = IF f.length = f.read THEN Finish(f) ELSE f
  BY <1>5, <1>9 DEF ProcessDataNonChunked
<1> HIDE DEF f
<1>11. ~Unused(r)
  BY <1>5 DEF Unused
<1>12. CASE m.framing = "length" /\ b + 1 = Len(B)
  <2>1. s = Finish(f)
    BY <1>2, <1>8, <1>10, <1>12
  <2>2. s = [f EXCEPT !.state = "COMPLETE"]
    BY <2>1 DEF Finish
  <2>3. s \in Responses /\ s.state = "COMPLETE" /\ s.read = f.read /\ s.body = f.body
        /\ s.status = f.status /\ s.threw = f.threw
    BY <1>7, <2>2 DEF Responses
  <2>4. Done(s, m)
    BY <1>6, <1>8, <1>12, <2>3 DEF Done, B
  <2> QED BY <1>2, <1>8, <1>11, <1>12, <2>3, <2>4 DEF Grown
<1>13. CASE ~(m.framing = "length" /\ b + 1 = Len(B))
  <2>1. s = f
    BY <1>1, <1>2, <1>8, <1>10, <1>13
  <2>2. BodyGiven(s, m, b + 1)
    BY <1>8, <2>1 DEF BodyGiven, B
  <2>3. b + 1 <= Len(B) /\ (m.framing = "length" => b + 1 < Len(B))
    BY <1>1, <1>3, <1>13
  <2>4. InPlainBody(s, m, b + 1)
    BY <1>2, <1>8, <2>1, <2>2, <2>3 DEF InPlainBody, B
  <2> QED BY <1>2, <1>7, <1>8, <1>11, <1>13, <2>1, <2>4 DEF Grown
<1> QED BY <1>12, <1>13

\* The line of a chunk's length.
LEMMA ChunkLineStep ==
  ASSUME NEW m \in Messages, m.framing = "chunked", NEW r \in Responses, r.chunked,
         NEW b \in Nat, NEW c \in Nat, AtChunkLine(r, m, b, c)
  PROVE  LET s == Feed(r, FramedBody(m)[b + 1]) IN
         /\ s \in Responses /\ s.status = r.status /\ s.read = r.read /\ s.threw = r.threw
         /\ b + 1 < Len(FramedBody(m)) /\ InChunkedBody(s, m, b + 1)
<1> DEFINE F == FramedBody(m)
           s == Feed(r, F[b + 1])
           L == Len(m.chunks)
           n == ChunkSize(m, c)
           k == ChunkStart(m, c)
           z == [t |-> "chunklen", n |-> n]
<1>1. L \in Nat /\ c \in 1 .. L + 1 /\ r.state = "CHUNKLEN" /\ BodyGiven(r, m, DataStart(m, c))
  BY FirstChunk DEF AtChunkLine
<1>2. ChunksLength(m) \in Nat /\ Len(F) = ChunksLength(m) + 5
  BY TrailerSymbols
<1>3. /\ n \in Nat /\ k \in Nat /\ k <= ChunksLength(m)
      /\ F[k + 1] = z /\ F[k + 2] = NL
      /\ c <= L => n = m.chunks[c] /\ n # 0
      /\ c = L + 1 => n = 0 /\ k = ChunksLength(m)
  <2>1. CASE c <= L
    <3>1. c \in 1 .. L /\ n = m.chunks[c]
      BY <1>1, <2>1 DEF ChunkSize
    <3>2. /\ n \in Nat \ {0} /\ k \in Nat /\ k + n + 3 <= ChunksLength(m)
          /\ F[k + 1] = z /\ F[k + 2] = NL
      BY <3>1, ChunkSymbols
    <3> HIDE DEF n, k, F, L, z
    <3>3. k <= ChunksLength(m) /\ c # L + 1 /\ n # 0 /\ n \in Nat
      BY <1>1, <1>2, <2>1, <3>2
    <3> QED BY <3>1, <3>2, <3>3
  <2>2. CASE ~(c <= L)
    <3>1. c = L + 1 /\ n = 0
      BY <1>1, <2>2 DEF ChunkSize
    <3>2. k = ChunksLength(m)
      BY <3>1, FirstChunk
    <3>3. z = [t |-> "chunklen", n |-> 0]
      BY <3>1
    <3>4. F[ChunksLength(m) + 1] = [t |-> "chunklen", n |-> 0] /\ F[ChunksLength(m) + 2] = NL
      BY TrailerSymbols
    <3> HIDE DEF n, k, F, L, z, NL
    <3> QED BY <1>2, <2>2, <3>1, <3>2, <3>3, <3>4
  <2> QED BY <2>1, <2>2
<1> SUFFICES /\ s \in Responses /\ s.status = r.status /\ s.read = r.read
             /\ s.threw = r.threw
             /\ b + 1 < Len(F) /\ InChunkedBody(s, m, b + 1)
  OBVIOUS
<1>4. z \in Symbols /\ z.t # "newline" /\ z.t = "chunklen" /\ z.n = n
  BY <1>3 DEF Symbols
<1>5. k = ChunkStart(m, c) /\ z = [t |-> "chunklen", n |-> ChunkSize(m, c)]
  OBVIOUS
<1> HIDE DEF F, s, L, n, k, z, Symbols, NL
<1>6. CASE b = k /\ r.line = <<>>
  <2>1. s \in Responses /\ s = [r EXCEPT !.line = <<z>>]
    <3>1. r.state # "BODY" /\ F[b + 1] = z
      BY <1>1, <1>3, <1>6
    <3> QED BY <1>4, <1>6, <3>1, FeedText DEF s
  <2>2. /\ s.state = "CHUNKLEN" /\ s.line = <<z>> /\ s.read = r.read /\ s.body = r.body
        /\ s.status = r.status /\ s.threw = r.threw /\ s.chunked
    BY <1>1, <2>1 DEF Responses
  <2>3. BodyGiven(s, m, DataStart(m, c))
    BY <1>1, <2>2 DEF BodyGiven
  <2>4. AtChunkLine(s, m, b + 1, c)
    BY <1>1, <1>5, <1>6, <2>2, <2>3 DEF AtChunkLine, L
  <2>5. InChunkedBody(s, m, b + 1)
    BY <2>2, <2>4 DEF InChunkedBody
  <2>6. b + 1 < Len(F)
    BY <1>2, <1>3, <1>6
  <2> QED BY <2>1, <2>2, <2>5, <2>6
<1>7. CASE b = k + 1 /\ r.line = <<z>>
  <2> DEFINE e == [r EXCEPT !.line = <<>>]
  <2>1. F[b + 1] = NL /\ b + 1 = k + 2 /\ b + 1 < Len(F)
    BY <1>2, <1>3, <1>7
  <2>2. s = ProcessLine(e, <<z>>) /\ e \in Responses
    <3>1. r.state # "BODY"
      BY <1>1
    <3> QED BY <1>7, <2>1, <3>1, FeedNewline DEF s
  <2>3. e.state = "CHUNKLEN" /\ <<z>> # <<>> /\ <<z>>[1] = z
    BY <1>1 DEF Responses
  <2>4. s = IF n = 0 THEN [e EXCEPT !.chunkleft = 0, !.state = "TRAILERS", !.accum = <<>>]
            ELSE [e EXCEPT !.chunkleft = n, !.state = "BODY"]
    <3>1. s = ProcessChunkLenLine(e, <<z>>)
      BY <2>2, <2>3 DEF ProcessLine
    <3> HIDE DEF e
    <3> QED BY <1>4, <2>3, <3>1 DEF ProcessChunkLenLine
  <2>5. CASE c <= L
    <3>1. s = [r EXCEPT !.line = <<>>, !.chunkleft = n, !.state = "BODY"]
      BY <1>3, <2>4, <2>5 DEF Responses
    <3>2. s \in Responses
      <4>1. n \in Nat /\ s = [e EXCEPT !.chunkleft = n, !.state = "BODY"]
        BY <1>3, <2>4, <2>5
      <4> HIDE DEF e
      <4> QED BY <2>2, <4>1 DEF Responses
    <3>3. /\ s.state = "BODY" /\ s.line = <<>> /\ s.chunkleft = n /\ s.read = r.read
          /\ s.body = r.body /\ s.status = r.status /\ s.threw = r.threw /\ s.chunked
      BY <3>1 DEF Responses
    <3>4. n = m.chunks[c] /\ n \in Nat \ {0} /\ c \in 1 .. L
      BY <1>1, <1>3, <2>5
    <3>5. \A d : BodyGiven(r, m, d) => BodyGiven(s, m, d)
      BY <3>3 DEF BodyGiven
    <3>6. DataStart(m, c) + 0 = DataStart(m, c)
      <4>1. DataStart(m, c) \in Nat
        BY <3>4, ChunkSymbols DEF L
      <4> QED BY <4>1
    <3>7. BodyGiven(s, m, DataStart(m, c) + 0)
      BY <1>1, <3>5, <3>6
    <3>8. 0 \in 0 .. m.chunks[c] - 1 /\ s.chunkleft = m.chunks[c] - 0
          /\ b + 1 = ChunkStart(m, c) + 2 + 0
      BY <1>3, <1>5, <2>1, <3>3, <3>4
    <3>9. InChunk(s, m, b + 1, c, 0)
      BY <3>3, <3>4, <3>7, <3>8 DEF InChunk, L
    <3>10. InChunkedBody(s, m, b + 1)
      BY <3>3, <3>9 DEF InChunkedBody
    <3> QED BY <2>1, <3>2, <3>3, <3>10
  <2>6. CASE ~(c <= L)
    <3>1. c = L + 1 /\ n = 0 /\ k = ChunksLength(m)
      BY <1>1, <1>3, <2>6
    <3>2. s = [r EXCEPT !.line = <<>>, !.chunkleft = 0, !.state = "TRAILERS", !.accum = <<>>]
      BY <2>4, <3>1 DEF Responses
    <3>3. s \in Responses
      <4>1. <<>> \in Seq(Headers) /\ 0 \in Nat
        OBVIOUS
      <4>2. s = [e EXCEPT !.chunkleft = 0, !.state = "TRAILERS", !.accum = <<>>]
        BY <2>4, <3>1
      <4> HIDE DEF e
      <4> QED BY <2>2, <4>1, <4>2 DEF Responses
    <3>4. /\ s.state = "TRAILERS" /\ s.line = <<>> /\ s.read = r.read
          /\ s.body = r.body /\ s.status = r.status /\ s.threw = r.threw /\ s.chunked
      BY <3>2 DEF Responses
    <3>5. BodyGiven(s, m, Len(Body(m)))
      <4>1. DataStart(m, c) = Len(Body(m))
        BY <3>1, FirstChunk DEF L
      <4> QED BY <1>1, <3>4, <4>1 DEF BodyGiven
    <3>6. InTrailers(s, m, b + 1)
      BY <2>1, <3>1, <3>4, <3>5 DEF InTrailers
    <3>7. InChunkedBody(s, m, b + 1)
      BY <3>4, <3>6 DEF InChunkedBody
    <3> QED BY <2>1, <3>3, <3>4, <3>7
  <2> QED BY <2>5, <2>6
<1>8. \/ b = k /\ r.line = <<>>
      \/ b = k + 1 /\ r.line = <<z>>
  BY <1>5, Zenon DEF AtChunkLine
<1> QED BY <1>6, <1>7, <1>8

\* The bytes of a chunk.
LEMMA ChunkByteStep ==
  ASSUME NEW m \in Messages, m.framing = "chunked", NEW r \in Responses, r.chunked,
         NEW b \in Nat, NEW c \in Nat, NEW p \in Nat, InChunk(r, m, b, c, p)
  PROVE  LET s == Feed(r, FramedBody(m)[b + 1]) IN
         /\ s \in Responses /\ s.status = r.status /\ s.read = r.read + 1 /\ s.threw = r.threw
         /\ b + 1 < Len(FramedBody(m)) /\ InChunkedBody(s, m, b + 1)
<1> DEFINE F == FramedBody(m)
           s == Feed(r, F[b + 1])
           B == Body(m)
           n == m.chunks[c]
           k == ChunkStart(m, c)
           d == DataStart(m, c)
           x == B[d + p + 1]
           g == Append(r.body, x)
<1>1. /\ c \in 1 .. Len(m.chunks) /\ p \in 0 .. n - 1
      /\ r.state = "BODY" /\ r.line = <<>> /\ r.chunkleft = n - p
      /\ b = k + 2 + p /\ r.read = d + p /\ r.body = SubSeq(B, 1, d + p)
  BY DEF InChunk, BodyGiven
<1>2. /\ n \in Nat \ {0} /\ k \in Nat /\ d \in Nat /\ DataStart(m, c + 1) = d + n
      /\ k + n + 3 <= ChunksLength(m) /\ d + n <= Len(B)
      /\ \A q \in 1 .. n : F[k + 2 + q] = B[d + q]
  BY <1>1, ChunkSymbols
<1>3. ChunksLength(m) \in Nat /\ Len(F) = ChunksLength(m) + 5
  BY TrailerSymbols
<1>4. B \in Seq(Symbols) /\ Len(B) \in Nat
  BY BodyFacts
<1> SUFFICES /\ s \in Responses /\ s.status = r.status /\ s.read = r.read + 1
             /\ s.threw = r.threw /\ b + 1 < Len(F) /\ InChunkedBody(s, m, b + 1)
  OBVIOUS
<1>5. /\ n = m.chunks[c] /\ k = ChunkStart(m, c) /\ d = DataStart(m, c) /\ B = Body(m)
  OBVIOUS
<1> HIDE DEF F, B, n, k, d, Symbols, NL
<1>6. /\ p + 1 \in 1 .. n /\ d + p \in 0 .. Len(B) - 1 /\ b + 1 < Len(F)
      /\ k + 2 + (p + 1) = b + 1 /\ d + (p + 1) = d + p + 1
  BY <1>1, <1>2, <1>3, <1>4
<1>7. F[b + 1] = x
  <2>1. PICK q \in 1 .. n : q = p + 1
    BY <1>6
  <2>2. F[k + 2 + q] = B[d + q] /\ k + 2 + q = b + 1 /\ d + q = d + p + 1
    BY <1>2, <1>6, <2>1
  <2> QED BY <2>2
<1>8. g = SubSeq(B, 1, d + p + 1) /\ g \in Seq(Symbols)
  <2>1. d + p \in 0 .. Len(B) /\ d + p + 1 \in 0 .. Len(B)
    BY <1>4, <1>6
  <2>2. /\ Append(SubSeq(B, 1, d + p), B[d + p + 1]) = SubSeq(B, 1, d + p + 1)
        /\ SubSeq(B, 1, d + p + 1) \in Seq(Symbols)
    BY <1>4, <1>6, <2>1, PrefixFacts
  <2> QED BY <1>1, <2>2
<1> DEFINE st == IF r.chunkleft = 1 THEN "CHUNKEND" ELSE "BODY"
<1>9. s = [r EXCEPT !.body = g, !.read = r.read + 1, !.chunkleft = r.chunkleft - 1, !.state = st]
  <2>1. s = ProcessDataChunked(r, x)
    BY <1>1, <1>7 DEF Feed
  <2> HIDE DEF x, s
  <2>2. s = [r EXCEPT !.body = Append(@, x), !.read = @ + 1, !.chunkleft = @ - 1, !.state = st]
    BY <2>1 DEF ProcessDataChunked, AfterChunk
  <2> HIDE DEF st
  <2> QED BY <2>2 DEF Responses
<1>10. r.read + 1 \in Nat /\ r.chunkleft - 1 \in Nat
  BY <1>1, <1>2
<1>11. st \in {"CHUNKEND", "BODY"}
  OBVIOUS
<1> HIDE DEF x, g, s, st
<1>12. s \in Responses
  BY <1>8, <1>9, <1>10, <1>11 DEF Responses
<1>13. /\ s.state = st /\ s.line = <<>> /\ s.chunkleft = r.chunkleft - 1 /\ s.read = r.read + 1
       /\ s.body = g /\ s.status = r.status /\ s.threw = r.threw /\ s.chunked
  BY <1>1, <1>9 DEF Responses
<1>14. BodyGiven(s, m, d + p + 1)
  BY <1>1, <1>2, <1>5, <1>8, <1>13 DEF BodyGiven
<1>15. CASE r.chunkleft = 1
  <2>1. d + p + 1 = DataStart(m, c + 1) /\ b + 1 = k + 2 + n
    <3>1. n = p + 1
      BY <1>1, <1>2, <1>15
    <3>2. d + p + 1 = d + n /\ b + 1 = k + 2 + n
      BY <1>1, <1>2, <3>1
    <3> QED BY <1>2, <3>2
  <2>2. s.state = "CHUNKEND"
    BY <1>13, <1>15 DEF st
  <2>3. AtChunkEnd(s, m, b + 1, c)
    BY <1>1, <1>5, <1>13, <1>14, <2>1, <2>2 DEF AtChunkEnd
  <2>4. InChunkedBody(s, m, b + 1)
    BY <1>13, <2>3 DEF InChunkedBody
  <2> QED BY <1>6, <1>12, <1>13, <2>4
<1>16. CASE r.chunkleft # 1
  <2>1. /\ p + 1 \in 0 .. n - 1 /\ p + 1 \in Nat /\ r.chunkleft - 1 = n - (p + 1)
        /\ b + 1 = k + 2 + (p + 1) /\ d + p + 1 = d + (p + 1)
    BY <1>1, <1>2, <1>16
  <2>2. s.state = "BODY"
    BY <1>13, <1>16 DEF st
  <2>3. BodyGiven(s, m, d + (p + 1))
    BY <1>14, <2>1
  <2>4. InChunk(s, m, b + 1, c, p + 1)
    BY <1>1, <1>5, <1>13, <2>1, <2>2, <2>3 DEF InChunk
  <2>5. InChunkedBody(s, m, b + 1)
    BY <1>13, <2>1, <2>4 DEF InChunkedBody
  <2> QED BY <1>6, <1>12, <1>13, <2>5
<1> QED BY <1>15, <1>16

\* The line that ends a chunk.
LEMMA ChunkEndStep ==
  ASSUME NEW m \in Messages, m.framing = "chunked", NEW r \in Responses, r.chunked,
         NEW b \in Nat, NEW c \in Nat, AtChunkEnd(r, m, b, c)
  PROVE  LET s == Feed(r, FramedBody(m)[b + 1]) IN
         /\ s \in Responses /\ s.status = r.status /\ s.read = r.read /\ s.threw = r.threw
         /\ b + 1 < Len(FramedBody(m)) /\ InChunkedBody(s, m, b + 1)
<1> DEFINE F == FramedBody(m)
           s == Feed(r, F[b + 1])
           n == m.chunks[c]
           k == ChunkStart(m, c)
<1>1. /\ c \in 1 .. Len(m.chunks) /\ r.state = "CHUNKEND" /\ r.line = <<>>
      /\ b = k + 2 + n /\ BodyGiven(r, m, DataStart(m, c + 1))
  BY DEF AtChunkEnd
<1>2. /\ n \in Nat \ {0} /\ k \in Nat /\ ChunkStart(m, c + 1) = k + n + 3
      /\ k + n + 3 <= ChunksLength(m) /\ F[k + n + 3] = NL
  BY <1>1, ChunkSymbols
<1>3. ChunksLength(m) \in Nat /\ Len(F) = ChunksLength(m) + 5 /\ Len(m.chunks) \in Nat
  BY TrailerSymbols, FirstChunk
<1> SUFFICES /\ s \in Responses /\ s.status = r.status /\ s.read = r.read
             /\ s.threw = r.threw /\ b + 1 < Len(F) /\ InChunkedBody(s, m, b + 1)
  OBVIOUS
<1> HIDE DEF F, n, k, Symbols, NL
<1>4. b + 1 = k + n + 3 /\ b + 1 < Len(F) /\ c + 1 \in 1 .. Len(m.chunks) + 1 /\ c + 1 \in Nat
  BY <1>1, <1>2, <1>3
<1> DEFINE e == [r EXCEPT !.line = <<>>]
<1>5. s = ProcessLine(e, r.line) /\ e \in Responses
  <2>1. r.state # "BODY" /\ F[b + 1] = NL
    BY <1>1, <1>2, <1>4
  <2> QED BY <2>1, FeedNewline
<1> HIDE DEF s
<1>6. e.state = "CHUNKEND"
  BY <1>1 DEF Responses
<1>7. s = [e EXCEPT !.state = "CHUNKLEN"]
  <2> HIDE DEF e
  <2> QED BY <1>5, <1>6 DEF ProcessLine
<1>8. s \in Responses
  <2> HIDE DEF e
  <2> QED BY <1>5, <1>7 DEF Responses
<1>9. /\ s.state = "CHUNKLEN" /\ s.line = <<>> /\ s.read = r.read
      /\ s.body = r.body /\ s.status = r.status /\ s.threw = r.threw /\ s.chunked
  BY <1>7 DEF Responses
<1>10. BodyGiven(s, m, DataStart(m, c + 1))
  BY <1>1, <1>9 DEF BodyGiven
<1>11. b + 1 = ChunkStart(m, c + 1)
  BY <1>2, <1>4
<1>12. AtChunkLine(s, m, b + 1, c + 1)
  BY <1>4, <1>9, <1>10, <1>11 DEF AtChunkLine
<1>13. InChunkedBody(s, m, b + 1)
  BY <1>4, <1>9, <1>12 DEF InChunkedBody
<1> QED BY <1>4, <1>8, <1>9, <1>13

\* The lines after the chunks.
LEMMA TrailerStep ==
  ASSUME NEW m \in Messages, m.framing = "chunked", NEW r \in Responses, r.chunked,
         r.status = m.status, ~r.threw, NEW b \in Nat, InTrailers(r, m, b)
  PROVE  LET s == Feed(r, FramedBody(m)[b + 1]) IN
         /\ s \in Responses /\ s.status = r.status /\ s.read = r.read /\ s.threw = r.threw
         /\ b < Len(FramedBody(m))
         /\ IF b + 1 = Len(FramedBody(m)) THEN Done(s, m) ELSE InChunkedBody(s, m, b + 1)
<1> DEFINE F == FramedBody(m)
           s == Feed(r, F[b + 1])
           n == ChunksLength(m)
           y == [t |-> "header", name |-> "other", value |-> 0]
           e == [r EXCEPT !.line = <<>>]
<1>1. /\ r.state = "TRAILERS" /\ r.read = Len(Body(m))
      /\ r.body = SubSeq(Body(m), 1, Len(Body(m)))
      /\ \/ b = n + 2 /\ r.line = <<>>
         \/ b = n + 4 /\ r.line = <<>>
         \/ b = n + 3 /\ r.line = <<y>>
  BY DEF InTrailers, BodyGiven
<1>2. /\ n \in Nat /\ Len(F) = n + 5 /\ F[n + 3] = y /\ F[n + 4] = NL /\ F[n + 5] = NL
  BY TrailerSymbols
<1>3. y \in Symbols /\ y.t # "newline"
  BY DEF Symbols, Names
<1>4. SubSeq(Body(m), 1, Len(Body(m))) = Body(m)
  BY BodyFacts, PrefixFacts
<1> SUFFICES /\ s \in Responses /\ s.status = r.status /\ s.read = r.read
             /\ s.threw = r.threw /\ b < Len(F)
             /\ IF b + 1 = Len(F) THEN Done(s, m) ELSE InChunkedBody(s, m, b + 1)
  OBVIOUS
<1>5. y = [t |-> "header", name |-> "other", value |-> 0] /\ n = ChunksLength(m)
  OBVIOUS
<1> HIDE DEF F, n, y, Symbols, NL
<1>6. ASSUME s \in Responses, s.state = "TRAILERS", s.read = r.read, s.body = r.body,
             s.status = r.status, s.threw = r.threw, s.chunked, b + 1 < Len(F),
             \/ b + 1 = n + 3 /\ s.line = <<y>>
             \/ b + 1 = n + 4 /\ s.line = <<>>
      PROVE  /\ b < Len(F)
             /\ IF b + 1 = Len(F) THEN Done(s, m) ELSE InChunkedBody(s, m, b + 1)
  <2> HIDE DEF s
  <2>1. InTrailers(s, m, b + 1)
    BY <1>1, <1>5, <1>6 DEF InTrailers, BodyGiven
  <2>2. InChunkedBody(s, m, b + 1)
    BY <1>6, <2>1 DEF InChunkedBody
  <2>3. b < Len(F) /\ b + 1 # Len(F)
    BY <1>2, <1>6
  <2> QED BY <2>2, <2>3
<1>7. r.state # "BODY"
  BY <1>1
<1> HIDE DEF s
<1>8. CASE b = n + 2 /\ r.line = <<>>
  <2>1. F[b + 1] = y /\ b + 1 = n + 3 /\ b + 1 < Len(F)
    BY <1>2, <1>8
  <2>2. s \in Responses /\ s = [r EXCEPT !.line = <<y>>]
    BY <1>3, <1>7, <1>8, <2>1, FeedText DEF s
  <2>3. /\ s.state = "TRAILERS" /\ s.line = <<y>> /\ s.read = r.read
        /\ s.body = r.body /\ s.status = r.status /\ s.threw = r.threw /\ s.chunked
    BY <1>1, <2>2 DEF Responses
  <2> QED BY <1>6, <2>1, <2>2, <2>3
<1>9. ASSUME F[b + 1] = NL
      PROVE  s = ProcessTrailerLine(e, r.line) /\ e \in Responses /\ e.state = "TRAILERS"
             /\ e.line = <<>> /\ e.read = r.read /\ e.body = r.body /\ e.status = r.status
             /\ e.threw = r.threw /\ e.chunked
  <2>1. s = ProcessLine(e, r.line) /\ e \in Responses
    BY <1>7, <1>9, FeedNewline DEF s
  <2>2. /\ e.state = "TRAILERS" /\ e.line = <<>> /\ e.read = r.read /\ e.body = r.body
        /\ e.status = r.status /\ e.threw = r.threw /\ e.chunked
    BY <1>1 DEF Responses
  <2> HIDE DEF e
  <2> QED BY <2>1, <2>2 DEF ProcessLine
<1> HIDE DEF e
<1>10. CASE b = n + 3 /\ r.line = <<y>>
  <2>1. F[b + 1] = NL /\ b + 1 = n + 4 /\ b + 1 < Len(F)
    BY <1>2, <1>10
  <2>2. <<y>> # <<>>
    OBVIOUS
  <2>3. s = e
    BY <1>9, <1>10, <2>1, <2>2 DEF ProcessTrailerLine
  <2> QED BY <1>6, <1>9, <2>1, <2>3
<1>11. CASE b = n + 4 /\ r.line = <<>>
  <2>1. F[b + 1] = NL /\ b + 1 = Len(F) /\ b < Len(F)
    BY <1>2, <1>11
  <2>2. s = [e EXCEPT !.state = "COMPLETE"]
    BY <1>9, <1>11, <2>1 DEF ProcessTrailerLine, Finish
  <2>3. /\ s \in Responses /\ s.state = "COMPLETE" /\ s.read = r.read /\ s.body = r.body
        /\ s.status = r.status /\ s.threw = r.threw
    BY <1>9, <2>1, <2>2 DEF Responses
  <2>4. Done(s, m)
    BY <1>1, <1>4, <2>3 DEF Done
  <2> QED BY <2>1, <2>3, <2>4
<1> QED BY <1>1, <1>8, <1>10, <1>11

\* Where the parser can be in a body in chunks.
LEMMA ChunkedStep ==
  ASSUME NEW m \in Messages, NEW r \in Responses, r.status = m.status, ~r.threw,
         NEW b \in Nat, InChunkedBody(r, m, b)
  PROVE  LET s == Feed(r, FramedBody(m)[b + 1]) IN
         /\ s \in Responses /\ Grown(r, s) /\ b < Len(FramedBody(m)) /\ ~s.threw /\ s.status = m.status
         /\ ~Unused(r)
         /\ IF b + 1 = Len(FramedBody(m)) THEN Done(s, m) ELSE InChunkedBody(s, m, b + 1)
<1> DEFINE F == FramedBody(m)
           s == Feed(r, F[b + 1])
<1>1. m.framing = "chunked" /\ r.chunked
  BY DEF InChunkedBody
<1>2. ~Unused(r)
  BY <1>1 DEF Unused
<1>3. Len(F) \in Nat
  BY FramedFacts
<1> SUFFICES /\ s \in Responses /\ Grown(r, s) /\ b < Len(F) /\ ~s.threw /\ s.status = m.status
             /\ IF b + 1 = Len(F) THEN Done(s, m) ELSE InChunkedBody(s, m, b + 1)
  BY <1>2
<1>4. ASSUME s \in Responses, s.status = r.status, s.read \in {r.read, r.read + 1},
             s.threw = r.threw, b < Len(F),
             IF b + 1 = Len(F) THEN Done(s, m) ELSE InChunkedBody(s, m, b + 1)
      PROVE  /\ s \in Responses /\ Grown(r, s) /\ b < Len(F) /\ ~s.threw /\ s.status = m.status
             /\ IF b + 1 = Len(F) THEN Done(s, m) ELSE InChunkedBody(s, m, b + 1)
  <2> HIDE DEF s, F
  <2> QED BY <1>4 DEF Grown
<1>5. ASSUME s \in Responses, s.status = r.status, s.read \in {r.read, r.read + 1},
             s.threw = r.threw, b + 1 < Len(F), InChunkedBody(s, m, b + 1)
      PROVE  /\ s \in Responses /\ Grown(r, s) /\ b < Len(F) /\ ~s.threw /\ s.status = m.status
             /\ IF b + 1 = Len(F) THEN Done(s, m) ELSE InChunkedBody(s, m, b + 1)
  <2>1. b < Len(F) /\ b + 1 # Len(F)
    BY <1>3, <1>5
  <2> HIDE DEF s, F
  <2> QED BY <1>4, <1>5, <2>1
<1>6. ASSUME NEW c \in Nat, AtChunkLine(r, m, b, c)
      PROVE  /\ s \in Responses /\ s.status = r.status /\ s.read = r.read /\ s.threw = r.threw
             /\ b + 1 < Len(F) /\ InChunkedBody(s, m, b + 1)
  BY <1>1, <1>6, ChunkLineStep, Zenon
<1>7. ASSUME NEW c \in Nat, AtChunkEnd(r, m, b, c)
      PROVE  /\ s \in Responses /\ s.status = r.status /\ s.read = r.read /\ s.threw = r.threw
             /\ b + 1 < Len(F) /\ InChunkedBody(s, m, b + 1)
  BY <1>1, <1>7, ChunkEndStep, Zenon
<1>8. ASSUME NEW c \in Nat, NEW p \in Nat, InChunk(r, m, b, c, p)
      PROVE  /\ s \in Responses /\ s.status = r.status /\ s.read = r.read + 1 /\ s.threw = r.threw
             /\ b + 1 < Len(F) /\ InChunkedBody(s, m, b + 1)
  BY <1>1, <1>8, ChunkByteStep, Zenon
<1>9. ASSUME InTrailers(r, m, b)
      PROVE  /\ s \in Responses /\ s.status = r.status /\ s.read = r.read /\ s.threw = r.threw
             /\ b < Len(F)
             /\ IF b + 1 = Len(F) THEN Done(s, m) ELSE InChunkedBody(s, m, b + 1)
  BY <1>1, <1>9, TrailerStep, Zenon
<1>10. \/ \E c \in Nat : AtChunkLine(r, m, b, c) \/ AtChunkEnd(r, m, b, c)
       \/ \E c, p \in Nat : InChunk(r, m, b, c, p)
       \/ InTrailers(r, m, b)
  BY Zenon DEF InChunkedBody
<1> HIDE DEF s, F
<1> QED BY <1>4, <1>5, <1>6, <1>7, <1>8, <1>9, <1>10

\* What is known of a response wherever in a message its parser is.
LEMMA AtFacts ==
  ASSUME NEW m \in Messages, Bodied(m), NEW r, NEW v, At(r, m, v)
  PROVE  /\ v \in Nat /\ HeadLength(m) \in Nat
         /\ v <= Len(Encoded(m)) /\ (m.framing # "close" => v < Len(Encoded(m)))
         /\ r \in Responses /\ r.state # "COMPLETE" /\ ~r.threw
         /\ r.read \in 0 .. Len(Body(m))
         /\ Given(r) = [status |-> IF v < HeadLength(m) THEN 0 ELSE m.status,
                        body |-> SubSeq(Body(m), 1, r.read)]
         /\ m.framing = "close" /\ v = Len(Encoded(m)) => r.read = Len(Body(m)) /\ EndIsValid(r)
         /\ EndIsValid(r) => m.framing = "close" /\ v >= HeadLength(m)
<1> DEFINE B == Body(m)
           F == FramedBody(m)
           h == HeadLength(m)
           b == v - h
<1>1. r \in Responses /\ v \in Nat
  BY DEF At
<1>2. /\ B \in Seq(Symbols) /\ Len(B) \in Nat /\ Len(F) \in Nat /\ h \in Nat
      /\ Len(Encoded(m)) = h + Len(F) /\ m.framing \in {"length", "chunked", "close"}
      /\ m.framing # "chunked" => Len(F) = Len(B)
  <2>1. m.framing \in {"length", "chunked", "close"}
    BY DEF Messages
  <2>2. B \in Seq(Symbols) /\ F \in Seq(Symbols) /\ (m.framing # "chunked" => F = B)
    BY BodyFacts, FramedFacts
  <2>3. h \in Nat
    BY FramingHeaderFacts DEF HeadLength
  <2>4. Len(Encoded(m)) = h + Len(F)
    BY EncodedFacts
  <2> HIDE DEF B, F, h
  <2> QED BY <2>1, <2>2, <2>3, <2>4
<1>3. SubSeq(B, 1, 0) = <<>>
  BY <1>2, PrefixFacts
<1>4. CASE v < h
  <2>1. /\ ~r.threw /\ r.read = 0 /\ r.body = <<>> /\ r.state \in {"STATUSLINE", "HEADERS"}
    <3>1. InHead(r, m, v)
      BY <1>4 DEF At
    <3>2. Bodiless(r)
      BY <3>1 DEF InHead
    <3>3. r.state \in {"STATUSLINE", "HEADERS"}
      BY <3>1 DEF InHead, Reading
    <3> QED BY <3>2, <3>3 DEF Bodiless
  <2>2. Given(r) = [status |-> 0, body |-> <<>>]
    BY <2>1 DEF Given
  <2>3. v < Len(Encoded(m)) /\ ~EndIsValid(r)
    BY <1>1, <1>2, <1>4, <2>1 DEF EndIsValid
  <2> HIDE DEF B, F, h
  <2>4. v <= Len(Encoded(m)) /\ v # Len(Encoded(m)) /\ 0 \in 0 .. Len(B)
    BY <1>1, <1>2, <2>3
  <2> QED BY <1>1, <1>2, <1>3, <1>4, <2>1, <2>2, <2>3, <2>4 DEF B, h
<1>5. CASE ~(v < h)
  <2>1. InBody(r, m, v)
    BY <1>5 DEF At
  <2>2. r.status = m.status /\ ~r.threw /\ b \in Nat /\ (InPlainBody(r, m, b) \/ InChunkedBody(r, m, b))
    BY <2>1 DEF InBody
  <2>3. ASSUME r.state \in {"BODY", "CHUNKLEN", "CHUNKEND", "TRAILERS"}, BodyGiven(r, m, r.read)
        PROVE  /\ r.state # "COMPLETE"
               /\ Given(r) = [status |-> IF v < h THEN 0 ELSE m.status,
                              body |-> SubSeq(B, 1, r.read)]
    <3>1. r.body = SubSeq(B, 1, r.read) /\ r.state \notin {"STATUSLINE", "HEADERS", "COMPLETE"}
      BY <2>3 DEF BodyGiven
    <3> HIDE DEF B, h
    <3> QED BY <1>5, <2>2, <3>1 DEF Given
  <2> HIDE DEF B, F, h, b, Symbols
  <2>4. v = h + b
    BY <1>1, <1>2, <1>5 DEF b
  <2>5. CASE InPlainBody(r, m, b)
    <3>1. /\ m.framing # "chunked" /\ b <= Len(B) /\ ~r.chunked /\ r.state = "BODY"
          /\ r.read = b /\ BodyGiven(r, m, b)
          /\ IF m.framing = "length" THEN r.length = Len(B) /\ b < Len(B) ELSE r.length = -1
      BY <2>5 DEF InPlainBody, BodyGiven, B
    <3>2. /\ r.state # "COMPLETE"
          /\ Given(r) = [status |-> IF v < h THEN 0 ELSE m.status, body |-> SubSeq(B, 1, r.read)]
      BY <2>3, <3>1
    <3>3. EndIsValid(r) <=> m.framing = "close"
      BY <1>2, <3>1 DEF EndIsValid
    <3>4. /\ v <= Len(Encoded(m)) /\ (m.framing # "close" => v < Len(Encoded(m)))
          /\ r.read \in 0 .. Len(B) /\ v >= h
          /\ (v = Len(Encoded(m)) => r.read = Len(B))
      BY <1>2, <2>2, <2>4, <3>1
    <3> QED BY <1>1, <1>2, <2>2, <3>2, <3>3, <3>4 DEF B, h
  <2>6. CASE InChunkedBody(r, m, b)
    <3>1. /\ m.framing = "chunked" /\ r.chunked
          /\ \/ \E c \in Nat : AtChunkLine(r, m, b, c) \/ AtChunkEnd(r, m, b, c)
             \/ \E c, p \in Nat : InChunk(r, m, b, c, p)
             \/ InTrailers(r, m, b)
      BY <2>6, Zenon DEF InChunkedBody
    <3>2. b < Len(F)
      BY <1>1, <2>2, <2>6, ChunkedStep DEF F
    <3>3. Len(m.chunks) \in Nat /\ DataStart(m, Len(m.chunks) + 1) = Len(B)
      BY FirstChunk DEF B
    <3>4. ASSUME NEW c \in 1 .. Len(m.chunks) + 1
          PROVE  /\ DataStart(m, c) \in 0 .. Len(B)
                 /\ c \in 1 .. Len(m.chunks) =>
                      /\ m.chunks[c] \in Nat /\ DataStart(m, c) + m.chunks[c] <= Len(B)
                      /\ DataStart(m, c) \in Nat
      <4>1. CASE c \in 1 .. Len(m.chunks)
        <5>1. /\ m.chunks[c] \in Nat \ {0} /\ DataStart(m, c) \in Nat
              /\ DataStart(m, c) + m.chunks[c] <= Len(B)
          BY <3>1, <4>1, ChunkSymbols DEF B
        <5> QED BY <1>2, <5>1
      <4>2. CASE c \notin 1 .. Len(m.chunks)
        <5>1. c = Len(m.chunks) + 1
          BY <3>3, <4>2
        <5> QED BY <1>2, <3>3, <4>2, <5>1
      <4> QED BY <4>1, <4>2
    <3>5. /\ r.state \in {"BODY", "CHUNKLEN", "CHUNKEND", "TRAILERS"}
          /\ BodyGiven(r, m, r.read) /\ r.read \in 0 .. Len(B)
      <4>1. ASSUME NEW c \in Nat, AtChunkLine(r, m, b, c)
            PROVE  /\ r.state = "CHUNKLEN" /\ BodyGiven(r, m, r.read) /\ r.read \in 0 .. Len(B)
        BY <3>4, <4>1 DEF AtChunkLine, BodyGiven
      <4>2. ASSUME NEW c \in Nat, AtChunkEnd(r, m, b, c)
            PROVE  /\ r.state = "CHUNKEND" /\ BodyGiven(r, m, r.read) /\ r.read \in 0 .. Len(B)
        <5>1. c + 1 \in 1 .. Len(m.chunks) + 1
          BY <3>3, <4>2 DEF AtChunkEnd
        <5>2. DataStart(m, c + 1) \in 0 .. Len(B)
          BY <3>4, <5>1
        <5> QED BY <4>2, <5>2 DEF AtChunkEnd, BodyGiven
      <4>3. ASSUME NEW c \in Nat, NEW p \in Nat, InChunk(r, m, b, c, p)
            PROVE  /\ r.state = "BODY" /\ BodyGiven(r, m, r.read) /\ r.read \in 0 .. Len(B)
        <5>1. /\ c \in 1 .. Len(m.chunks) /\ c \in 1 .. Len(m.chunks) + 1
              /\ p \in 0 .. m.chunks[c] - 1 /\ r.state = "BODY"
              /\ r.read = DataStart(m, c) + p /\ BodyGiven(r, m, DataStart(m, c) + p)
          BY <3>3, <4>3 DEF InChunk, BodyGiven
        <5>2. /\ m.chunks[c] \in Nat /\ DataStart(m, c) + m.chunks[c] <= Len(B)
              /\ DataStart(m, c) \in Nat
          BY <3>4, <5>1
        <5> DEFINE n == m.chunks[c]
                   d == DataStart(m, c)
        <5> HIDE DEF n, d
        <5>3. n \in Nat /\ d \in Nat /\ d + n <= Len(B) /\ p \in 0 .. n - 1
              /\ r.read = d + p
          BY <5>1, <5>2 DEF n, d
        <5>4. r.read \in 0 .. Len(B)
          BY <1>2, <5>3
        <5> QED BY <5>1, <5>4
      <4>4. ASSUME InTrailers(r, m, b)
            PROVE  r.state = "TRAILERS" /\ BodyGiven(r, m, r.read) /\ r.read \in 0 .. Len(B)
        <5>1. /\ r.state = "TRAILERS" /\ BodyGiven(r, m, Len(B)) /\ r.read = Len(B)
          BY <4>4 DEF InTrailers, BodyGiven, B
        <5> QED BY <1>2, <5>1
      <4> QED BY <3>1, <4>1, <4>2, <4>3, <4>4
    <3>6. /\ r.state # "COMPLETE"
          /\ Given(r) = [status |-> IF v < h THEN 0 ELSE m.status, body |-> SubSeq(B, 1, r.read)]
      BY <2>3, <3>5
    <3>7. ~EndIsValid(r) /\ m.framing # "close"
      BY <3>1 DEF EndIsValid
    <3>8. v < Len(Encoded(m)) /\ v <= Len(Encoded(m))
      BY <1>2, <2>2, <2>4, <3>2
    <3> QED BY <1>1, <1>2, <2>2, <3>5, <3>6, <3>7, <3>8 DEF B, h
  <2> QED BY <2>2, <2>5, <2>6
<1> QED BY <1>4, <1>5

\* One more symbol of a message.
LEMMA Step ==
  ASSUME NEW m \in Messages, Bodied(m), NEW r, NEW v, At(r, m, v), v < Len(Encoded(m))
  PROVE  LET s == Feed(r, Encoded(m)[v + 1]) IN
         /\ ~Unused(r) /\ r.read <= s.read
         /\ IF m.framing # "close" /\ v + 1 = Len(Encoded(m)) THEN Done(s, m) ELSE At(s, m, v + 1)
<1> DEFINE E == Encoded(m)
           F == FramedBody(m)
           h == HeadLength(m)
           b == v - h
           s == Feed(r, E[v + 1])
<1>1. /\ r \in Responses /\ v \in Nat /\ h \in Nat /\ r.read \in Nat /\ ~r.threw
  BY AtFacts DEF Responses
<1>2. /\ E \in Seq(Symbols) /\ F \in Seq(Symbols) /\ Len(E) = h + Len(F) /\ Has(E, h, F)
      /\ Len(F) \in Nat
  BY EncodedFacts, FramedFacts
<1> SUFFICES /\ ~Unused(r) /\ r.read <= s.read
             /\ IF m.framing # "close" /\ v + 1 = Len(E) THEN Done(s, m) ELSE At(s, m, v + 1)
  OBVIOUS
<1>3. CASE v < h
  <2>1. InHead(r, m, v)
    BY <1>3 DEF At
  <2>2. At(s, m, v + 1)
    BY <1>1, <1>3, <2>1, HeadStep
  <2>3. r.state \in {"STATUSLINE", "HEADERS"} /\ r.read = 0
    <3>1. r.state \in {"STATUSLINE", "HEADERS"}
      BY <2>1 DEF InHead, Reading
    <3> QED BY <2>1, <3>1 DEF InHead, Bodiless
  <2>4. s.read \in Nat /\ (m.framing # "close" => v + 1 # Len(E))
    <3>1. /\ s.read \in 0 .. Len(Body(m)) /\ (m.framing # "close" => v + 1 < Len(E))
      BY <2>2, AtFacts
    <3>2. v + 1 \in Nat
      BY <1>1
    <3> HIDE DEF E, F, h, s
    <3> QED BY <1>2, <3>1, <3>2
  <2> HIDE DEF E, F, h, s
  <2>5. ~Unused(r)
    BY <2>3 DEF Unused
  <2> QED BY <2>2, <2>3, <2>4, <2>5
<1>4. CASE ~(v < h)
  <2>1. InBody(r, m, v)
    BY <1>4 DEF At
  <2>2. r.status = m.status /\ b \in Nat /\ (InPlainBody(r, m, b) \/ InChunkedBody(r, m, b))
    BY <2>1 DEF InBody
  <2> HIDE DEF E, F, h, Symbols
  <2>3. b < Len(F) /\ v + 1 = h + (b + 1) /\ (v + 1) - h = b + 1 /\ ~(v + 1 < h)
        /\ b + 1 \in Nat /\ v + 1 \in Nat /\ b + 1 \in 1 .. Len(F)
        /\ (v + 1 = Len(E) <=> b + 1 = Len(F))
    BY <1>1, <1>2, <1>4, <2>2 DEF E
  <2>4. E[v + 1] = F[b + 1]
    <3>1. E[h + (b + 1)] = F[b + 1]
      BY <1>1, <1>2, <2>3, HasAt, Zenon
    <3> QED BY <2>3, <3>1
  <2> HIDE DEF b
  <2>5. ASSUME s \in Responses, s.status = m.status, ~s.threw,
               InPlainBody(s, m, b + 1) \/ InChunkedBody(s, m, b + 1)
        PROVE  At(s, m, v + 1)
    <3> HIDE DEF s
    <3>1. InBody(s, m, v + 1)
      BY <2>3, <2>5 DEF InBody, h
    <3> QED BY <2>3, <2>5, <3>1 DEF At, h
  <2>6. ASSUME Grown(r, s) PROVE r.read <= s.read
    <3> HIDE DEF s
    <3> QED BY <1>1, <2>6 DEF Grown
  <2>7. CASE InPlainBody(r, m, b)
    <3>1. m.framing # "chunked" /\ F = Body(m)
      BY <2>7, FramedFacts DEF InPlainBody, F
    <3> DEFINE s1 == Feed(r, Body(m)[b + 1])
    <3>2. /\ s1 \in Responses /\ Grown(r, s1) /\ ~s1.threw /\ ~Unused(r)
          /\ IF m.framing = "length" /\ b + 1 = Len(Body(m)) THEN Done(s1, m)
             ELSE InPlainBody(s1, m, b + 1)
      BY <1>1, <2>2, <2>3, <2>7, <3>1, PlainStep
    <3>3. s1 = s
      BY <2>4, <3>1
    <3> HIDE DEF s1, s
    <3>4. s.status = m.status /\ (m.framing # "close" => m.framing = "length")
      <4>1. m.framing \in {"length", "chunked", "close"}
        BY DEF Messages
      <4> QED BY <2>2, <3>1, <3>2, <3>3, <4>1 DEF Grown
    <3>5. CASE m.framing # "close" /\ v + 1 = Len(E)
      <4>1. Done(s, m)
        BY <2>3, <3>1, <3>2, <3>3, <3>4, <3>5
      <4> QED BY <2>6, <3>2, <3>3, <3>5, <4>1
    <3>6. CASE ~(m.framing # "close" /\ v + 1 = Len(E))
      <4>1. InPlainBody(s, m, b + 1)
        BY <2>3, <3>1, <3>2, <3>3, <3>4, <3>6
      <4>2. At(s, m, v + 1)
        BY <2>5, <3>2, <3>3, <3>4, <4>1
      <4> QED BY <2>6, <3>2, <3>3, <3>6, <4>2
    <3> QED BY <3>5, <3>6
  <2>8. CASE InChunkedBody(r, m, b)
    <3> DEFINE s1 == Feed(r, FramedBody(m)[b + 1])
    <3>1. /\ s1 \in Responses /\ Grown(r, s1) /\ ~s1.threw /\ s1.status = m.status /\ ~Unused(r)
          /\ IF b + 1 = Len(FramedBody(m)) THEN Done(s1, m) ELSE InChunkedBody(s1, m, b + 1)
      BY <1>1, <2>2, <2>8, ChunkedStep DEF b
    <3>2. s1 = s /\ FramedBody(m) = F
      BY <2>4 DEF F
    <3>3. m.framing # "close"
      BY <2>8 DEF InChunkedBody
    <3> HIDE DEF s1, s
    <3>4. IF v + 1 = Len(E) THEN Done(s, m) ELSE InChunkedBody(s, m, b + 1)
      BY <2>3, <3>1, <3>2
    <3>5. s \in Responses /\ s.status = m.status /\ ~s.threw /\ ~Unused(r) /\ Grown(r, s)
      BY <3>1, <3>2
    <3> QED BY <2>5, <2>6, <3>3, <3>4, <3>5
  <2> QED BY <2>2, <2>7, <2>8
<1> QED BY <1>3, <1>4

-----------------------------------------------------------------------------
(* The Connection: its first outstanding Response takes the stream.        *)

Answer(m) == [status |-> m.status, body |-> Body(m)]

Clients ==
  [r : Responses, outstanding : Int, bodies : Seq([status : Nat, body : Seq(Symbols)]),
   lost : BOOLEAN, threw : BOOLEAN]

\* What the server sends to answer the first k requests.
Stream(e, k) == UpTo([j \in 1 .. Len(e) |-> Encoded(e[j])], k)

WellFramed(e) ==
  /\ e \in Seq(Messages) /\ \A k \in 1 .. Len(e) : Bodied(e[k])
  /\ \A k \in 1 .. Len(e) - 1 : e[k].framing # "close"

LEMMA StreamFacts ==
  ASSUME NEW e, WellFramed(e)
  PROVE  /\ Len(e) \in Nat /\ Stream(e, 0) = <<>>
         /\ \A k \in 0 .. Len(e) : Stream(e, k) \in Seq(Symbols) /\ Len(Stream(e, k)) \in Nat
         /\ \A k \in 0 .. Len(e) - 1 :
              /\ e[k + 1] \in Messages /\ Bodied(e[k + 1])
              /\ Stream(e, k + 1) = Stream(e, k) \o Encoded(e[k + 1])
              /\ Len(Stream(e, k + 1)) = Len(Stream(e, k)) + Len(Encoded(e[k + 1]))
         /\ \A k \in 0 .. Len(e) - 1 : \A n \in k + 1 .. Len(e) :
              /\ Has(Stream(e, n), Len(Stream(e, k)), Encoded(e[k + 1]))
              /\ Len(Stream(e, k + 1)) <= Len(Stream(e, n))
<1> DEFINE L == Len(e)
           parts == [j \in 1 .. L |-> Encoded(e[j])]
<1>1. L \in Nat /\ \A j \in 1 .. L : e[j] \in Messages /\ Bodied(e[j])
  BY DEF WellFramed
<1>2. \A j \in 1 .. L : Encoded(e[j]) \in Seq(Symbols) /\ parts[j] = Encoded(e[j])
  BY <1>1, EncodedFacts
<1>3. \A k : Stream(e, k) = UpTo(parts, k)
  BY DEF Stream
<1> HIDE DEF L, parts, Symbols
<1>4. Parts(parts, L)
  BY <1>1, <1>2 DEF Parts
<1>5. /\ \A k \in 0 .. L : UpTo(parts, k) \in Seq(Symbols)
      /\ UpTo(parts, 0) = <<>>
      /\ \A k \in 1 .. L : UpTo(parts, k) = UpTo(parts, k - 1) \o parts[k]
  BY <1>4, UpToFacts, Zenon
<1>6. ASSUME NEW k \in 0 .. L
      PROVE  Stream(e, k) \in Seq(Symbols) /\ Len(Stream(e, k)) \in Nat
  BY <1>3, <1>5
<1>7. ASSUME NEW k \in 0 .. L - 1, NEW n \in k + 1 .. L
      PROVE  /\ e[k + 1] \in Messages /\ Bodied(e[k + 1])
             /\ Stream(e, k + 1) = Stream(e, k) \o Encoded(e[k + 1])
             /\ Len(Stream(e, k + 1)) = Len(Stream(e, k)) + Len(Encoded(e[k + 1]))
             /\ Has(Stream(e, n), Len(Stream(e, k)), Encoded(e[k + 1]))
             /\ Len(Stream(e, k + 1)) <= Len(Stream(e, n))
  <2>1. PICK j : j = k + 1
    OBVIOUS
  <2>2. j \in 1 .. L /\ n \in j .. L /\ j - 1 = k
    BY <1>1, <2>1
  <2>3. /\ UpTo(parts, j - 1) \in Seq(Symbols) /\ UpTo(parts, j) \in Seq(Symbols)
        /\ Len(UpTo(parts, j)) = Len(UpTo(parts, j - 1)) + Len(parts[j])
        /\ Has(UpTo(parts, n), Len(UpTo(parts, j - 1)), parts[j])
    BY <1>4, <2>2, PartAt, Zenon
  <2>4. UpTo(parts, j) = UpTo(parts, j - 1) \o parts[j] /\ parts[j] = Encoded(e[j])
    BY <1>2, <1>5, <2>2, Zenon
  <2>5. /\ Stream(e, j) = Stream(e, k) \o Encoded(e[j])
        /\ Len(Stream(e, j)) = Len(Stream(e, k)) + Len(Encoded(e[j]))
        /\ Has(Stream(e, n), Len(Stream(e, k)), Encoded(e[j]))
    <3>1. /\ Stream(e, j) = UpTo(parts, j) /\ Stream(e, k) = UpTo(parts, k)
          /\ Stream(e, n) = UpTo(parts, n)
      BY <1>3
    <3>2. Stream(e, k) = UpTo(parts, j - 1)
      BY <2>2, <3>1
    <3> QED BY <2>3, <2>4, <3>1, <3>2
  <2>6. Len(Stream(e, j)) <= Len(Stream(e, n))
    BY <2>5 DEF Has
  <2> QED BY <1>1, <2>1, <2>2, <2>5, <2>6
<1>8. ASSUME NEW k \in 0 .. L - 1
      PROVE  /\ e[k + 1] \in Messages /\ Bodied(e[k + 1])
             /\ Stream(e, k + 1) = Stream(e, k) \o Encoded(e[k + 1])
             /\ Len(Stream(e, k + 1)) = Len(Stream(e, k)) + Len(Encoded(e[k + 1]))
  <2>1. L \in k + 1 .. L
    BY <1>1
  <2> QED BY <1>7, <2>1, Zenon
<1>9. Stream(e, 0) = <<>>
  BY <1>3, <1>5
<1> QED BY <1>1, <1>6, <1>7, <1>8, <1>9 DEF L

\* u symbols of the answers have been taken when n requests have been issued.
Place(q, e, n, u) ==
  LET k == Len(q.bodies) IN
  /\ q \in Clients /\ ~q.threw /\ ~q.lost
  /\ k <= n /\ q.outstanding = n - k
  /\ \A j \in 1 .. k : q.bodies[j] = Answer(e[j])
  /\ u - Len(Stream(e, k)) \in Nat
  /\ IF k < Len(e) THEN At(q.r, e[k + 1], u - Len(Stream(e, k)))
     ELSE u = Len(Stream(e, k)) /\ q.r = NewResponse

\* Nothing given is taken back.
Grew(p, q) == /\ Len(p.bodies) <= Len(q.bodies)
              /\ Len(p.bodies) = Len(q.bodies) => p.r.read <= q.r.read

LEMMA NewResponseFacts ==
  /\ NewResponse \in Responses /\ NewResponse.read = 0
  /\ Given(NewResponse) = [status |-> 0, body |-> <<>>]
  /\ \A m \in Messages : At(NewResponse, m, 0)
<1>1. <<>> \in Seq(Symbols) /\ <<>> \in Seq(Headers)
  OBVIOUS
<1> HIDE DEF Symbols, Headers
<1>2. NewResponse \in Responses
  BY <1>1 DEF NewResponse, Responses
<1>3. NewResponse.read = 0 /\ Given(NewResponse) = [status |-> 0, body |-> <<>>]
  BY DEF NewResponse, Given
<1>4. ASSUME NEW m \in Messages PROVE At(NewResponse, m, 0)
  <2>1. HeadLength(m) \in Nat /\ 0 < HeadLength(m)
    BY FramingHeaderFacts DEF HeadLength
  <2>2. Bodiless(NewResponse)
    BY DEF NewResponse, Bodiless
  <2>3. Reading(NewResponse, "STATUSLINE", <<>>, <<>>, {})
    BY DEF NewResponse, Reading
  <2>4. InHead(NewResponse, m, 0)
    BY <2>2, <2>3 DEF InHead
  <2> QED BY <1>2, <2>1, <2>4 DEF At
<1> QED BY <1>2, <1>3, <1>4

\* One turn of the loop of Connection::pump.
LEMMA TakeStep ==
  ASSUME NEW e, WellFramed(e), NEW n \in 0 .. Len(e), NEW u \in Nat, NEW q, Place(q, e, n, u),
         u < Len(Stream(e, n))
  PROVE  LET s == Take(q, Stream(e, n)[u + 1]) IN Place(s, e, n, u + 1) /\ Grew(q, s)
<1> DEFINE L == Len(e)
           k == Len(q.bodies)
           m == e[k + 1]
           E == Encoded(m)
           w == Len(Stream(e, k))
           v == u - w
           c == Stream(e, n)[u + 1]
           r == Feed(q.r, c)
           s == Take(q, c)
           p == [q EXCEPT !.r = r]
<1>1. /\ L \in Nat /\ k \in Nat /\ n \in Nat /\ n <= L /\ k <= n /\ q \in Clients
      /\ ~q.threw /\ ~q.lost /\ q.outstanding = n - k
      /\ \A j \in 1 .. k : q.bodies[j] = Answer(e[j])
      /\ v \in Nat /\ (k < L => At(q.r, m, v))
  BY StreamFacts DEF Place, Clients
<1> HIDE DEF L, k, m, E, v, c, r, s, p, w
<1>2. k < n
  <2>1. k = n => u < w
    BY DEF k, w
  <2>2. w \in Nat
    <3>1. k \in 0 .. L
      BY <1>1
    <3> QED BY <3>1, StreamFacts DEF w, L, k
  <2>3. ~(u < w)
    BY <1>1, <2>2 DEF v
  <2> QED BY <1>1, <2>1, <2>3
<1>3. k \in 0 .. L - 1 /\ n \in k + 1 .. L /\ k < L /\ k + 1 \in 0 .. L /\ k \in 0 .. L
      /\ k + 1 \in Nat
  BY <1>1, <1>2
<1>4. /\ m \in Messages /\ Bodied(m) /\ w \in Nat
      /\ Len(Stream(e, k + 1)) = w + Len(E)
      /\ Has(Stream(e, n), w, E) /\ At(q.r, m, v)
  BY <1>1, <1>3, StreamFacts DEF m, w, E, L
<1>5. E \in Seq(Symbols) /\ Len(E) \in Nat
  BY <1>4, EncodedFacts DEF E
<1>6. v < Len(E) /\ v \in Nat /\ u = w + v
  <2>1. u = w + v
    BY <1>1, <1>4 DEF v
  <2>2. CASE m.framing # "close"
    BY <1>1, <1>4, <2>1, <2>2, AtFacts DEF E
  <2>3. CASE m.framing = "close"
    <3>1. k + 1 \notin 1 .. L - 1
      BY <2>3 DEF WellFramed, L, m
    <3>2. n = k + 1
      BY <1>1, <1>3, <3>1
    <3>3. u < w + Len(E)
      BY <1>4, <3>2
    <3> QED BY <1>1, <1>4, <1>5, <2>1, <3>3
  <2> QED BY <2>2, <2>3
<1>7. c = E[v + 1]
  <2>1. v + 1 \in 1 .. Len(E) /\ w + (v + 1) = u + 1
    BY <1>4, <1>5, <1>6
  <2>2. Stream(e, n)[w + (v + 1)] = E[v + 1]
    BY <1>4, <1>5, <2>1, HasAt, Zenon
  <2> QED BY <2>1, <2>2 DEF c
<1>8. /\ ~Unused(q.r) /\ q.r.read <= r.read
      /\ IF m.framing # "close" /\ v + 1 = Len(E) THEN Done(r, m) ELSE At(r, m, v + 1)
  <2> DEFINE t == Feed(q.r, Encoded(m)[v + 1])
  <2>1. /\ ~Unused(q.r) /\ q.r.read <= t.read
        /\ IF m.framing # "close" /\ v + 1 = Len(Encoded(m)) THEN Done(t, m) ELSE At(t, m, v + 1)
    BY <1>4, <1>6, Step DEF E
  <2>2. t = r
    BY <1>7 DEF r, E
  <2> HIDE DEF t
  <2> QED BY <2>1, <2>2 DEF E
<1>9. r \in Responses /\ ~r.threw
  BY <1>4, <1>8, AtFacts DEF Done
<1>10. /\ p \in Clients /\ p.r = r /\ p.outstanding = n - k /\ p.bodies = q.bodies
       /\ ~p.threw /\ ~p.lost
  BY <1>1, <1>9 DEF p, Clients
<1>11. s = Pop(p)
  <2>1. q.outstanding > 0 /\ q.outstanding # 0
    BY <1>1, <1>2
  <2> QED BY <1>1, <1>8, <2>1 DEF s, Take, p, r
<1>12. (u + 1) - w = v + 1 /\ v + 1 \in Nat
  BY <1>1, <1>4, <1>6
<1> SUFFICES Place(s, e, n, u + 1) /\ Grew(q, s)
  BY DEF s, c
<1>13. CASE m.framing # "close" /\ v + 1 = Len(E)
  <2>1. Done(r, m)
    BY <1>8, <1>13
  <2> DEFINE g == Given(r)
             B == Append(q.bodies, g)
  <2>2. g = Answer(m)
    BY <2>1 DEF Done, Given, Answer
  <2>3. g \in [status : Nat, body : Seq(Symbols)]
    <3>1. Body(m) \in Seq(Symbols) /\ m.status \in Nat
      BY <1>4, BodyFacts DEF Messages
    <3> HIDE DEF g, Symbols
    <3> QED BY <2>2, <3>1 DEF Answer
  <2>4. s = [p EXCEPT !.r = NewResponse, !.outstanding = n - k - 1, !.bodies = B]
    <3>1. p.r.state = "COMPLETE" /\ ~p.r.threw
      BY <1>10, <2>1 DEF Done
    <3>2. s = [p EXCEPT !.r = NewResponse, !.outstanding = @ - 1, !.bodies = Append(@, Given(p.r))]
      BY <1>11, <3>1 DEF Pop
    <3> QED BY <1>10, <3>2 DEF Clients
  <2> HIDE DEF g, Symbols
  <2>5. /\ B \in Seq([status : Nat, body : Seq(Symbols)]) /\ Len(B) = k + 1
        /\ B[k + 1] = g /\ \A j \in 1 .. k : B[j] = q.bodies[j]
    BY <1>1, <2>3 DEF Clients, k
  <2> HIDE DEF B
  <2>6. /\ s \in Clients /\ s.r = NewResponse /\ s.outstanding = n - (k + 1) /\ s.bodies = B
        /\ ~s.threw /\ ~s.lost
    <3>1. n - k - 1 \in Int /\ n - k - 1 = n - (k + 1) /\ NewResponse \in Responses
      BY <1>1, NewResponseFacts
    <3> HIDE DEF p
    <3> QED BY <1>10, <2>4, <2>5, <3>1 DEF Clients
  <2>7. Len(s.bodies) = k + 1 /\ k + 1 <= n
    BY <1>1, <1>2, <2>5, <2>6
  <2>8. ASSUME NEW j \in 1 .. k + 1 PROVE s.bodies[j] = Answer(e[j])
    <3>1. CASE j = k + 1
      BY <2>2, <2>5, <2>6, <3>1 DEF m
    <3>2. CASE j # k + 1
      <4>1. j \in 1 .. k
        BY <1>1, <3>2
      <4> QED BY <1>1, <2>5, <2>6, <4>1
    <3> QED BY <3>1, <3>2
  <2>9. u + 1 = Len(Stream(e, k + 1)) /\ (u + 1) - Len(Stream(e, k + 1)) = 0
    BY <1>4, <1>5, <1>6, <1>13
  <2>10. k + 1 < L => At(NewResponse, e[(k + 1) + 1], 0)
    <3> SUFFICES ASSUME k + 1 < L PROVE At(NewResponse, e[(k + 1) + 1], 0)
      OBVIOUS
    <3>1. k + 1 \in 0 .. L - 1
      BY <1>1, <1>3
    <3>2. e[(k + 1) + 1] \in Messages
      BY <3>1, StreamFacts DEF L
    <3> QED BY <3>2, NewResponseFacts
  <2>11. Place(s, e, n, u + 1)
    BY <2>6, <2>7, <2>8, <2>9, <2>10 DEF Place, L
  <2>12. Grew(q, s)
    <3>1. k <= k + 1 /\ k # k + 1
      BY <1>1
    <3> QED BY <2>7, <3>1 DEF Grew, k
  <2> QED BY <2>11, <2>12
<1>14. CASE ~(m.framing # "close" /\ v + 1 = Len(E))
  <2>1. At(r, m, v + 1)
    BY <1>8, <1>14
  <2>2. r.state # "COMPLETE"
    BY <1>4, <2>1, AtFacts
  <2>3. s = p
    BY <1>9, <1>10, <1>11, <2>2 DEF Pop
  <2>4. Len(s.bodies) = k
    BY <1>10, <2>3 DEF k
  <2>5. /\ (u + 1) - Len(Stream(e, k)) = v + 1 /\ m = e[k + 1]
    BY <1>12 DEF w, m
  <2>6. Place(s, e, n, u + 1)
    BY <1>1, <1>3, <1>10, <1>12, <2>1, <2>3, <2>4, <2>5 DEF Place, L
  <2>7. Grew(q, s)
    BY <1>1, <1>8, <1>10, <2>3, <2>4 DEF Grew, k
  <2> QED BY <2>6, <2>7
<1> QED BY <1>13, <1>14

\* The whole loop of Connection::pump.
LEMMA TakeAllFacts ==
  ASSUME NEW e, WellFramed(e), NEW n \in 0 .. Len(e), NEW u \in Nat, NEW q, Place(q, e, n, u),
         NEW cs \in Seq(Symbols), Has(Stream(e, n), u, cs)
  PROVE  Place(TakeAll(q, cs), e, n, u + Len(cs)) /\ Grew(q, TakeAll(q, cs))
<1> DEFINE N == Len(cs)
           S == Stream(e, n)
           Next1(f) == [i \in 0 .. N |-> IF i = 0 THEN q ELSE TakeOne(f[i - 1], cs[i])]
           taken == CHOOSE f : f = Next1(f)
           g == [x \in Clients \X Symbols |->
                   IF Take(x[1], x[2]) \in Clients THEN Take(x[1], x[2]) ELSE x[1]]
           Reached(p, i) == Place(p, e, n, u + i) /\ Grew(q, p)
<1>1. N \in Nat /\ S \in Seq(Symbols) /\ Len(S) \in Nat
  BY StreamFacts
<1>2. \A p, c : TakeOne(p, c) = Take(p, c)
  BY DEF TakeOne
<1>3. \A p, m, x : Place(p, e, m, x) => p \in Clients
  BY DEF Place
<1>4. ASSUME NEW i \in 1 .. N PROVE cs[i] = S[u + i] /\ u + i <= Len(S) /\ cs[i] \in Symbols
  <2>1. cs[i] = S[u + i]
    BY HasAt, Zenon DEF S, N
  <2>2. u + i <= Len(S)
    BY <1>1 DEF Has
  <2> HIDE DEF Symbols, S
  <2>3. cs[i] \in Symbols
    OBVIOUS
  <2> QED BY <2>1, <2>2, <2>3
<1>5. Reached(q, 0)
  <2>1. u + 0 = u
    OBVIOUS
  <2>2. q.r.read <= q.r.read /\ Len(q.bodies) <= Len(q.bodies)
    BY <1>3 DEF Clients, Responses
  <2> QED BY <2>1, <2>2 DEF Grew
<1>6. ASSUME NEW i \in 1 .. N, NEW p, Reached(p, i - 1) PROVE Reached(Take(p, cs[i]), i)
  <2> DEFINE s == Take(p, cs[i])
  <2>1. PICK x : x = u + (i - 1)
    OBVIOUS
  <2>2. x \in Nat /\ x < Len(S) /\ x + 1 = u + i /\ cs[i] = S[x + 1]
    BY <1>1, <1>4, <2>1
  <2>3. Place(p, e, n, x) /\ Grew(q, p)
    BY <1>6, <2>1
  <2>4. Place(Take(p, S[x + 1]), e, n, x + 1) /\ Grew(p, Take(p, S[x + 1]))
    BY <2>2, <2>3, TakeStep DEF S
  <2>5. Place(s, e, n, u + i) /\ Grew(p, s)
    BY <2>2, <2>4
  <2>6. q \in Clients /\ p \in Clients /\ s \in Clients
    BY <1>3, <2>3, <2>5, Zenon
  <2> HIDE DEF s
  <2>7. /\ Len(q.bodies) \in Nat /\ Len(p.bodies) \in Nat /\ Len(s.bodies) \in Nat
        /\ q.r.read \in Nat /\ p.r.read \in Nat /\ s.r.read \in Nat
    <3>1. ASSUME NEW o \in Clients PROVE Len(o.bodies) \in Nat /\ o.r.read \in Nat
      <4>1. o.bodies \in Seq([status : Nat, body : Seq(Symbols)]) /\ o.r \in Responses
        BY DEF Clients
      <4> QED BY <4>1 DEF Responses
    <3> QED BY <2>6, <3>1
  <2>8. Grew(q, s)
    <3> DEFINE a == Len(q.bodies)  b == Len(p.bodies)  c == Len(s.bodies)
               d == q.r.read  y == p.r.read  z == s.r.read
    <3>1. /\ a \in Nat /\ b \in Nat /\ c \in Nat /\ d \in Nat /\ y \in Nat /\ z \in Nat
          /\ a <= b /\ (a = b => d <= y) /\ b <= c /\ (b = c => y <= z)
      BY <2>3, <2>5, <2>7 DEF Grew
    <3> HIDE DEF a, b, c, d, y, z
    <3>2. a <= c /\ (a = c => d <= z)
      BY <3>1
    <3> QED BY <3>2 DEF Grew, a, c, d, z
  <2> QED BY <2>5, <2>8 DEF s
<1> HIDE DEF N, S, Reached
<1>7. g \in [Clients \X Symbols -> Clients]
  OBVIOUS
<1>8. \A p \in Clients, c \in Symbols : Take(p, c) \in Clients => g[<<p, c>>] = Take(p, c)
  OBVIOUS
<1> HIDE DEF g
<1>9. PICK f \in [0 .. N -> Clients] : IsFold(f, g, q, cs, N)
  <2>1. q \in Clients
    BY <1>3
  <2> QED BY <1>1, <1>4, <1>7, <2>1, FoldExists
<1>10. DOMAIN f = 0 .. N /\ f[0] = q /\ \A i \in 1 .. N : f[i] = g[<<f[i - 1], cs[i]>>]
  BY <1>9 DEF IsFold
<1>11. ASSUME NEW i \in 1 .. N, Reached(f[i - 1], i - 1)
       PROVE  f[i] = Take(f[i - 1], cs[i]) /\ Reached(f[i], i)
  <2>1. Reached(Take(f[i - 1], cs[i]), i)
    BY <1>6, <1>11
  <2>2. Take(f[i - 1], cs[i]) \in Clients
    BY <1>3, <2>1, Zenon DEF Reached
  <2>3. f[i - 1] \in Clients
    <3>1. i - 1 \in 0 .. N
      BY <1>1
    <3> QED BY <1>9, <3>1
  <2>4. f[i] = Take(f[i - 1], cs[i])
    BY <1>4, <1>8, <1>10, <2>2, <2>3
  <2> QED BY <2>1, <2>4
<1> DEFINE T == {i \in Nat : i <= N => Reached(f[i], i)}
<1>12. \A i \in 0 .. N : Reached(f[i], i)
  <2>1. 0 \in T
    BY <1>5, <1>10
  <2>2. ASSUME NEW i \in T PROVE i + 1 \in T
    <3> SUFFICES ASSUME i + 1 <= N PROVE Reached(f[i + 1], i + 1)
      OBVIOUS
    <3>1. PICK j : j = i + 1
      OBVIOUS
    <3>2. j \in 1 .. N /\ j - 1 = i /\ Reached(f[j - 1], j - 1)
      BY <1>1, <2>2, <3>1
    <3>3. Reached(f[j], j)
      BY <1>11, <3>2
    <3> QED BY <3>1, <3>3
  <2>3. T = Nat
    <3>1. T \in SUBSET Nat
      OBVIOUS
    <3> HIDE DEF T
    <3> QED BY <2>1, <2>2, <3>1, SetInduction
  <2> QED BY <1>1, <2>3
<1>13. f = Next1(f)
  <2>1. ASSUME NEW i \in 0 .. N PROVE f[i] = IF i = 0 THEN q ELSE TakeOne(f[i - 1], cs[i])
    <3>1. CASE i = 0
      BY <1>10, <3>1
    <3>2. CASE i # 0
      <4>1. i \in 1 .. N /\ i - 1 \in 0 .. N
        BY <1>1, <3>2
      <4>2. f[i] = Take(f[i - 1], cs[i])
        BY <1>11, <1>12, <4>1
      <4> QED BY <1>2, <3>2, <4>2
    <3> QED BY <3>1, <3>2
  <2> QED BY <1>10, <2>1
<1>14. taken = Next1(taken)
  BY <1>13
<1>15. TakeAll(q, cs) = taken[N]
  BY DEF TakeAll, N
<1> HIDE DEF taken
<1>16. \A i \in 0 .. N : taken[i] = IF i = 0 THEN q ELSE TakeOne(taken[i - 1], cs[i])
  BY <1>14
<1> DEFINE U == {i \in Nat : i <= N => Reached(taken[i], i)}
<1>17. 0 \in U
  BY <1>1, <1>5, <1>16
<1>18. ASSUME NEW i \in U PROVE i + 1 \in U
  <2> SUFFICES ASSUME i + 1 <= N PROVE Reached(taken[i + 1], i + 1)
    OBVIOUS
  <2>1. PICK j : j = i + 1
    OBVIOUS
  <2>2. j \in 1 .. N /\ j \in 0 .. N /\ j # 0 /\ j - 1 = i /\ Reached(taken[j - 1], j - 1)
    BY <1>1, <1>18, <2>1
  <2>3. taken[j] = Take(taken[j - 1], cs[j])
    BY <1>2, <1>16, <2>2
  <2>4. Reached(taken[j], j)
    BY <1>6, <2>2, <2>3
  <2> QED BY <2>1, <2>4
<1>19. U = Nat
  <2>1. U \in SUBSET Nat
    OBVIOUS
  <2> HIDE DEF U
  <2> QED BY <1>17, <1>18, <2>1, SetInduction
<1>20. Reached(taken[N], N)
  BY <1>1, <1>19
<1> QED BY <1>15, <1>20 DEF Reached, N

-----------------------------------------------------------------------------
(* Where the connection is in the answers.                                 *)

LEMMA Pieces ==
  ASSUME NEW s \in Seq(Symbols), NEW n \in 0 .. Len(s)
  PROVE  /\ SubSeq(s, 1, n) \in Seq(Symbols) /\ Len(SubSeq(s, 1, n)) = n
         /\ SubSeq(s, n + 1, Len(s)) \in Seq(Symbols)
         /\ Len(SubSeq(s, n + 1, Len(s))) = Len(s) - n
         /\ SubSeq(s, 1, n) \o SubSeq(s, n + 1, Len(s)) = s
<1> HIDE DEF Symbols
<1> DEFINE L == Len(s)
           a == SubSeq(s, 1, n)
           b == SubSeq(s, n + 1, L)
<1>1. L \in Nat /\ n \in Nat /\ n <= L
  OBVIOUS
<1>2. a \in Seq(Symbols) /\ Len(a) = n /\ \A i \in 1 .. n : a[i] = s[i]
  OBVIOUS
<1>3. b \in Seq(Symbols) /\ Len(b) = L - n /\ \A i \in 1 .. L - n : b[i] = s[n + i]
  <2>1. \A i \in n + 1 .. L : s[i] \in Symbols
    BY <1>1
  <2>2. /\ b \in Seq(Symbols) /\ Len(b) = IF n + 1 <= L THEN L - (n + 1) + 1 ELSE 0
        /\ \A i \in 1 .. L - (n + 1) + 1 : b[i] = s[(n + 1) + i - 1]
    BY <1>1, <2>1, SubSeqProperties
  <2>3. Len(b) = L - n
    BY <1>1, <2>2
  <2>4. ASSUME NEW i \in 1 .. L - n PROVE b[i] = s[n + i]
    <3>1. i \in 1 .. L - (n + 1) + 1 /\ (n + 1) + i - 1 = n + i
      BY <1>1
    <3> QED BY <2>2, <3>1
  <2> HIDE DEF b
  <2> QED BY <2>2, <2>3, <2>4
<1> SUFFICES a \o b = s
  BY <1>2, <1>3
<1> HIDE DEF a, b
<1>4. /\ a \o b \in Seq(Symbols) /\ Len(a \o b) = L
      /\ \A i \in 1 .. L : (a \o b)[i] = IF i <= n THEN a[i] ELSE b[i - n]
  BY <1>1, <1>2, <1>3
<1>5. ASSUME NEW i \in 1 .. L PROVE (a \o b)[i] = s[i]
  <2>1. CASE i <= n
    BY <1>1, <1>2, <1>4, <2>1
  <2>2. CASE i > n
    <3>1. i - n \in 1 .. L - n /\ n + (i - n) = i /\ ~(i <= n)
      BY <1>1, <2>2
    <3> QED BY <1>3, <1>4, <3>1
  <2>3. i <= n \/ i > n
    BY <1>1
  <2> HIDE DEF L
  <2> QED BY <2>1, <2>2, <2>3
<1> QED BY <1>4, <1>5, SeqEqual

LEMMA Regroup ==
  ASSUME NEW s \in Seq(Symbols), NEW t \in Seq(Symbols), NEW u \in Seq(Symbols)
  PROVE  (s \o t) \o u = s \o (t \o u)
<1> HIDE DEF Symbols
<1> QED BY ConcatAssociative

LEMMA HasBoth ==
  ASSUME NEW s \in Seq(Symbols), NEW a \in Seq(Symbols), NEW b \in Seq(Symbols),
         NEW u \in Nat, Has(s, u, a \o b)
  PROVE  Has(s, u, a) /\ Has(s, u + Len(a), b)
<1>1. /\ a \o b \in Seq(Symbols) /\ Len(a) \in Nat
      /\ Has(a \o b, Len(a), b) /\ Has(a \o b, 0, a)
  BY HasLast
<1>2. Has(s, u + 0, a) /\ Has(s, u + Len(a), b)
  BY <1>1, HasWithin
<1> QED BY <1>2

\* What follows to the end still follows when as much is added to both.
LEMMA HasMore ==
  ASSUME NEW s \in Seq(Symbols), NEW t \in Seq(Symbols), NEW x \in Seq(Symbols),
         NEW u \in Nat, Has(s, u, t), u + Len(t) = Len(s)
  PROVE  Has(s \o x, u, t \o x) /\ u + Len(t \o x) = Len(s \o x)
<1> DEFINE p == s \o x
           q == t \o x
<1>1. /\ p \in Seq(Symbols) /\ q \in Seq(Symbols)
      /\ Len(p) = Len(s) + Len(x) /\ Len(q) = Len(t) + Len(x)
      /\ Len(s) \in Nat /\ Len(t) \in Nat /\ Len(x) \in Nat
      /\ Has(q, 0, t) /\ Has(q, Len(t), x) /\ Has(p, Len(s), x)
  BY HasLast
<1>2. Has(p, u, t)
  BY HasLonger
<1> DEFINE a == Len(s)  b == Len(t)  c == Len(x)  d == Len(p)  g == Len(q)
<1>3. a \in Nat /\ b \in Nat /\ c \in Nat /\ d = a + c /\ g = b + c /\ u + b = a
  BY <1>1
<1>4. ASSUME NEW i \in u + 1 .. u + Len(q) PROVE p[i] = q[i - u]
  <2>1. PICK j : j = i - u
    OBVIOUS
  <2>2. j \in 1 .. b + c /\ i = u + j /\ j \in Nat
    <3> HIDE DEF a, b, c, d, p, q
    <3> QED BY <1>3, <2>1
  <2>3. CASE j <= b
    <3>1. j \in 1 .. Len(t) /\ 0 + j = j /\ 0 \in Nat
      BY <1>1, <2>2, <2>3
    <3> HIDE DEF p, q
    <3>2. p[u + j] = t[j]
      BY <1>1, <1>2, <3>1, HasAt, Zenon
    <3>3. q[0 + j] = t[j]
      BY <1>1, <3>1, HasAt, Zenon
    <3> QED BY <2>1, <2>2, <3>1, <3>2, <3>3
  <2>4. CASE j > b
    <3>1. PICK l : l = j - b
      OBVIOUS
    <3>2. l \in 1 .. c /\ b + l = j /\ a + l = i
      <4> HIDE DEF a, b, c, d, g, p, q
      <4> QED BY <1>3, <2>2, <2>4, <3>1
    <3> HIDE DEF p, q
    <3>3. p[Len(s) + l] = x[l]
      BY <1>1, <3>2, HasAt, Zenon
    <3>4. q[Len(t) + l] = x[l]
      BY <1>1, <3>2, HasAt, Zenon
    <3> QED BY <2>1, <3>2, <3>3, <3>4
  <2>5. j <= b \/ j > b
    BY <1>3, <2>2
  <2> QED BY <2>3, <2>4, <2>5
<1>5. u + g = d /\ u + g <= d
  <2> HIDE DEF a, b, c, d, g, p, q
  <2> QED BY <1>3
<1>6. u + Len(q) = Len(p) /\ u + Len(q) <= Len(p)
  BY <1>5
<1> HIDE DEF p, q
<1>7. Has(p, u, q)
  BY <1>4, <1>6 DEF Has
<1> QED BY <1>6, <1>7 DEF p, q

LEMMA PlaceFacts ==
  ASSUME NEW e, WellFramed(e), NEW n \in 0 .. Len(e), NEW u \in Nat, NEW q, Place(q, e, n, u)
  PROVE  /\ q \in Clients /\ Len(q.bodies) \in 0 .. n /\ q.outstanding = n - Len(q.bodies)
         /\ q.r \in Responses /\ q.r.state # "COMPLETE" /\ ~q.threw /\ ~q.lost
         /\ Len(q.bodies) < Len(e) =>
              At(q.r, e[Len(q.bodies) + 1], u - Len(Stream(e, Len(q.bodies))))
         /\ Len(q.bodies) = Len(e) => q.r = NewResponse
<1> DEFINE L == Len(e)
           k == Len(q.bodies)
<1>1. /\ q \in Clients /\ ~q.threw /\ ~q.lost /\ k <= n /\ q.outstanding = n - k
      /\ IF k < L THEN At(q.r, e[k + 1], u - Len(Stream(e, k))) ELSE q.r = NewResponse
  BY DEF Place
<1>2. L \in Nat /\ k \in Nat /\ n \in Nat /\ n <= L
  BY <1>1, StreamFacts DEF Clients
<1>3. q.r \in Responses
  BY <1>1 DEF Clients
<1> HIDE DEF L, k
<1>4. q.r.state # "COMPLETE"
  <2>1. CASE k < L
    <3>1. k \in 0 .. L - 1
      BY <1>2, <2>1
    <3>2. e[k + 1] \in Messages /\ Bodied(e[k + 1])
      BY <3>1, StreamFacts DEF L
    <3> QED BY <1>1, <2>1, <3>2, AtFacts
  <2>2. CASE ~(k < L)
    BY <1>1, <2>2 DEF NewResponse
  <2> QED BY <2>1, <2>2
<1>5. k \in 0 .. n /\ (k = L => ~(k < L))
  BY <1>1, <1>2
<1> QED BY <1>1, <1>3, <1>4, <1>5 DEF L, k

\* No answer says that its body is empty, or has a status without a body: the
\* code takes the end of such an answer for a broken connection (http_empty).
AllBodied == \A e \in Exchanges : \A k \in 1 .. Len(e) : Bodied(e[k])

LEMMA Exchanged ==
  ASSUME AllBodied, NEW e \in Exchanges
  PROVE  WellFramed(e) /\ Len(e) \in Nat
<1>1. e \in Seq(Messages)
  BY ExchangesAssumption
<1>2. \A k \in 1 .. Len(e) : Bodied(e[k])
  BY DEF AllBodied
<1>3. \A k \in 1 .. Len(e) - 1 : e[k].framing # "close"
  BY FramingAssumption
<1>4. Len(e) \in Nat
  BY <1>1
<1> QED BY <1>1, <1>2, <1>3, <1>4 DEF WellFramed

\* What is on its way follows what has been taken, and all of it is there
\* unless the connection was cut.
InStream(u) ==
  /\ Place(client, exchange, issued, u)
  /\ Has(Stream(exchange, issued), u, wire \o rest)
  /\ (open \/ ~mayCut) => u + Len(wire \o rest) = Len(Stream(exchange, issued))

IInv ==
  /\ exchange \in Exchanges /\ mayCut \in BOOLEAN /\ issued \in 0 .. Len(exchange)
  /\ open \in BOOLEAN /\ wire \in Seq(Symbols) /\ rest \in Seq(Symbols)
  /\ client \in Clients /\ client.outstanding \in 0 .. issued
  /\ ~client.lost /\ client.r.state # "COMPLETE"
  /\ client.threw => mayCut
  /\ ~open => rest = <<>> /\ issued = Len(exchange)
  /\ ~client.threw => (\E u \in Nat : InStream(u)) \/ (~open /\ client.outstanding = 0)

LEMMA InitInv ==
  ASSUME AllBodied, Init
  PROVE  IInv
<1>1. exchange \in Exchanges /\ mayCut \in BOOLEAN /\ open = TRUE /\ issued = 0
      /\ wire = <<>> /\ rest = <<>> /\ client = NewClient
  BY ClientAssumption DEF Init
<1>2. WellFramed(exchange) /\ Len(exchange) \in Nat
  BY <1>1, Exchanged
<1>3. issued \in 0 .. Len(exchange)
  BY <1>1, <1>2
<1>4. wire \in Seq(Symbols) /\ rest \in Seq(Symbols) /\ wire \o rest = <<>>
  BY <1>1
<1>5. /\ client \in Clients /\ client.outstanding = 0 /\ ~client.lost /\ ~client.threw
      /\ client.r = NewResponse /\ client.bodies = <<>> /\ client.r.state # "COMPLETE"
  <2>1. <<>> \in Seq([status : Nat, body : Seq(Symbols)]) /\ NewResponse \in Responses
    BY NewResponseFacts
  <2>2. NewResponse.state # "COMPLETE"
    BY DEF NewResponse
  <2> HIDE DEF Responses, Symbols
  <2> QED BY <1>1, <2>1, <2>2 DEF NewClient, Clients
<1>6. Stream(exchange, 0) = <<>> /\ Len(Stream(exchange, 0)) = 0
  <2>1. Stream(exchange, 0) = <<>>
    BY <1>2, StreamFacts
  <2> QED BY <2>1
<1>7. Place(client, exchange, issued, 0)
  <2>1. Len(client.bodies) = 0
    BY <1>5
  <2>2. 0 < Len(exchange) => At(NewResponse, exchange[0 + 1], 0)
    <3> SUFFICES ASSUME 0 < Len(exchange) PROVE At(NewResponse, exchange[0 + 1], 0)
      OBVIOUS
    <3>1. 0 \in 0 .. Len(exchange) - 1
      BY <1>2
    <3>2. exchange[0 + 1] \in Messages
      BY <1>2, <3>1, StreamFacts
    <3> QED BY <3>2, NewResponseFacts
  <2>3. 0 - 0 = 0 /\ 0 - Len(Stream(exchange, 0)) = 0
    BY <1>6
  <2>4. IF 0 < Len(exchange) THEN At(client.r, exchange[0 + 1], 0 - Len(Stream(exchange, 0)))
        ELSE 0 = Len(Stream(exchange, 0)) /\ client.r = NewResponse
    BY <1>5, <1>6, <2>2, <2>3
  <2>5. \A j \in 1 .. 0 : client.bodies[j] = Answer(exchange[j])
    OBVIOUS
  <2>6. client.outstanding = issued - 0 /\ 0 <= issued
    BY <1>1, <1>5
  <2>7. 0 - Len(Stream(exchange, 0)) \in Nat
    BY <2>3
  <2> HIDE DEF Clients
  <2> QED BY <1>1, <1>5, <2>1, <2>4, <2>5, <2>6, <2>7 DEF Place
<1>8. Has(Stream(exchange, issued), 0, wire \o rest)
      /\ 0 + Len(wire \o rest) = Len(Stream(exchange, issued))
  BY <1>1, <1>4, <1>6 DEF Has
<1>9. InStream(0)
  BY <1>7, <1>8 DEF InStream
<1>10. client.outstanding \in 0 .. issued
  BY <1>1, <1>5
<1> QED BY <1>1, <1>3, <1>4, <1>5, <1>9, <1>10 DEF IInv

LEMMA RequestInv ==
  ASSUME AllBodied, IInv, request
  PROVE  IInv'
<1> DEFINE e == exchange
           n == issued
           S == Stream(e, n)
           x == Encoded(e[n + 1])
           t == wire \o rest
<1>1. /\ e \in Exchanges /\ n \in 0 .. Len(e) /\ wire \in Seq(Symbols) /\ rest \in Seq(Symbols)
      /\ mayCut \in BOOLEAN /\ open /\ client \in Clients /\ client.outstanding \in 0 .. n
      /\ ~client.lost /\ client.r.state # "COMPLETE" /\ ~client.threw
      /\ n < Len(e) /\ n' = n + 1 /\ rest' = rest \o x
      /\ client' = [client EXCEPT !.outstanding = @ + 1]
      /\ UNCHANGED <<exchange, mayCut, wire, open>>
  BY DEF IInv, request
<1>2. PICK u \in Nat : InStream(u)
  BY <1>1 DEF IInv
<1>3. WellFramed(e) /\ Len(e) \in Nat
  BY <1>1, Exchanged
<1>4. n \in 0 .. Len(e) - 1 /\ n \in Nat /\ n + 1 \in 0 .. Len(e) /\ n \in 0 .. Len(e)
  BY <1>1, <1>3
<1>5. Stream(e, n + 1) = S \o x /\ x \in Seq(Symbols) /\ S \in Seq(Symbols)
  <2>1. Stream(e, n + 1) = S \o x /\ e[n + 1] \in Messages /\ S \in Seq(Symbols)
    BY <1>3, <1>4, StreamFacts
  <2> QED BY <2>1, EncodedFacts
<1>6. /\ Place(client, e, n, u) /\ Has(S, u, t) /\ u + Len(t) = Len(S)
  BY <1>1, <1>2 DEF InStream
<1> HIDE DEF Symbols
<1>7. t \in Seq(Symbols)
  BY <1>1
<1>8. wire' \o rest' = t \o x
  <2>1. (wire \o rest) \o x = wire \o (rest \o x)
    <3> HIDE DEF x
    <3> QED BY <1>1, <1>5, Regroup, Zenon
  <2> QED BY <1>1, <2>1
<1> HIDE DEF e, n, S, x, t
<1>9. Has(S \o x, u, t \o x) /\ u + Len(t \o x) = Len(S \o x)
  BY <1>5, <1>6, <1>7, HasMore, Zenon
<1>10. rest' \in Seq(Symbols)
  BY <1>1, <1>5
<1>11. /\ client' \in Clients /\ client'.outstanding = client.outstanding + 1
       /\ client'.r = client.r /\ client'.bodies = client.bodies /\ ~client'.lost /\ ~client'.threw
  <2>1. client \in Clients /\ client.outstanding + 1 \in Int /\ ~client.lost /\ ~client.threw
        /\ client' = [client EXCEPT !.outstanding = client.outstanding + 1]
    BY <1>1 DEF Clients
  <2> HIDE DEF Responses
  <2> QED BY <2>1 DEF Clients
<1>12. Place(client', e, n + 1, u)
  <2> DEFINE k == Len(client.bodies)
  <2>1. /\ k \in 0 .. n /\ client.outstanding = n - k
    BY <1>3, <1>4, <1>6, PlaceFacts
  <2>2. k <= n + 1 /\ client'.outstanding = (n + 1) - k
    <3> HIDE DEF k
    <3> QED BY <1>4, <1>11, <2>1
  <2>3. /\ \A j \in 1 .. k : client.bodies[j] = Answer(e[j])
        /\ u - Len(Stream(e, k)) \in Nat
        /\ IF k < Len(e) THEN At(client.r, e[k + 1], u - Len(Stream(e, k)))
           ELSE u = Len(Stream(e, k)) /\ client.r = NewResponse
    BY <1>6 DEF Place
  <2> QED BY <1>11, <2>2, <2>3, Zenon DEF Place
<1>13. e' = e /\ n' = n + 1
  BY <1>1 DEF e, n
<1>14. InStream(u)'
  <2>1. /\ Place(client', e', n', u) /\ Has(Stream(e', n'), u, wire' \o rest')
        /\ u + Len(wire' \o rest') = Len(Stream(e', n'))
    BY <1>5, <1>8, <1>9, <1>12, <1>13
  <2> QED BY <2>1 DEF InStream, e, n
<1>15. n' \in 0 .. Len(e') /\ client'.outstanding \in 0 .. n'
  BY <1>1, <1>3, <1>4, <1>11, <1>13
<1>16. client'.r.state # "COMPLETE"
  BY <1>1, <1>11
<1> QED BY <1>1, <1>10, <1>11, <1>14, <1>15, <1>16 DEF IInv, e, n

LEMMA SocketErrorInv ==
  ASSUME IInv, SocketError
  PROVE  IInv'
<1>1. client \in Clients /\ client' = [client EXCEPT !.threw = TRUE] /\ mayCut
  BY DEF IInv, SocketError
<1>2. /\ client' \in Clients /\ client'.outstanding = client.outstanding
      /\ client'.r = client.r /\ ~client'.lost /\ client'.threw
  <2>1. ~client.lost
    BY DEF IInv
  <2> HIDE DEF Responses, Symbols
  <2> QED BY <1>1, <2>1 DEF Clients
<1> QED BY <1>1, <1>2 DEF IInv, SocketError

LEMMA SendInv ==
  ASSUME IInv, Send
  PROVE  IInv'
<1> HIDE DEF Symbols
<1>1. wire \in Seq(Symbols) /\ rest \in Seq(Symbols) /\ open
      /\ UNCHANGED <<exchange, mayCut, issued, open, client>>
  BY DEF IInv, Send
<1>2. PICK n \in 1 .. Len(rest) : wire' = wire \o SubSeq(rest, 1, n)
                                  /\ rest' = SubSeq(rest, n + 1, Len(rest))
  BY DEF Send
<1> DEFINE a == SubSeq(rest, 1, n)
           b == SubSeq(rest, n + 1, Len(rest))
<1>3. a \in Seq(Symbols) /\ b \in Seq(Symbols) /\ a \o b = rest
  <2>1. n \in 0 .. Len(rest)
    BY <1>1
  <2> QED BY <1>1, <2>1, Pieces
<1> HIDE DEF a, b
<1>4. wire' = wire \o a /\ rest' = b
  BY <1>2 DEF a, b
<1>5. wire' \in Seq(Symbols) /\ rest' \in Seq(Symbols)
  BY <1>1, <1>3, <1>4
<1>6. wire' \o rest' = wire \o rest
  <2>1. (wire \o a) \o b = wire \o (a \o b)
    BY <1>1, <1>3, Regroup, Zenon
  <2> QED BY <1>3, <1>4, <2>1
<1>7. ASSUME NEW u \in Nat, InStream(u) PROVE InStream(u)'
  BY <1>1, <1>6, <1>7 DEF InStream
<1>8. ~client.threw => \E u \in Nat : InStream(u)
  BY <1>1 DEF IInv
<1>9. ~client'.threw => \E u \in Nat : InStream(u)'
  BY <1>1, <1>7, <1>8
<1> QED BY <1>1, <1>5, <1>9 DEF IInv

LEMMA CloseInv ==
  ASSUME IInv, Close
  PROVE  IInv'
<1> HIDE DEF Symbols
<1>1. /\ wire \in Seq(Symbols) /\ rest \in Seq(Symbols) /\ open /\ open' = FALSE
      /\ rest' = <<>> /\ (rest = <<>> \/ mayCut) /\ mayCut \in BOOLEAN /\ issued = Len(exchange)
      /\ UNCHANGED <<exchange, mayCut, issued, wire, client>>
  BY DEF IInv, Close
<1>2. wire' \o rest' = wire /\ rest' \in Seq(Symbols)
  <2>1. wire \o <<>> = wire
    BY <1>1, ConcatEmptySeq
  <2> QED BY <1>1, <2>1
<1>3. ASSUME NEW u \in Nat, InStream(u) PROVE InStream(u)'
  <2>1. /\ Place(client, exchange, issued, u)
        /\ Has(Stream(exchange, issued), u, wire \o rest)
        /\ u + Len(wire \o rest) = Len(Stream(exchange, issued))
    BY <1>1, <1>3 DEF InStream
  <2>2. CASE rest = <<>>
    BY <1>1, <2>1, <2>2 DEF InStream
  <2>3. CASE mayCut
    <3>1. Has(Stream(exchange, issued), u, wire)
      <4>1. Len(wire \o rest) = Len(wire) + Len(rest) /\ Len(rest) \in Nat /\ Len(wire) \in Nat
        BY <1>1
      <4>2. \A i \in 1 .. Len(wire) : (wire \o rest)[i] = wire[i]
        BY <1>1
      <4>3. u + Len(wire) <= Len(Stream(exchange, issued))
        BY <2>1, <4>1
      <4>4. ASSUME NEW i \in u + 1 .. u + Len(wire)
            PROVE  Stream(exchange, issued)[i] = wire[i - u]
        <5>1. i - u \in 1 .. Len(wire) /\ i \in u + 1 .. u + Len(wire \o rest)
          BY <4>1
        <5>2. Stream(exchange, issued)[i] = (wire \o rest)[i - u]
          BY <2>1, <5>1 DEF Has
        <5> QED BY <4>2, <5>1, <5>2
      <4> QED BY <4>3, <4>4 DEF Has
    <3>2. Has(Stream(exchange, issued), u, wire' \o rest')
      BY <1>2, <3>1
    <3> QED BY <1>1, <2>1, <2>3, <3>2 DEF InStream
  <2> QED BY <1>1, <2>2, <2>3
<1>4. ~client.threw => \E u \in Nat : InStream(u)
  BY <1>1 DEF IInv
<1>5. ~client'.threw => \E u \in Nat : InStream(u)'
  BY <1>1, <1>3, <1>4
<1> QED BY <1>1, <1>2, <1>5 DEF IInv

\* A pump reads on where the last one ended.
LEMMA PumpReads ==
  ASSUME AllBodied, IInv, pump
  PROVE  \E u, x \in Nat : /\ InStream(u) /\ InStream(x)' /\ u <= x
                           /\ x <= Len(Stream(exchange, issued))
                           /\ Grew(client, client')
<1> HIDE DEF Symbols
<1> DEFINE e == exchange
           S == Stream(e, issued)
           n == IF Len(wire) < BufSize THEN Len(wire) ELSE BufSize
           a == SubSeq(wire, 1, n)
           b == SubSeq(wire, n + 1, Len(wire))
<1>1. /\ e \in Exchanges /\ issued \in 0 .. Len(e) /\ wire \in Seq(Symbols)
      /\ rest \in Seq(Symbols) /\ ~client.threw /\ client.outstanding > 0
      /\ client' = TakeAll(client, a) /\ wire' = b
      /\ UNCHANGED <<exchange, mayCut, issued, rest, open>>
  BY DEF IInv, pump
<1>2. PICK u \in Nat : InStream(u)
  BY <1>1 DEF IInv
<1>3. WellFramed(e) /\ Len(e) \in Nat
  BY <1>1, Exchanged
<1>4. S \in Seq(Symbols) /\ Len(S) \in Nat
  BY <1>1, <1>3, StreamFacts
<1>5. Len(wire) \in Nat /\ n \in 0 .. Len(wire) /\ n \in Nat
  BY <1>1, ClientAssumption
<1> HIDE DEF n
<1>6. /\ a \in Seq(Symbols) /\ Len(a) = n /\ b \in Seq(Symbols) /\ Len(b) = Len(wire) - n
      /\ a \o b = wire
  BY <1>1, <1>5, Pieces
<1>7. Place(client, e, issued, u) /\ Has(S, u, wire \o rest)
      /\ ((open \/ ~mayCut) => u + Len(wire \o rest) = Len(S))
  BY <1>2 DEF InStream
<1> HIDE DEF a, b, S, e
<1>8. /\ b \o rest \in Seq(Symbols) /\ wire \o rest = a \o (b \o rest)
      /\ Len(wire \o rest) = n + Len(b \o rest) /\ Len(b \o rest) \in Nat
  <2>1. (a \o b) \o rest = a \o (b \o rest)
    BY <1>1, <1>6, Regroup, Zenon
  <2>2. b \o rest \in Seq(Symbols)
    BY <1>1, <1>6
  <2> DEFINE c == b \o rest
  <2> HIDE DEF c
  <2>3. c \in Seq(Symbols) => Len(a \o c) = Len(a) + Len(c) /\ Len(c) \in Nat
    BY <1>6, HasLast
  <2> QED BY <1>6, <2>1, <2>2, <2>3 DEF c
<1> DEFINE t == b \o rest
<1>9. PICK x : x = u + n
  OBVIOUS
<1>10. Has(S, u, a) /\ Has(S, x, t)
  <2>1. Has(S, u, a \o t)
    BY <1>7, <1>8
  <2>2. Has(S, u, a) /\ Has(S, u + Len(a), t)
    BY <1>4, <1>6, <1>8, <2>1, HasBoth, Zenon
  <2> QED BY <1>6, <1>9, <2>2
<1>11. Place(client', e, issued, x) /\ Grew(client, client')
  <2>1. Has(Stream(e, issued), u, a)
    BY <1>10 DEF S
  <2>2. /\ Place(TakeAll(client, a), e, issued, u + Len(a))
        /\ Grew(client, TakeAll(client, a))
    <3>1. issued \in 0 .. Len(e)
      BY <1>1
    <3> QED BY <1>3, <1>6, <1>7, <2>1, <3>1, TakeAllFacts
  <2> QED BY <1>1, <1>6, <1>9, <2>2
<1>12. wire' \o rest' = t /\ e' = e /\ S' = S
  BY <1>1 DEF e, S
<1>13. (open \/ ~mayCut) => x + Len(t) = Len(S)
  <2> DEFINE p == Len(wire \o rest)
             q == Len(t)
  <2>1. p = n + q /\ q \in Nat /\ ((open \/ ~mayCut) => u + p = Len(S))
    BY <1>7, <1>8
  <2> HIDE DEF p, q
  <2>2. (open \/ ~mayCut) => (u + n) + q = Len(S)
    BY <1>4, <1>5, <2>1
  <2> QED BY <1>9, <2>2 DEF q
<1>14. InStream(x)'
  <2> HIDE DEF t
  <2>1. /\ Place(client', exchange', issued', x)
        /\ Has(Stream(exchange', issued'), x, wire' \o rest')
        /\ (open' \/ ~mayCut') => x + Len(wire' \o rest') = Len(Stream(exchange', issued'))
    BY <1>1, <1>10, <1>11, <1>12, <1>13 DEF e, S
  <2> QED BY <2>1 DEF InStream
<1>15. x \in Nat /\ u <= x /\ x <= Len(S)
  <2>1. u + n <= Len(S)
    BY <1>6, <1>10 DEF Has
  <2> QED BY <1>5, <1>9, <2>1
<1> QED BY <1>2, <1>11, <1>14, <1>15 DEF S, e

LEMMA PumpInv ==
  ASSUME AllBodied, IInv, pump
  PROVE  IInv'
<1> HIDE DEF Symbols
<1>1. PICK u, x \in Nat : InStream(x)'
  BY PumpReads
<1>2. /\ exchange \in Exchanges /\ issued \in 0 .. Len(exchange) /\ mayCut \in BOOLEAN
      /\ UNCHANGED <<exchange, mayCut, issued, rest, open>> /\ wire \in Seq(Symbols)
  BY DEF IInv, pump
<1>3. WellFramed(exchange) /\ Len(exchange) \in Nat
  BY <1>2, Exchanged
<1>4. Place(client', exchange, issued, x)
  BY <1>1, <1>2 DEF InStream
<1>5. /\ client' \in Clients /\ client'.outstanding = issued - Len(client'.bodies)
      /\ Len(client'.bodies) \in 0 .. issued
      /\ client'.r.state # "COMPLETE" /\ ~client'.threw /\ ~client'.lost
  BY <1>2, <1>3, <1>4, PlaceFacts
<1>6. client'.outstanding \in 0 .. issued
  BY <1>2, <1>5
<1>7. wire' \in Seq(Symbols)
  <2>1. PICK n \in 0 .. Len(wire) : wire' = SubSeq(wire, n + 1, Len(wire))
    <3> DEFINE k == IF Len(wire) < BufSize THEN Len(wire) ELSE BufSize
    <3>1. k \in 0 .. Len(wire)
      BY <1>2, ClientAssumption
    <3>2. wire' = SubSeq(wire, k + 1, Len(wire))
      BY DEF pump
    <3> HIDE DEF k
    <3> QED BY <3>1, <3>2
  <2> QED BY <1>2, <2>1, Pieces
<1> QED BY <1>1, <1>2, <1>5, <1>6, <1>7 DEF IInv

\* What has been read of the first answer when the connection has closed: all
\* of it, if the server has sent all.
LEMMA ClosedFacts ==
  ASSUME AllBodied, IInv, pumpClosed
  PROVE  LET k == Len(client.bodies)
             m == exchange[k + 1]
         IN  /\ k \in 0 .. Len(exchange) - 1 /\ m \in Messages /\ issued = Len(exchange)
             /\ \E u \in Nat : InStream(u)
             /\ EndIsValid(client.r) =>
                  /\ k + 1 = Len(exchange) /\ m.framing = "close"
                  /\ Given(client.r) = [status |-> m.status,
                                        body |-> SubSeq(Body(m), 1, client.r.read)]
                  /\ client.r.read \in 0 .. Len(Body(m))
                  /\ ~mayCut => client.r.read = Len(Body(m))
             /\ ~EndIsValid(client.r) => mayCut
<1> DEFINE e == exchange
           L == Len(e)
           k == Len(client.bodies)
           m == e[k + 1]
           E == Encoded(m)
           w == Len(Stream(e, k))
           r == client.r
<1>1. /\ e \in Exchanges /\ ~client.threw /\ client.outstanding > 0 /\ wire = <<>> /\ ~open
      /\ rest = <<>> /\ issued = L /\ mayCut \in BOOLEAN
  BY DEF IInv, pumpClosed
<1>2. PICK u \in Nat : InStream(u)
  BY <1>1 DEF IInv
<1>3. WellFramed(e) /\ L \in Nat
  BY <1>1, Exchanged
<1>4. Place(client, e, L, u)
  BY <1>1, <1>2 DEF InStream
<1>5. /\ k \in 0 .. L /\ client.outstanding = L - k
      /\ k < L => At(r, m, u - w)
  <2>1. L \in 0 .. Len(e)
    BY <1>3
  <2> QED BY <1>3, <1>4, <2>1, PlaceFacts
<1> HIDE DEF L, k, r
<1>6. k \in 0 .. L - 1 /\ k < L /\ k + 1 \in k + 1 .. L /\ L \in k + 1 .. L /\ k \in 0 .. L
  BY <1>1, <1>3, <1>5
<1>7. /\ m \in Messages /\ Bodied(m) /\ Len(Stream(e, k + 1)) = w + Len(E)
      /\ Len(Stream(e, k + 1)) <= Len(Stream(e, L)) /\ w \in Nat
  BY <1>3, <1>6, StreamFacts DEF L
<1> DEFINE v == u - w
<1>8. At(r, m, v)
  BY <1>5, <1>6
<1>9. k + 1 # L => m.framing # "close"
  <2> SUFFICES ASSUME k + 1 # L PROVE m.framing # "close"
    OBVIOUS
  <2>1. k + 1 \in 1 .. L - 1
    BY <1>3, <1>6
  <2> QED BY <1>3, <2>1 DEF WellFramed, L
<1> HIDE DEF v, m, w, e
<1>10. /\ v \in Nat /\ v <= Len(E) /\ (m.framing # "close" => v < Len(E))
       /\ r.read \in 0 .. Len(Body(m))
       /\ Given(r) = [status |-> IF v < HeadLength(m) THEN 0 ELSE m.status,
                      body |-> SubSeq(Body(m), 1, r.read)]
       /\ m.framing = "close" /\ v = Len(E) => r.read = Len(Body(m)) /\ EndIsValid(r)
       /\ EndIsValid(r) => m.framing = "close" /\ v >= HeadLength(m)
       /\ HeadLength(m) \in Nat
  BY <1>7, <1>8, AtFacts
<1>11. Len(E) \in Nat
  BY <1>7, EncodedFacts
<1>12. ~mayCut => v = Len(E) /\ m.framing = "close"
  <2> SUFFICES ASSUME ~mayCut PROVE v = Len(E) /\ m.framing = "close"
    OBVIOUS
  <2>1. u + Len(wire \o rest) = Len(Stream(e, L))
    BY <1>1, <1>2 DEF InStream, e
  <2>2. Len(wire \o rest) = 0
    BY <1>1
  <2>3. u = Len(Stream(e, L))
    BY <2>1, <2>2
  <2>4. v >= Len(E)
    <3> DEFINE x == Len(Stream(e, L))  y == Len(Stream(e, k + 1))  z == Len(E)
    <3>1. u = x /\ y = w + z /\ y <= x /\ w \in Nat /\ z \in Nat
      BY <1>7, <1>11, <2>3
    <3> HIDE DEF x, y, z
    <3>2. u - w >= z
      BY <3>1
    <3> QED BY <3>2 DEF v, z
  <2> HIDE DEF E
  <2> QED BY <1>10, <1>11, <2>4
<1>13. ~EndIsValid(r) => mayCut
  BY <1>1, <1>10, <1>12
<1>14. ASSUME EndIsValid(r)
       PROVE  /\ k + 1 = L /\ m.framing = "close"
              /\ Given(r) = [status |-> m.status, body |-> SubSeq(Body(m), 1, r.read)]
              /\ ~mayCut => r.read = Len(Body(m))
  <2>1. m.framing = "close" /\ ~(v < HeadLength(m))
    BY <1>10, <1>14
  <2>2. ~mayCut => r.read = Len(Body(m))
    BY <1>10, <1>12
  <2> QED BY <1>9, <1>10, <2>1, <2>2
<1> QED BY <1>1, <1>2, <1>6, <1>7, <1>10, <1>13, <1>14 DEF L, k, m, r, e

\* The end of the connection is the end of the last answer.
LEMMA EndedClient ==
  ASSUME AllBodied, IInv, pumpClosed, EndIsValid(client.r)
  PROVE  /\ client' \in Clients /\ client'.r = NewResponse /\ client'.outstanding = 0
         /\ client'.bodies = Append(client.bodies, Given(client.r))
         /\ ~client'.lost /\ ~client'.threw
<1> HIDE DEF Symbols
<1> DEFINE r == client.r
           f == Finish(r)
           c == [client EXCEPT !.r = f]
           g == Given(r)
           k == Len(client.bodies)
           m == exchange[k + 1]
<1>1. /\ client \in Clients /\ ~client.lost /\ ~client.threw
      /\ client' = [Pop(c) EXCEPT !.outstanding = 0]
  BY DEF IInv, pumpClosed
<1>2. r \in Responses /\ r.state = "BODY"
  BY <1>1 DEF Clients, EndIsValid
<1>3. ~r.threw
  <2>1. PICK u \in Nat : InStream(u)
    BY ClosedFacts
  <2>2. /\ exchange \in Exchanges /\ issued \in 0 .. Len(exchange)
        /\ Place(client, exchange, issued, u) /\ m \in Messages /\ k \in 0 .. Len(exchange) - 1
    BY <2>1, ClosedFacts DEF IInv, InStream
  <2>3. WellFramed(exchange) /\ Len(exchange) \in Nat
    BY <2>2, Exchanged
  <2>4. At(r, m, u - Len(Stream(exchange, k)))
    <3>1. k < Len(exchange)
      BY <2>2, <2>3
    <3> QED BY <2>2, <2>3, <3>1, PlaceFacts
  <2>5. Bodied(m)
    BY <2>2, <2>3, StreamFacts
  <2> QED BY <2>2, <2>4, <2>5, AtFacts
<1>4. /\ f.state = "COMPLETE" /\ ~f.threw /\ Given(f) = g
  <2> HIDE DEF r
  <2> QED BY <1>2, <1>3 DEF Finish, Given, Responses
<1>5. g \in [status : Nat, body : Seq(Symbols)]
  <2>1. r.body \in Seq(Symbols) /\ r.status \in Nat
    BY <1>2 DEF Responses
  <2> HIDE DEF r
  <2> QED BY <2>1 DEF Given
<1> DEFINE B == Append(client.bodies, g)
<1>6. B \in Seq([status : Nat, body : Seq(Symbols)])
  <2>1. client.bodies \in Seq([status : Nat, body : Seq(Symbols)])
    BY <1>1 DEF Clients
  <2> HIDE DEF g
  <2> QED BY <1>5, <2>1
<1> HIDE DEF f, g, r
<1>7. c.r = f /\ c.bodies = client.bodies /\ DOMAIN c = DOMAIN client
  BY <1>1 DEF Clients
<1>8. Pop(c) = [c EXCEPT !.r = NewResponse, !.outstanding = c.outstanding - 1, !.bodies = B]
  <2> HIDE DEF c
  <2> QED BY <1>4, <1>7 DEF Pop
<1>9. client' = [client EXCEPT !.r = NewResponse, !.outstanding = 0, !.bodies = B]
  <2> HIDE DEF B, Responses
  <2> QED BY <1>1, <1>8 DEF Clients
<1>10. NewResponse \in Responses
  BY NewResponseFacts
<1> HIDE DEF B, Responses
<1>11. /\ client' \in Clients /\ client'.r = NewResponse /\ client'.outstanding = 0
       /\ client'.bodies = B /\ ~client'.lost /\ ~client'.threw
  <2> DEFINE T == Seq([status : Nat, body : Seq(Symbols)])
  <2>1. client \in [r : Responses, outstanding : Int, bodies : T, lost : BOOLEAN,
                    threw : BOOLEAN]
    BY <1>1 DEF Clients
  <2>2. B \in T /\ 0 \in Int
    BY <1>6
  <2>3. ~client.lost /\ ~client.threw
    BY <1>1
  <2> HIDE DEF T
  <2>4. /\ client' \in [r : Responses, outstanding : Int, bodies : T, lost : BOOLEAN,
                        threw : BOOLEAN]
        /\ client'.r = NewResponse /\ client'.outstanding = 0 /\ client'.bodies = B
        /\ ~client'.lost /\ ~client'.threw
    BY <1>9, <1>10, <2>1, <2>2, <2>3
  <2> QED BY <2>4 DEF T, Clients
<1> QED BY <1>11 DEF B, g, r

LEMMA PumpClosedInv ==
  ASSUME AllBodied, IInv, pumpClosed
  PROVE  IInv'
<1>1. UNCHANGED <<exchange, mayCut, issued, rest, wire, open>> /\ ~open
  BY DEF pumpClosed
<1>2. issued \in Nat
  BY Exchanged DEF IInv
<1>3. CASE EndIsValid(client.r)
  <2>1. /\ client' \in Clients /\ client'.r = NewResponse /\ client'.outstanding = 0
        /\ ~client'.lost /\ ~client'.threw
    BY <1>3, EndedClient
  <2>2. client'.outstanding \in 0 .. issued /\ client'.r.state # "COMPLETE"
    BY <1>2, <2>1 DEF NewResponse
  <2> QED BY <1>1, <2>1, <2>2 DEF IInv
<1>4. CASE ~EndIsValid(client.r)
  <2>1. client' = [client EXCEPT !.threw = TRUE] /\ client \in Clients /\ ~client.lost
    BY <1>4 DEF pumpClosed, IInv
  <2>2. mayCut
    BY <1>4, ClosedFacts
  <2>3. /\ client' \in Clients /\ client'.outstanding = client.outstanding
        /\ client'.r = client.r /\ ~client'.lost /\ client'.threw
    <3> HIDE DEF Responses, Symbols
    <3> QED BY <2>1 DEF Clients
  <2> QED BY <1>1, <2>2, <2>3 DEF IInv
<1> QED BY <1>3, <1>4

LEMMA StutterInv ==
  ASSUME IInv, UNCHANGED vars
  PROVE  IInv'
<1>1. ASSUME NEW u \in Nat, InStream(u) PROVE InStream(u)'
  BY <1>1 DEF InStream, vars
<1> QED BY <1>1 DEF IInv, vars

LEMMA NextInv ==
  ASSUME AllBodied, IInv, [Next]_vars
  PROVE  IInv'
<1>1. CASE request
  BY <1>1, RequestInv
<1>2. CASE SocketError
  BY <1>2, SocketErrorInv
<1>3. CASE Send
  BY <1>3, SendInv
<1>4. CASE Close
  BY <1>4, CloseInv
<1>5. CASE pump
  BY <1>5, PumpInv
<1>6. CASE pumpClosed
  BY <1>6, PumpClosedInv
<1>7. CASE Terminated
  BY <1>7, StutterInv DEF Terminated
<1>8. CASE UNCHANGED vars
  BY <1>8, StutterInv
<1> QED BY <1>1, <1>2, <1>3, <1>4, <1>5, <1>6, <1>7, <1>8 DEF Next

\* As long as nothing has failed the connection is at a place in the answers
\* that fits what has been asked, taken and is still to come, wherever the
\* stream was cut.
THEOREM Invariant ==
  ASSUME AllBodied
  PROVE  Spec => []IInv
<1>1. Init => IInv
  BY InitInv
<1>2. IInv /\ [Next]_vars => IInv'
  BY NextInv
<1> QED BY <1>1, <1>2, PTL DEF Spec

\* The parser's state is one of those it can be in between two symbols, and no
\* more responses are outstanding than requests were made.
THEOREM TypeCorrect ==
  ASSUME AllBodied
  PROVE  Spec => []TypeOK
<1>1. IInv => TypeOK
  <2> SUFFICES ASSUME IInv PROVE TypeOK
    OBVIOUS
  <2>1. client \in Clients /\ client.r.state # "COMPLETE" /\ client.outstanding \in 0 .. issued
        /\ mayCut \in BOOLEAN /\ issued \in 0 .. Len(exchange) /\ open \in BOOLEAN
    BY DEF IInv
  <2>2. client.r \in Responses /\ client.lost \in BOOLEAN /\ client.threw \in BOOLEAN
    BY <2>1 DEF Clients
  <2> HIDE DEF Symbols, Headers
  <2>3. /\ client.r.state \in {"STATUSLINE", "HEADERS", "BODY", "CHUNKLEN", "CHUNKEND",
                               "TRAILERS", "COMPLETE"}
        /\ client.r.chunkleft \in Nat /\ client.r.read \in Nat
        /\ client.r.length \in Nat \cup {-1}
    BY <2>2 DEF Responses
  <2>4. client.r.state \in {"STATUSLINE", "HEADERS", "BODY", "CHUNKLEN", "CHUNKEND", "TRAILERS"}
    BY <2>1, <2>3
  <2> QED BY <2>1, <2>2, <2>3, <2>4 DEF TypeOK
<1> QED BY <1>1, Invariant, PTL

\* Connection::pump never has a byte left that belongs to no response: its
\* assertion that all bytes are used holds, however the stream is cut.
THEOREM NoByteLeft ==
  ASSUME AllBodied
  PROVE  Spec => []AllBytesUsed
<1>1. IInv => AllBytesUsed
  BY DEF IInv, AllBytesUsed
<1> QED BY <1>1, Invariant, PTL

\* When every message has a body that can be told from none, an exception
\* means that the connection was cut: none is raised at a complete answer.
THEOREM ThrowMeansCut ==
  ASSUME AllBodied
  PROVE  Spec => []OnlyCutsThrow
<1>1. IInv => OnlyCutsThrow
  BY DEF IInv, OnlyCutsThrow
<1> QED BY <1>1, Invariant, PTL

-----------------------------------------------------------------------------
(* The connection implements HttpSpec.                                     *)

LEMMA BeginningsFacts ==
  ASSUME NEW B \in Seq(Symbols), NEW y \in 0 .. Len(B), NEW x \in 0 .. y
  PROVE  /\ IsPrefix(SubSeq(B, 1, x), SubSeq(B, 1, y)) /\ IsPrefix(SubSeq(B, 1, x), B)
         /\ IsPrefix(SubSeq(B, 1, y), B)
<1> HIDE DEF Symbols
<1> DEFINE P(z) == SubSeq(B, 1, z)
<1>1. Len(B) \in Nat /\ SubSeq(B, 1, Len(B)) = B
  BY PrefixFacts
<1>2. ASSUME NEW z \in 0 .. Len(B)
      PROVE  P(z) \in Seq(Symbols) /\ Len(P(z)) = z /\ \A i \in 1 .. z : P(z)[i] = B[i]
  OBVIOUS
<1> HIDE DEF P
<1>3. ASSUME NEW z \in 0 .. Len(B), NEW c \in 0 .. z PROVE IsPrefix(P(c), P(z))
  <2>1. c \in 0 .. Len(B) /\ c <= z /\ c \in Nat /\ z \in Nat
    BY <1>1
  <2>2. /\ P(c) \in Seq(Symbols) /\ Len(P(c)) = c /\ P(z) \in Seq(Symbols) /\ Len(P(z)) = z
        /\ \A i \in 1 .. c : P(c)[i] = P(z)[i]
    BY <1>2, <2>1
  <2>3. SubSeq(P(c), 1, c) = SubSeq(P(z), 1, c)
    BY <2>1, <2>2
  <2> QED BY <2>1, <2>2, <2>3 DEF IsPrefix
<1>4. x \in 0 .. Len(B) /\ Len(B) \in 0 .. Len(B) /\ y \in 0 .. Len(B) /\ P(Len(B)) = B
  BY <1>1 DEF P
<1>5. IsPrefix(P(x), P(y)) /\ IsPrefix(P(x), P(Len(B))) /\ IsPrefix(P(y), P(Len(B)))
  BY <1>3, <1>4
<1> QED BY <1>4, <1>5 DEF P

NothingYet == [status |-> 0, body |-> <<>>]

LEMMA HeadGiven ==
  ASSUME NEW m \in Messages, Bodied(m), NEW r, NEW v, At(r, m, v), v < HeadLength(m)
  PROVE  Given(r) = NothingYet
<1>1. Given(r) = [status |-> 0, body |-> SubSeq(Body(m), 1, r.read)]
  BY AtFacts
<1>2. r.body = <<>>
  BY DEF At, InHead, Bodiless
<1>3. Given(r).status = 0 /\ Given(r).body = <<>>
  BY <1>1, <1>2 DEF Given
<1> HIDE DEF Given
<1> QED BY <1>1, <1>3 DEF NothingYet

\* What the callbacks were given.
Heard(q) == Append(q.bodies, Given(q.r))

LEMMA HeardFacts ==
  ASSUME NEW e, WellFramed(e), NEW n \in 0 .. Len(e), NEW u \in Nat, NEW q,
         Place(q, e, n, u), u <= Len(Stream(e, n))
  PROVE  LET k == Len(q.bodies) IN
         /\ k \in 0 .. n /\ Len(Heard(q)) = k + 1 /\ Heard(q)[k + 1] = Given(q.r)
         /\ \A j \in 1 .. k : Heard(q)[j] = Answer(e[j])
         /\ k = n => Given(q.r) = NothingYet
<1> DEFINE k == Len(q.bodies)
           w == Len(Stream(e, k))
<1>1. /\ q \in Clients /\ k \in 0 .. n
      /\ k < Len(e) => At(q.r, e[k + 1], u - w)
      /\ k = Len(e) => q.r = NewResponse
  BY PlaceFacts
<1>2. \A j \in 1 .. k : q.bodies[j] = Answer(e[j])
  BY DEF Place
<1>3. u - w \in Nat
  BY DEF Place
<1>4. q.bodies \in Seq([status : Nat, body : Seq(Symbols)]) /\ k \in Nat
  BY <1>1 DEF Clients
<1>5. /\ Len(Heard(q)) = k + 1 /\ Heard(q)[k + 1] = Given(q.r)
      /\ \A j \in 1 .. k : Heard(q)[j] = q.bodies[j]
  <2> DEFINE g == Given(q.r)
             T == [status : Nat, body : Seq(Symbols)]
  <2> HIDE DEF g, T
  <2>1. q.bodies \in Seq(T)
    BY <1>4 DEF T
  <2>2. /\ Len(Append(q.bodies, g)) = k + 1 /\ Append(q.bodies, g)[k + 1] = g
        /\ \A j \in 1 .. k : Append(q.bodies, g)[j] = q.bodies[j]
    BY <2>1
  <2> QED BY <2>2 DEF Heard, g
<1> HIDE DEF k, w
<1>6. ASSUME k = n PROVE Given(q.r) = NothingYet
  <2>1. CASE k = Len(e)
    BY <1>1, <2>1, NewResponseFacts DEF NothingYet
  <2>2. CASE k # Len(e)
    <3>1. k < Len(e) /\ k \in 0 .. Len(e) - 1 /\ k \in 0 .. Len(e)
      BY <1>1, <2>2, StreamFacts
    <3>2. e[k + 1] \in Messages /\ Bodied(e[k + 1]) /\ w \in Nat
      BY <3>1, StreamFacts DEF w
    <3>3. u - w = 0
      BY <1>3, <1>6, <3>2 DEF w
    <3>4. u - w < HeadLength(e[k + 1])
      BY <3>2, <3>3, FramingHeaderFacts DEF HeadLength
    <3> QED BY <1>1, <3>1, <3>2, <3>4, HeadGiven
  <2> QED BY <2>1, <2>2
<1>7. \A j \in 1 .. k : Heard(q)[j] = Answer(e[j])
  BY <1>2, <1>5 DEF k
<1> QED BY <1>1, <1>5, <1>6, <1>7 DEF k

\* What has been heard of the answer that is not complete.
LEMMA LastHeard ==
  ASSUME NEW e, WellFramed(e), NEW n \in 0 .. Len(e), NEW u \in Nat, NEW q,
         Place(q, e, n, u), Len(q.bodies) < n
  PROVE  LET k == Len(q.bodies)
             m == e[k + 1]
             v == u - Len(Stream(e, k))
         IN  /\ m \in Messages /\ q.r.read \in 0 .. Len(Body(m)) /\ Body(m) \in Seq(Symbols)
             /\ Given(q.r).status = IF v < HeadLength(m) THEN 0 ELSE m.status
             /\ Given(q.r).body = SubSeq(Body(m), 1, q.r.read)
             /\ v < HeadLength(m) => Given(q.r) = NothingYet
<1> DEFINE k == Len(q.bodies)
           m == e[k + 1]
           v == u - Len(Stream(e, k))
<1>1. k \in 0 .. n /\ (k < Len(e) => At(q.r, m, v)) /\ Len(e) \in Nat
  BY PlaceFacts, StreamFacts
<1>2. k < n
  OBVIOUS
<1>3. k < Len(e) /\ k \in 0 .. Len(e) - 1
  <2> HIDE DEF k
  <2> QED BY <1>1, <1>2
<1>4. m \in Messages /\ Bodied(m) /\ Body(m) \in Seq(Symbols)
  BY <1>3, StreamFacts, BodyFacts
<1> HIDE DEF k, m, v
<1>5. /\ q.r.read \in 0 .. Len(Body(m))
      /\ Given(q.r) = [status |-> IF v < HeadLength(m) THEN 0 ELSE m.status,
                       body |-> SubSeq(Body(m), 1, q.r.read)]
  BY <1>1, <1>3, <1>4, AtFacts
<1>6. v < HeadLength(m) => Given(q.r) = NothingYet
  BY <1>1, <1>3, <1>4, HeadGiven
<1> HIDE DEF Given
<1> QED BY <1>4, <1>5, <1>6 DEF k, m, v

\* What more is heard from one place to a later one.
LEMMA MoreHeard ==
  ASSUME NEW e, WellFramed(e), NEW n \in 0 .. Len(e), NEW u \in Nat, NEW x \in Nat, u <= x,
         NEW p, NEW q, Place(p, e, n, u), Place(q, e, n, x), x <= Len(Stream(e, n)), Grew(p, q)
  PROVE  LET a == Len(p.bodies)
             b == Len(q.bodies)
             g == Given(p.r)
             h == Heard(q)[a + 1]
         IN  /\ a \in 0 .. b /\ b \in 0 .. n
             /\ g.status # 0 => h.status = g.status
             /\ IsPrefix(g.body, h.body)
<1> DEFINE a == Len(p.bodies)
           b == Len(q.bodies)
           g == Given(p.r)
           h == Heard(q)[a + 1]
           m == e[a + 1]
           v == u - Len(Stream(e, a))
           w == x - Len(Stream(e, a))
<1>1. /\ a \in 0 .. n /\ b \in 0 .. n /\ (b = n => Given(q.r) = NothingYet)
      /\ Heard(q)[b + 1] = Given(q.r) /\ (\A j \in 1 .. b : Heard(q)[j] = Answer(e[j]))
  BY PlaceFacts, HeardFacts
<1>2. a <= b /\ (a = b => p.r.read <= q.r.read)
  BY DEF Grew
<1>3. /\ a < n => /\ m \in Messages /\ Body(m) \in Seq(Symbols)
                  /\ p.r.read \in 0 .. Len(Body(m))
                  /\ g.status = (IF v < HeadLength(m) THEN 0 ELSE m.status)
                  /\ g.body = SubSeq(Body(m), 1, p.r.read)
  BY LastHeard
<1>4. a = b /\ a < n => /\ q.r.read \in 0 .. Len(Body(m))
                        /\ Given(q.r).status = (IF w < HeadLength(m) THEN 0 ELSE m.status)
                        /\ Given(q.r).body = SubSeq(Body(m), 1, q.r.read)
  BY LastHeard
<1>5. u - Len(Stream(e, a)) \in Nat /\ (a = n => Given(p.r) = NothingYet)
  <2>1. u <= Len(Stream(e, n)) /\ Len(Stream(e, n)) \in Nat
    BY StreamFacts
  <2> QED BY <2>1, HeardFacts DEF Place
<1>6. n \in Nat
  BY StreamFacts
<1> HIDE DEF a, b, g, m
<1>7. CASE a = n
  <2>1. b = n
    BY <1>1, <1>2, <1>6, <1>7
  <2>2. h = NothingYet /\ g = NothingYet
    BY <1>1, <1>5, <1>7, <2>1 DEF g
  <2>3. g.status = 0 /\ g.body = <<>> /\ h.body = <<>>
    BY <2>2 DEF NothingYet
  <2>4. IsPrefix(<<>>, <<>>)
    BY DEF IsPrefix
  <2> HIDE DEF h
  <2>5. IsPrefix(g.body, h.body)
    BY <2>3, <2>4
  <2>6. a \in 0 .. b
    BY <1>1, <1>2
  <2> QED BY <1>1, <2>3, <2>5, <2>6 DEF a, b, g, h
<1>8. CASE a < n /\ a = b
  <2>1. h = Given(q.r)
    BY <1>1, <1>8
  <2>2. v <= w /\ v \in Nat /\ HeadLength(m) \in Nat
    <3>1. Len(Stream(e, a)) \in Nat
      <4>1. a \in 0 .. Len(e)
        BY <1>1, StreamFacts
      <4> QED BY <4>1, StreamFacts
    <3>2. HeadLength(m) \in Nat
      BY <1>3, <1>8, FramingHeaderFacts DEF HeadLength
    <3> QED BY <1>5, <3>1, <3>2
  <2> HIDE DEF h, v, w
  <2>3. g.status # 0 => h.status = g.status
    <3> SUFFICES ASSUME g.status # 0 PROVE h.status = g.status
      OBVIOUS
    <3>1. ~(v < HeadLength(m))
      BY <1>3, <1>8
    <3>2. ~(w < HeadLength(m))
      <4>1. w \in Int
        BY DEF w
      <4> QED BY <2>2, <3>1 DEF w, v
    <3> QED BY <1>3, <1>4, <1>8, <2>1, <3>1, <3>2
  <2>4. IsPrefix(g.body, h.body)
    <3>1. p.r.read \in 0 .. q.r.read
      BY <1>2, <1>3, <1>4, <1>8
    <3>2. IsPrefix(SubSeq(Body(m), 1, p.r.read), SubSeq(Body(m), 1, q.r.read))
      BY <1>3, <1>4, <1>8, <3>1, BeginningsFacts
    <3> QED BY <1>3, <1>4, <1>8, <2>1, <3>2
  <2>5. a \in 0 .. b
    BY <1>1, <1>2
  <2> QED BY <1>1, <2>3, <2>4, <2>5 DEF a, b, g, h
<1>9. CASE a < n /\ a # b
  <2>1. a + 1 \in 1 .. b /\ a \in 0 .. b
    BY <1>1, <1>2, <1>9
  <2>2. h = Answer(m)
    BY <1>1, <2>1 DEF m
  <2>3. h.status = m.status /\ h.body = Body(m)
    BY <2>2 DEF Answer
  <2> HIDE DEF h
  <2>4. g.status # 0 => h.status = g.status
    BY <1>3, <1>9, <2>3
  <2>5. IsPrefix(g.body, h.body)
    <3>1. IsPrefix(SubSeq(Body(m), 1, p.r.read), Body(m))
      <4>1. p.r.read \in 0 .. p.r.read
        BY <1>3, <1>9
      <4> QED BY <1>3, <1>9, <4>1, BeginningsFacts
    <3> QED BY <1>3, <1>9, <2>3, <3>1
  <2> QED BY <1>1, <2>1, <2>4, <2>5 DEF a, b, g, h
<1> QED BY <1>1, <1>6, <1>7, <1>8, <1>9

Promised(e) ==
  [k \in 1 .. Len(e) |-> [status |-> e[k].status, body |-> Body(e[k]),
                          openEnded |-> e[k].framing = "close"]]

LEMMA PumpHears ==
  ASSUME AllBodied, IInv, pump
  PROVE  Exchange!Hear
<1> DEFINE e == exchange
           n == issued
           p == client
           q == client'
           a == Len(p.bodies)
           b == Len(q.bodies)
           g == Heard(p)
           h == Heard(q)
<1>1. PICK u \in Nat, x \in Nat : /\ InStream(u) /\ InStream(x)' /\ u <= x
                                  /\ x <= Len(Stream(e, n)) /\ Grew(p, q)
  BY PumpReads
<1>2. /\ e \in Exchanges /\ n \in 0 .. Len(e)
      /\ UNCHANGED <<exchange, mayCut, issued, rest, open>> /\ ~p.threw
  BY DEF IInv, pump
<1>3. WellFramed(e) /\ Len(e) \in Nat
  BY <1>2, Exchanged
<1>4. Place(p, e, n, u)
  BY <1>1 DEF InStream
<1>5. Place(q, e, n, x)
  BY <1>1, <1>2 DEF InStream
<1>6. u <= Len(Stream(e, n))
  <2>1. Len(Stream(e, n)) \in Nat
    BY <1>2, <1>3, StreamFacts
  <2> QED BY <1>1, <2>1
<1>7. /\ Len(g) = a + 1 /\ g[a + 1] = Given(p.r) /\ (\A j \in 1 .. a : g[j] = Answer(e[j]))
      /\ ~q.threw
  BY <1>2, <1>3, <1>4, <1>5, <1>6, HeardFacts, PlaceFacts
<1>8. /\ Len(h) = b + 1 /\ h[b + 1] = Given(q.r) /\ (\A j \in 1 .. b : h[j] = Answer(e[j]))
      /\ (b = n => Given(q.r) = NothingYet)
  BY <1>1, <1>2, <1>3, <1>5, HeardFacts
<1>9. /\ a \in 0 .. b /\ b \in 0 .. n
      /\ g[a + 1].status # 0 => h[a + 1].status = g[a + 1].status
      /\ IsPrefix(g[a + 1].body, h[a + 1].body)
  BY <1>1, <1>2, <1>3, <1>4, <1>5, <1>7, MoreHeard
<1>10. b < n => /\ e[b + 1] \in Messages /\ q.r.read \in 0 .. Len(Body(e[b + 1]))
                /\ Body(e[b + 1]) \in Seq(Symbols)
                /\ h[b + 1] = NothingYet \/ h[b + 1].status = e[b + 1].status
                /\ h[b + 1].body = SubSeq(Body(e[b + 1]), 1, q.r.read)
  BY <1>2, <1>3, <1>5, <1>8, LastHeard
<1>11. b < n => IsPrefix(h[b + 1].body, Body(e[b + 1]))
  <2> SUFFICES ASSUME b < n PROVE IsPrefix(h[b + 1].body, Body(e[b + 1]))
    OBVIOUS
  <2>1. q.r.read \in 0 .. q.r.read
    BY <1>10
  <2> HIDE DEF b, h, q
  <2>2. IsPrefix(SubSeq(Body(e[b + 1]), 1, q.r.read), Body(e[b + 1]))
    BY <1>10, <2>1, BeginningsFacts
  <2> QED BY <1>10, <2>2
<1> HIDE DEF a, b, g, h
<1>12. a \in Nat /\ b \in Nat /\ n \in Nat /\ a <= b /\ b <= n /\ n <= Len(e)
  BY <1>2, <1>3, <1>9
<1>13. SubSeq(h, 1, a) = SubSeq(g, 1, a)
  <2>1. \A i \in 1 .. a : h[i] = g[i]
    <3>1. \A i \in 1 .. a : i \in 1 .. b
      BY <1>12
    <3> QED BY <1>7, <1>8, <3>1
  <2> QED BY <1>12, <2>1
<1>14. Exchange!Continues(g[a + 1], h[a + 1])
  BY <1>9 DEF Exchange!Continues, Exchange!IsPrefix, IsPrefix
<1>15. ASSUME NEW k \in a + 1 .. b PROVE Exchange!Whole(Promised(e)[k], h[k])
  <2>1. k \in 1 .. b /\ k \in 1 .. Len(e)
    BY <1>12
  <2>2. h[k].status = e[k].status /\ h[k].body = Body(e[k])
    <3>1. h[k] = Answer(e[k])
      BY <1>8, <2>1
    <3> QED BY <3>1 DEF Answer
  <2>3. Promised(e)[k].status = e[k].status /\ Promised(e)[k].body = Body(e[k])
    BY <2>1 DEF Promised
  <2> QED BY <2>2, <2>3 DEF Exchange!Whole
<1>16. IF b + 1 <= n THEN Exchange!Begun(Promised(e)[b + 1], h[b + 1])
       ELSE h[b + 1] = Exchange!Nothing
  <2>1. CASE b < n
    <3>1. b + 1 \in 1 .. Len(e) /\ b + 1 <= n
      BY <1>12, <2>1
    <3>2. /\ Promised(e)[b + 1].status = e[b + 1].status
          /\ Promised(e)[b + 1].body = Body(e[b + 1])
      BY <3>1 DEF Promised
    <3> QED BY <1>10, <1>11, <2>1, <3>1, <3>2
        DEF Exchange!Begun, Exchange!Nothing, NothingYet, Exchange!IsPrefix, IsPrefix
  <2>2. CASE b = n
    BY <1>8, <1>12, <2>2 DEF Exchange!Nothing, NothingYet
  <2> QED BY <1>12, <2>1, <2>2
<1>17. /\ a + 1 <= b + 1 /\ (b + 1) - 1 <= n /\ (a + 1) - 1 = a /\ (b + 1) - 1 = b
  BY <1>12
<1>18. /\ Append(client.bodies, Given(client.r)) = g
       /\ Append(client.bodies, Given(client.r))' = h
  BY DEF g, h, Heard
<1>19. ~client.threw /\ ~client'.threw /\ (client.threw)' = client.threw
  <2>1. p \in Clients /\ q \in Clients
    BY <1>4, <1>5 DEF Place
  <2>2. p.threw \in BOOLEAN /\ q.threw \in BOOLEAN
    BY <2>1 DEF Clients
  <2> QED BY <1>2, <1>7, <2>2
<1> HIDE DEF e, p, q
<1>20. UNCHANGED <<exchange, mayCut, issued, client.threw>>
  BY <1>2, <1>19
<1> QED BY <1>2, <1>7, <1>8, <1>13, <1>14, <1>15, <1>16, <1>17, <1>18, <1>19, <1>20
    DEF Exchange!Hear, Promised, e

LEMMA ClosedHears ==
  ASSUME AllBodied, IInv, pumpClosed
  PROVE  Exchange!Hear \/ Exchange!Fail
<1> DEFINE e == exchange
           k == Len(client.bodies)
           m == e[k + 1]
           r == client.r
           g == Heard(client)
           h == Heard(client')
<1>1. /\ e \in Exchanges /\ UNCHANGED <<exchange, mayCut, issued, rest, wire, open>>
      /\ ~client.threw /\ client \in Clients
  BY DEF IInv, pumpClosed
<1>2. WellFramed(e) /\ Len(e) \in Nat
  BY <1>1, Exchanged
<1>3. /\ k \in 0 .. Len(e) - 1 /\ m \in Messages /\ issued = Len(e)
      /\ ~EndIsValid(r) => mayCut
      /\ EndIsValid(r) =>
           /\ k + 1 = Len(e) /\ m.framing = "close"
           /\ Given(r) = [status |-> m.status, body |-> SubSeq(Body(m), 1, r.read)]
           /\ r.read \in 0 .. Len(Body(m))
           /\ ~mayCut => r.read = Len(Body(m))
  BY ClosedFacts
<1>4. CASE ~EndIsValid(r)
  <2>1. client' = [client EXCEPT !.threw = TRUE]
    BY <1>4 DEF pumpClosed
  <2>2. client'.threw = TRUE /\ client'.bodies = client.bodies /\ client'.r = client.r
    <3> HIDE DEF Responses, Symbols
    <3> QED BY <1>1, <2>1 DEF Clients
  <2>3. UNCHANGED Append(client.bodies, Given(client.r))
    BY <2>2
  <2>4. Exchange!Fail
    BY <1>1, <1>3, <1>4, <2>2, <2>3 DEF Exchange!Fail
  <2> QED BY <2>4
<1>5. CASE EndIsValid(r)
  <2> DEFINE T == [status : Nat, body : Seq(Symbols)]
             s == Given(r)
             B == Append(client.bodies, s)
  <2>1. /\ client' \in Clients /\ client'.r = NewResponse /\ client'.bodies = B
        /\ ~client'.threw
    BY <1>5, EndedClient
  <2>2. client.bodies \in Seq(T) /\ B \in Seq(T) /\ Given(NewResponse) = NothingYet
    BY <1>1, <2>1, NewResponseFacts DEF Clients, NothingYet
  <2>3. s.status = m.status /\ s.body = SubSeq(Body(m), 1, r.read)
    <3> DEFINE x == [status |-> m.status, body |-> SubSeq(Body(m), 1, r.read)]
    <3>1. s = x
      BY <1>3, <1>5
    <3>2. x.status = m.status /\ x.body = SubSeq(Body(m), 1, r.read)
      OBVIOUS
    <3> HIDE DEF x
    <3> QED BY <3>1, <3>2
  <2> HIDE DEF T, s
  <2>4. /\ g = B /\ Len(B) = k + 1 /\ B[k + 1] = s /\ k \in Nat
    BY <2>2 DEF Heard, s
  <2> HIDE DEF B
  <2>5. /\ h = Append(B, NothingYet) /\ Len(h) = k + 2 /\ h[k + 2] = NothingYet
        /\ \A j \in 1 .. k + 1 : h[j] = B[j]
    <3>1. h = Append(B, NothingYet)
      BY <2>1, <2>2 DEF Heard
    <3> HIDE DEF h
    <3>2. /\ Len(Append(B, NothingYet)) = (k + 1) + 1
          /\ Append(B, NothingYet)[(k + 1) + 1] = NothingYet
          /\ \A j \in 1 .. k + 1 : Append(B, NothingYet)[j] = B[j]
      BY <2>2, <2>4
    <3>3. (k + 1) + 1 = k + 2
      BY <2>4
    <3> QED BY <3>1, <3>2, <3>3
  <2>6. Body(m) \in Seq(Symbols) /\ Len(Body(m)) \in Nat /\ SubSeq(Body(m), 1, Len(Body(m))) = Body(m)
    BY <1>3, BodyFacts, PrefixFacts
  <2> HIDE DEF h, g, k
  <2>7. h[k + 1] = s /\ g[k + 1] = s
    BY <2>4, <2>5
  <2>8. IsPrefix(s.body, s.body) /\ IsPrefix(s.body, Body(m))
    <3>1. r.read \in 0 .. Len(Body(m)) /\ r.read \in 0 .. r.read
      BY <1>3, <1>5
    <3> HIDE DEF m, r
    <3> QED BY <2>3, <2>6, <3>1, BeginningsFacts
  <2>9. Exchange!Continues(g[k + 1], h[k + 1])
    BY <2>7, <2>8 DEF Exchange!Continues, Exchange!IsPrefix, IsPrefix
  <2>10. Exchange!Whole(Promised(e)[k + 1], h[k + 1])
    <3>1. k + 1 \in 1 .. Len(e)
      BY <1>2, <1>3 DEF k
    <3>2. /\ Promised(e)[k + 1].status = m.status /\ Promised(e)[k + 1].body = Body(m)
          /\ Promised(e)[k + 1].openEnded = (m.framing = "close")
      BY <3>1 DEF Promised
    <3>3. m.framing = "close" /\ (~mayCut => s.body = Body(m))
      BY <1>3, <1>5, <2>3, <2>6
    <3>4. s.body = Body(m) \/ (Promised(e)[k + 1].openEnded /\ mayCut /\ IsPrefix(s.body, Body(m)))
      BY <2>8, <3>2, <3>3
    <3> HIDE DEF m
    <3> QED BY <2>3, <2>7, <3>2, <3>4 DEF Exchange!Whole, Exchange!IsPrefix, IsPrefix
  <2>11. SubSeq(h, 1, k) = SubSeq(g, 1, k)
    <3>1. \A i \in 1 .. k : h[i] = g[i]
      BY <2>4, <2>5
    <3> QED BY <2>4, <3>1
  <2>12. Len(g) = k + 1 /\ (k + 1) - 1 = k /\ (k + 2) - 1 = k + 1 /\ k + 1 <= k + 2
         /\ k + 1 <= issued /\ ~(k + 2 <= issued)
    BY <1>3, <1>5, <2>4 DEF k
  <2>13. \A j \in k + 1 .. k + 1 : Exchange!Whole(Promised(e)[j], h[j])
    <3>1. \A j \in k + 1 .. k + 1 : j = k + 1
      BY <2>4
    <3> QED BY <2>10, <3>1
  <2>14. /\ Append(client.bodies, Given(client.r)) = g
         /\ Append(client.bodies, Given(client.r))' = h
    BY DEF g, h, Heard
  <2>15. ~client.threw /\ ~client'.threw /\ (client.threw)' = client.threw
    <3>1. client.threw \in BOOLEAN /\ client'.threw \in BOOLEAN
      BY <1>1, <2>1 DEF Clients
    <3> QED BY <1>1, <2>1, <3>1
  <2>16. h[k + 2] = Exchange!Nothing
    BY <2>5 DEF Exchange!Nothing, NothingYet
  <2> HIDE DEF e, m, r
  <2>17. Exchange!Hear
    BY <1>1, <2>5, <2>9, <2>11, <2>12, <2>13, <2>14, <2>15, <2>16
       DEF Exchange!Hear, Promised, e
  <2> QED BY <2>17
<1> QED BY <1>4, <1>5

LEMMA RequestAsks ==
  ASSUME IInv, request
  PROVE  Exchange!Ask
<1>1. /\ client \in Clients /\ ~client.threw /\ issued < Len(exchange) /\ issued' = issued + 1
      /\ client' = [client EXCEPT !.outstanding = client.outstanding + 1]
      /\ UNCHANGED <<exchange, mayCut>>
  BY DEF IInv, request
<1>2. client'.r = client.r /\ client'.bodies = client.bodies /\ client'.threw = client.threw
  <2> HIDE DEF Responses, Symbols
  <2> QED BY <1>1 DEF Clients
<1>3. Len(Promised(exchange)) = Len(exchange)
  <2>1. Len(exchange) \in Nat
    BY ExchangesAssumption DEF IInv
  <2> QED BY <2>1 DEF Promised
<1> QED BY <1>1, <1>2, <1>3 DEF Exchange!Ask, Promised

LEMMA SocketErrorFails ==
  ASSUME IInv, SocketError
  PROVE  Exchange!Fail
<1>1. /\ client \in Clients /\ ~client.threw /\ mayCut
      /\ client' = [client EXCEPT !.threw = TRUE]
      /\ UNCHANGED <<exchange, mayCut, issued>>
  BY DEF IInv, SocketError
<1>2. client'.r = client.r /\ client'.bodies = client.bodies /\ client'.threw = TRUE
  <2> HIDE DEF Responses, Symbols
  <2> QED BY <1>1 DEF Clients
<1> QED BY <1>1, <1>2 DEF Exchange!Fail

\* The connection implements HttpSpec: each request is an Ask, a pump is a Hear
\* of whatever its recv brought, the end of the connection a Hear or a Fail,
\* and a broken socket a Fail; what the server does is not seen.
THEOREM ImplementsHttpSpec ==
  ASSUME AllBodied
  PROVE  Spec => ExchangeSafety
<1>1. Init => Exchange!Init
  <2> SUFFICES ASSUME Init PROVE Exchange!Init
    OBVIOUS
  <2>1. client = NewClient /\ issued = 0
    BY DEF Init
  <2>2. /\ client.bodies = <<>> /\ client.threw = FALSE /\ client.r = NewResponse
    BY <2>1 DEF NewClient
  <2>3. Given(client.r) = Exchange!Nothing
    BY <2>2, NewResponseFacts DEF Exchange!Nothing
  <2>4. Append(client.bodies, Given(client.r)) = <<Exchange!Nothing>>
    <3> DEFINE x == Exchange!Nothing
    <3> HIDE DEF x
    <3>1. Append(<<>>, x) = <<x>>
      OBVIOUS
    <3> QED BY <2>2, <2>3, <3>1 DEF x
  <2> QED BY <2>1, <2>2, <2>4 DEF Exchange!Init
<1>2. AllBodied /\ IInv /\ [Next]_vars => [Exchange!Next]_(Exchange!vars)
  <2> SUFFICES ASSUME IInv, [Next]_vars PROVE [Exchange!Next]_(Exchange!vars)
    OBVIOUS
  <2>1. CASE request
    BY <2>1, RequestAsks DEF Exchange!Next
  <2>2. CASE SocketError
    BY <2>2, SocketErrorFails DEF Exchange!Next
  <2>3. CASE pump
    BY <2>3, PumpHears DEF Exchange!Next
  <2>4. CASE pumpClosed
    BY <2>4, ClosedHears DEF Exchange!Next
  <2>5. CASE Send \/ Close \/ Terminated \/ UNCHANGED vars
    <3>1. UNCHANGED <<exchange, mayCut, issued, client>>
      BY <2>5 DEF Send, Close, Terminated, vars
    <3> QED BY <3>1 DEF Exchange!vars
  <2> QED BY <2>1, <2>2, <2>3, <2>4, <2>5 DEF Next
<1> QED BY <1>1, <1>2, Invariant, PTL DEF Spec, ExchangeSafety, Exchange!Spec
=============================================================================
