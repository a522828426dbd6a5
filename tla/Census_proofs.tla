--------------------------- MODULE Census_proofs ---------------------------
(***************************************************************************)
(* Proofs about Census for every classifier, number and size of soups, and *)
(* limit of the lists.                                                     *)
(***************************************************************************)
EXTENDS Census, WellFoundedInduction, SequenceTheorems, TLAPS

-----------------------------------------------------------------------------
(* Sums.                                                                   *)

\* Sums of the first numbers of a sequence.
IsSum(f, g, n) == /\ f \in [0 .. n -> Nat] /\ f[0] = 0
                  /\ \A k \in 1 .. n : f[k] = f[k - 1] + g[k]

\* A set that holds 0 and the successor of each of its numbers holds them all.
LEMMA SetInduction ==
  ASSUME NEW T \in SUBSET Nat, 0 \in T, \A n \in T : n + 1 \in T
  PROVE  T = Nat
<1> DEFINE LessThan == {ss \in Nat \X Nat : ss[1] < ss[2]}
           R == Nat \ T
<1>1. IsWellFoundedOn(LessThan, Nat)
  BY NatLessThanWellFounded DEF OpToRel
<1>2. \A m, n \in Nat : m < n => <<m, n>> \in LessThan
  OBVIOUS
<1> HIDE DEF LessThan
<1>3. SUFFICES ASSUME R # {} PROVE FALSE
  OBVIOUS
<1>4. R \in SUBSET Nat
  OBVIOUS
<1> HIDE DEF R
<1>5. PICK x \in R : \A y \in R : <<y, x>> \notin LessThan
  BY <1>1, <1>3, <1>4, WFMin, Zenon
<1> USE DEF R
<1>6. x \in Nat /\ x # 0 /\ x \notin T
  OBVIOUS
<1>7. x - 1 \in Nat /\ x - 1 < x /\ (x - 1) + 1 = x
  BY <1>6
<1>8. x - 1 \in R
  BY <1>6, <1>7
<1> QED BY <1>2, <1>5, <1>6, <1>7, <1>8

\* Every sequence of numbers has its sums.
LEMMA SumExists ==
  ASSUME NEW N \in Nat, NEW g, \A k \in 1 .. N : g[k] \in Nat
  PROVE  \E f : IsSum(f, g, N)
<1> DEFINE T == {n \in Nat : n <= N => \E f : IsSum(f, g, n)}
<1>1. 0 \in T
  <2>1. IsSum([k \in 0 .. 0 |-> 0], g, 0)
    BY DEF IsSum
  <2> QED BY <2>1
<1>2. ASSUME NEW n \in T PROVE n + 1 \in T
  <2> SUFFICES ASSUME n + 1 <= N PROVE \E f : IsSum(f, g, n + 1)
    OBVIOUS
  <2>1. PICK f : IsSum(f, g, n)
    BY <1>2
  <2> DEFINE h == [k \in 0 .. n + 1 |-> IF k = n + 1 THEN f[n] + g[n + 1] ELSE f[k]]
  <2>2. \A k \in 0 .. n + 1 : h[k] \in Nat
    <3> SUFFICES ASSUME NEW k \in 0 .. n + 1 PROVE h[k] \in Nat
      OBVIOUS
    <3>1. f[n] \in Nat /\ g[n + 1] \in Nat
      BY <2>1 DEF IsSum
    <3>2. k # n + 1 => k \in 0 .. n
      OBVIOUS
    <3> QED BY <2>1, <3>1, <3>2 DEF IsSum
  <2>3. h[0] = 0
    BY <2>1 DEF IsSum
  <2>4. ASSUME NEW k \in 1 .. n + 1 PROVE h[k] = h[k - 1] + g[k]
    <3>1. CASE k = n + 1
      BY <3>1
    <3>2. CASE k # n + 1
      <4>1. k \in 1 .. n /\ k - 1 \in 0 .. n
        BY <3>2
      <4> QED BY <2>1, <4>1 DEF IsSum
    <3> QED BY <3>1, <3>2
  <2>5. IsSum(h, g, n + 1)
    <3> HIDE DEF h
    <3>1. DOMAIN h = 0 .. n + 1 /\ h = [k \in 0 .. n + 1 |-> h[k]]
      BY DEF h
    <3> QED BY <2>2, <2>3, <2>4, <3>1 DEF IsSum
  <2> QED BY <2>5
<1>3. T = Nat
  <2>1. T \in SUBSET Nat
    OBVIOUS
  <2> HIDE DEF T
  <2> QED BY <1>1, <1>2, <2>1, SetInduction
<1> QED BY <1>3

\* Sums of the same numbers are the same, and a number more or less at one
\* place is a number more or less in the sum.
LEMMA SumChanges ==
  ASSUME NEW N \in Nat, NEW g, NEW h, NEW f, NEW e, IsSum(f, g, N), IsSum(e, h, N),
         NEW s \in 1 .. N, \A k \in 1 .. N : g[k] \in Nat /\ h[k] \in Nat,
         \A k \in 1 .. N : k # s => h[k] = g[k]
  PROVE  e[N] + g[s] = f[N] + h[s]
<1> DEFINE T == {n \in Nat : n <= N => IF n < s THEN e[n] = f[n]
                                       ELSE e[n] + g[s] = f[n] + h[s]}
<1>0. \A n \in 0 .. N : e[n] \in Nat /\ f[n] \in Nat
  BY DEF IsSum
<1>1. 0 \in T
  BY DEF IsSum
<1>2. ASSUME NEW n \in T PROVE n + 1 \in T
  <2> SUFFICES ASSUME n + 1 <= N
               PROVE  IF n + 1 < s THEN e[n + 1] = f[n + 1]
                      ELSE e[n + 1] + g[s] = f[n + 1] + h[s]
    OBVIOUS
  <2>1. n + 1 \in 1 .. N /\ (n + 1) - 1 = n /\ n \in 0 .. N
    OBVIOUS
  <2>2. e[n + 1] = e[n] + h[n + 1] /\ f[n + 1] = f[n] + g[n + 1]
    BY <2>1 DEF IsSum
  <2>3. /\ e[n] \in Nat /\ f[n] \in Nat /\ g[n + 1] \in Nat /\ h[n + 1] \in Nat
        /\ g[s] \in Nat /\ h[s] \in Nat
    BY <1>0, <2>1
  <2>4. IF n < s THEN e[n] = f[n] ELSE e[n] + g[s] = f[n] + h[s]
    BY <2>1
  <2>5. CASE n + 1 = s
    BY <2>2, <2>3, <2>4, <2>5
  <2>6. CASE n + 1 # s
    <3>1. h[n + 1] = g[n + 1]
      BY <2>1, <2>6
    <3> QED BY <2>2, <2>3, <2>4, <2>6, <3>1
  <2> QED BY <2>5, <2>6
<1>3. T = Nat
  <2>1. T \in SUBSET Nat
    OBVIOUS
  <2> HIDE DEF T
  <2> QED BY <1>1, <1>2, <2>1, SetInduction
<1> QED BY <1>3

\* How often each soup's tally has seen an object.
Seen(tallies, c) ==
  [n \in 1 .. Soups |-> IF c \in DOMAIN tallies[n] THEN tallies[n][c] ELSE 0]

\* Total is the sum of what the tallies have seen.
LEMMA TotalIsSum ==
  ASSUME NEW tallies, NEW c, \A k \in 1 .. Soups : Seen(tallies, c)[k] \in Nat
  PROVE  \E f : IsSum(f, Seen(tallies, c), Soups) /\ Total(tallies, c) = f[Soups]
<1> DEFINE g == Seen(tallies, c)
           Body(f) == [n \in 0 .. Soups |->
                         IF n = 0 THEN 0
                         ELSE f[n - 1]
                                + (IF c \in DOMAIN tallies[n] THEN tallies[n][c] ELSE 0)]
           sum == CHOOSE f : f = Body(f)
<1>0. Soups \in Nat
  BY LimitsAssumption
<1>1. PICK e : IsSum(e, g, Soups)
  BY <1>0, SumExists
<1>2. e = Body(e)
  BY <1>0, <1>1 DEF IsSum, Seen
<1>3. sum = Body(sum)
  BY <1>2
<1>4. Total(tallies, c) = sum[Soups]
  BY DEF Total
<1> HIDE DEF sum
<1>5. sum[0] = 0 /\ \A n \in 1 .. Soups : sum[n] = sum[n - 1] + g[n]
  BY <1>0, <1>3 DEF Seen
<1> DEFINE T == {n \in Nat : n <= Soups => sum[n] \in Nat}
<1>6. T = Nat
  <2>1. 0 \in T
    BY <1>5
  <2>2. ASSUME NEW n \in T PROVE n + 1 \in T
    <3> SUFFICES ASSUME n + 1 <= Soups PROVE sum[n + 1] \in Nat
      OBVIOUS
    <3>1. n + 1 \in 1 .. Soups /\ (n + 1) - 1 = n
      BY <1>0
    <3> HIDE DEF g
    <3>2. sum[n + 1] = sum[n] + g[n + 1] /\ g[n + 1] \in Nat
      BY <1>5, <3>1 DEF g
    <3> QED BY <1>0, <3>1, <3>2
  <2>3. T \in SUBSET Nat
    OBVIOUS
  <2> HIDE DEF T
  <2> QED BY <2>1, <2>2, <2>3, SetInduction
<1>7. IsSum(sum, g, Soups)
  <2>1. \A n \in 0 .. Soups : sum[n] \in Nat
    BY <1>0, <1>6
  <2>2. sum \in [0 .. Soups -> Nat]
    <3>1. DOMAIN sum = 0 .. Soups /\ sum = [n \in 0 .. Soups |-> sum[n]]
      BY <1>3
    <3> QED BY <2>1, <3>1
  <2> HIDE DEF g
  <2> QED BY <1>5, <2>2 DEF IsSum
<1> QED BY <1>4, <1>7

-----------------------------------------------------------------------------
(* The inductive invariant.                                                *)

\* Soups are counted in their order, each with a tally of the classifier.
Accepting ==
  /\ accepted \in [1 .. Soups -> Tallies \cup {<<>>}]
  /\ \A s \in 1 .. Soups : soup < s => accepted[s] = <<>>
  /\ pc = "attempt" => soup \in 1 .. Soups /\ accepted[soup] = <<>>

Listing(aa, c) ==
  /\ \A k \in 1 .. Len(aa) : Holds(aa[k], c)
  /\ \A k, l \in 1 .. Len(aa) : k # l => aa[k] # aa[l]

Apart(aa, bb) == \A k \in 1 .. Len(aa) : \A l \in 1 .. Len(bb) : aa[k] # bb[l]

\* The lists of both searchers are sound and share no soup.
Lists ==
  /\ \A s \in {local, global} : \A c \in AllCodes : Len(s.alloccur[c]) <= MaxListed
  /\ \A c \in Codes : /\ Listing(local.alloccur[c], c) /\ Listing(global.alloccur[c], c)
                      /\ Apart(global.alloccur[c], local.alloccur[c])

\* A searcher shows a soup for what it has counted and not found too common.
Showing(s) == \A c \in AllCodes : s.census[c] \in 1 .. MaxCount => s.alloccur[c] # <<>>

ShortSuffixes == \A s \in 1 .. Soups : size[s] <= MaxPenalty

CensusInv ==
  /\ TypeOK
  /\ Accepting
  /\ Lists
  /\ CountedOnce
  /\ ShortSuffixes => Showing(local) /\ Showing(global)

IsSearcher(s) == /\ s.census \in [AllCodes -> Nat]
                 /\ \A c \in AllCodes : s.alloccur[c] \in Seq(1 .. Soups)

\* What a tally has seen are numbers.
LEMMA SeenNat ==
  ASSUME NEW a \in [1 .. Soups -> Tallies \cup {<<>>}], NEW c
  PROVE  \A k \in 1 .. Soups : Seen(a, c)[k] \in Nat
<1> SUFFICES ASSUME NEW k \in 1 .. Soups PROVE Seen(a, c)[k] \in Nat
  OBVIOUS
<1>1. c \in DOMAIN a[k] => a[k][c] \in Nat
  <2>1. CASE a[k] \in Tallies
    BY <2>1, TalliesAssumption
  <2>2. CASE a[k] = <<>>
    <3>1. DOMAIN <<>> = {}
      OBVIOUS
    <3> QED BY <2>2, <3>1
  <2> QED BY <2>1, <2>2
<1> QED BY <1>1 DEF Seen

\* Accepting a tally for a soup that had none adds what it has seen.
LEMMA TotalOfAccepted ==
  ASSUME NEW a \in [1 .. Soups -> Tallies \cup {<<>>}], NEW s \in 1 .. Soups,
         a[s] = <<>>, NEW t \in Tallies, NEW c,
         NEW b \in [1 .. Soups -> Tallies \cup {<<>>}], b[s] = t,
         \A k \in 1 .. Soups : k # s => b[k] = a[k]
  PROVE  /\ Total(a, c) \in Nat
         /\ Total(b, c) = Total(a, c) + Seen(b, c)[s]
<1> DEFINE g == Seen(a, c)
           h == Seen(b, c)
<1>1. Soups \in Nat
  BY LimitsAssumption
<1>2. \A k \in 1 .. Soups : g[k] \in Nat /\ h[k] \in Nat
  BY SeenNat
<1>3. PICK f : IsSum(f, g, Soups) /\ Total(a, c) = f[Soups]
  BY <1>2, TotalIsSum
<1>4. PICK e : IsSum(e, h, Soups) /\ Total(b, c) = e[Soups]
  BY <1>2, TotalIsSum
<1>5. \A k \in 1 .. Soups : k # s => h[k] = g[k]
  BY DEF Seen
<1>6. g[s] = 0
  <2>1. DOMAIN <<>> = {}
    OBVIOUS
  <2> QED BY <2>1 DEF Seen
<1> HIDE DEF g, h
<1>7. e[Soups] + g[s] = f[Soups] + h[s]
  BY <1>1, <1>2, <1>3, <1>4, <1>5, SumChanges
<1>8. f[Soups] \in Nat /\ e[Soups] \in Nat
  BY <1>1, <1>3, <1>4 DEF IsSum
<1>9. Total(b, c) = Total(a, c) + h[s]
  BY <1>2, <1>3, <1>4, <1>6, <1>7, <1>8
<1> QED BY <1>3, <1>8, <1>9 DEF h

\* Before any is accepted nothing has been seen.
LEMMA TotalOfNone ==
  ASSUME NEW c
  PROVE  Total([s \in 1 .. Soups |-> <<>>], c) = 0
<1> DEFINE a == [s \in 1 .. Soups |-> <<>>]
           g == Seen(a, c)
<1>0. Soups \in Nat
  BY LimitsAssumption
<1>1. \A k \in 1 .. Soups : g[k] = 0
  <2>1. DOMAIN <<>> = {}
    OBVIOUS
  <2> QED BY <2>1 DEF Seen
<1> HIDE DEF a
<1>2. PICK f : IsSum(f, g, Soups) /\ Total(a, c) = f[Soups]
  BY <1>1, TotalIsSum
<1> HIDE DEF g
<1> DEFINE T == {n \in Nat : n <= Soups => f[n] = 0}
<1>3. T = Nat
  <2>1. 0 \in T
    BY <1>2 DEF IsSum
  <2>2. ASSUME NEW n \in T PROVE n + 1 \in T
    <3> SUFFICES ASSUME n + 1 <= Soups PROVE f[n + 1] = 0
      OBVIOUS
    <3>1. n + 1 \in 1 .. Soups /\ (n + 1) - 1 = n /\ f[n] = 0
      BY <1>0
    <3> QED BY <1>1, <1>2, <3>1 DEF IsSum
  <2>3. T \in SUBSET Nat
    OBVIOUS
  <2> HIDE DEF T
  <2> QED BY <2>1, <2>2, <2>3, SetInduction
<1> QED BY <1>0, <1>2, <1>3 DEF a

\* The penalty of a list without soups is the size of the new one.
LEMMA FirstPenalty == penalty(<<>>) = size[soup] + 0
<1>1. DOMAIN <<>> = {}
  OBVIOUS
<1> DEFINE iter == CHOOSE f : f = [s \in SUBSET {} |->
                     IF s = {} THEN 0
                     ELSE 4 * size[<<>>[CHOOSE x \in s : TRUE]]
                            + f[s \ {CHOOSE x \in s : TRUE}]]
<1>2. \E f : f = [s \in SUBSET {} |->
                     IF s = {} THEN 0
                     ELSE 4 * size[<<>>[CHOOSE x \in s : TRUE]]
                            + f[s \ {CHOOSE x \in s : TRUE}]]
  <2> WITNESS [s \in SUBSET {} |-> 0]
  <2> QED OBVIOUS
<1>3. iter = [s \in SUBSET {} |->
                     IF s = {} THEN 0
                     ELSE 4 * size[<<>>[CHOOSE x \in s : TRUE]]
                            + iter[s \ {CHOOSE x \in s : TRUE}]]
  BY <1>2
<1>4. iter[{}] = 0
  BY <1>3
<1>5. penalty(<<>>) = size[soup] + iter[{}]
  BY <1>1 DEF penalty, MapThenSumSet, MapThenFoldSet
<1> QED BY <1>4, <1>5

\* Counting a tally adds what it has seen, the ignored aside, and lists the
\* soup only where there is room for it.
LEMMA CountedFacts ==
  ASSUME NEW s, IsSearcher(s), NEW t \in Tallies, soup \in 1 .. Soups
  PROVE  LET n == counted(s, t) IN
         /\ IsSearcher(n)
         /\ \A c \in AllCodes :
              \/ n.alloccur[c] = s.alloccur[c]
              \/ /\ c \in DOMAIN t /\ Len(s.alloccur[c]) < MaxListed
                 /\ n.alloccur[c] = Append(s.alloccur[c], soup)
         /\ \A c \in Codes : kind[c] # "PATHOLOGICAL" =>
              n.census[c] = s.census[c] + (IF c \in DOMAIN t THEN t[c] ELSE 0)
<1> DEFINE n == counted(s, t)
           new == DOMAIN t \ ignored(t)
<1>1. DOMAIN t \subseteq Codes /\ \A c \in DOMAIN t : t[c] \in Nat \ {0}
  BY TalliesAssumption
<1>2. ignored(t) \subseteq {c \in DOMAIN t : kind[c] = "PATHOLOGICAL"}
  BY DEF ignored
<1>3. n.census = [c \in AllCodes |-> s.census[c] + (IF c \in new THEN t[c] ELSE 0)]
  BY DEF counted
<1>4. \A c \in AllCodes :
        n.alloccur[c] = IF c \in new THEN listed(s.alloccur[c], s.census[c] + t[c])
                        ELSE s.alloccur[c]
  BY DEF counted
<1>5. \A c \in AllCodes :
        \/ n.alloccur[c] = s.alloccur[c]
        \/ /\ c \in DOMAIN t /\ Len(s.alloccur[c]) < MaxListed
           /\ n.alloccur[c] = Append(s.alloccur[c], soup)
  BY <1>4 DEF listed, roomFor
<1> HIDE DEF n
<1>6. ASSUME NEW c \in AllCodes PROVE n.alloccur[c] \in Seq(1 .. Soups)
  <2>1. s.alloccur[c] \in Seq(1 .. Soups)
    BY DEF IsSearcher
  <2>2. Append(s.alloccur[c], soup) \in Seq(1 .. Soups)
    BY <2>1, AppendProperties
  <2> QED BY <1>5, <2>1, <2>2
<1>7. n.census \in [AllCodes -> Nat]
  BY <1>1, <1>3 DEF IsSearcher
<1>8. ASSUME NEW c \in Codes, kind[c] # "PATHOLOGICAL"
      PROVE  n.census[c] = s.census[c] + (IF c \in DOMAIN t THEN t[c] ELSE 0)
  BY <1>2, <1>3, <1>8 DEF AllCodes
<1> QED BY <1>5, <1>6, <1>7, <1>8 DEF IsSearcher, n

\* It lists the soup for what is not too common, if nothing was listed before.
LEMMA CountedShows ==
  ASSUME NEW s, IsSearcher(s), NEW t \in Tallies, soup \in 1 .. Soups,
         ShortSuffixes, Showing(s)
  PROVE  Showing(counted(s, t))
<1> DEFINE n == counted(s, t)
           new == DOMAIN t \ ignored(t)
<1> SUFFICES ASSUME NEW c \in AllCodes, n.census[c] \in 1 .. MaxCount
             PROVE  n.alloccur[c] # <<>>
  BY DEF Showing
<1>1. /\ n.census[c] = s.census[c] + (IF c \in new THEN t[c] ELSE 0)
      /\ n.alloccur[c] = IF c \in new THEN listed(s.alloccur[c], s.census[c] + t[c])
                         ELSE s.alloccur[c]
  BY DEF counted
<1>2. s.census[c] \in Nat /\ s.alloccur[c] \in Seq(1 .. Soups)
  BY DEF IsSearcher
<1>a. Append(s.alloccur[c], soup) \in Seq(1 .. Soups) /\ Append(s.alloccur[c], soup) # <<>>
  BY <1>2, AppendProperties
<1>3. CASE c \in new
  <2>1. ~tooMany(s.census[c] + t[c])
    BY <1>1, <1>2, <1>3, LimitsAssumption DEF tooMany
  <2>2. CASE s.alloccur[c] = <<>>
    <3>1. roomFor(<<>>) /\ notLast(<<>>)
      BY LimitsAssumption DEF roomFor, notLast
    <3>2. penalty(<<>>) <= MaxPenalty
      BY FirstPenalty, LimitsAssumption DEF ShortSuffixes
    <3>3. n.alloccur[c] = Append(s.alloccur[c], soup)
      BY <1>1, <1>3, <2>1, <2>2, <3>1, <3>2 DEF listed
    <3> QED BY <1>a, <3>3
  <2>3. CASE s.alloccur[c] # <<>>
    <3>1. n.alloccur[c] \in {s.alloccur[c], Append(s.alloccur[c], soup)}
      BY <1>1, <1>3 DEF listed
    <3> QED BY <1>a, <2>3, <3>1
  <2> QED BY <2>2, <2>3
<1>4. CASE c \notin new
  BY <1>1, <1>2, <1>4 DEF Showing
<1> QED BY <1>3, <1>4

\* Rating a lifespan touches the codes earned alone.
LEMMA MethudetectFacts ==
  ASSUME NEW s, IsSearcher(s), NEW earned \in SUBSET Specials, soup \in 1 .. Soups
  PROVE  LET n == methudetect(s, earned) IN
         /\ IsSearcher(n)
         /\ \A c \in AllCodes :
              \/ n.alloccur[c] = s.alloccur[c]
              \/ /\ Len(s.alloccur[c]) < MaxListed
                 /\ n.alloccur[c] = Append(s.alloccur[c], soup)
         /\ \A c \in Codes : n.alloccur[c] = s.alloccur[c] /\ n.census[c] = s.census[c]
         /\ Showing(s) => Showing(n)
<1> DEFINE n == methudetect(s, earned)
<1>1. n.census = [c \in AllCodes |-> s.census[c] + (IF c \in earned THEN 1 ELSE 0)]
  BY DEF methudetect
<1>2. \A c \in AllCodes :
        n.alloccur[c] = IF c \in earned /\ roomFor(s.alloccur[c])
                        THEN Append(s.alloccur[c], soup) ELSE s.alloccur[c]
  BY DEF methudetect
<1> HIDE DEF n
<1>3. /\ s.census \in [AllCodes -> Nat]
      /\ \A c \in AllCodes : s.alloccur[c] \in Seq(1 .. Soups)
  BY DEF IsSearcher
<1>a. ASSUME NEW c \in AllCodes
      PROVE  /\ Append(s.alloccur[c], soup) \in Seq(1 .. Soups)
             /\ Append(s.alloccur[c], soup) # <<>>
  <2>1. s.alloccur[c] \in Seq(1 .. Soups)
    BY <1>3
  <2> QED BY <2>1, AppendProperties
<1>4. IsSearcher(n)
  <2>1. \A c \in AllCodes : n.alloccur[c] \in Seq(1 .. Soups)
    BY <1>2, <1>3, <1>a
  <2>2. n.census \in [AllCodes -> Nat]
    BY <1>1, <1>3
  <2> QED BY <2>1, <2>2 DEF IsSearcher
<1>5. \A c \in Codes : c \notin earned /\ c \in AllCodes
  BY CodesAssumption DEF AllCodes
<1>6. \A c \in Codes : n.alloccur[c] = s.alloccur[c] /\ n.census[c] = s.census[c]
  BY <1>1, <1>2, <1>3, <1>5
<1>7. ASSUME Showing(s), NEW c \in AllCodes, n.census[c] \in 1 .. MaxCount
      PROVE  n.alloccur[c] # <<>>
  <2>1. CASE s.alloccur[c] = <<>>
    <3>1. s.census[c] \notin 1 .. MaxCount
      BY <1>7, <2>1 DEF Showing
    <3>2. c \in earned
      BY <1>1, <1>3, <1>7, <3>1
    <3>3. roomFor(s.alloccur[c])
      BY <2>1, LimitsAssumption DEF roomFor
    <3> QED BY <1>2, <1>a, <1>7, <3>2, <3>3
  <2>2. CASE s.alloccur[c] # <<>>
    BY <1>2, <1>a, <1>7, <2>2
  <2> QED BY <2>1, <2>2
<1>8. \A c \in AllCodes :
        \/ n.alloccur[c] = s.alloccur[c]
        \/ /\ Len(s.alloccur[c]) < MaxListed
           /\ n.alloccur[c] = Append(s.alloccur[c], soup)
  BY <1>2 DEF roomFor
<1> QED BY <1>4, <1>6, <1>7, <1>8 DEF Showing, n

\* An aggregated list holds all of the first and, while there is room, the
\* beginning of the second.
LEMMA AggregatedFacts ==
  ASSUME NEW all \in Seq(1 .. Soups), NEW new \in Seq(1 .. Soups),
         Len(all) <= MaxListed
  PROVE  LET r == aggregatedList(all, new) IN
         /\ r \in Seq(1 .. Soups) /\ Len(r) <= MaxListed
         /\ r = <<>> => all = <<>> /\ new = <<>>
         /\ Len(all) <= Len(r)
         /\ \A k \in 1 .. Len(r) :
              IF k <= Len(all) THEN r[k] = all[k]
              ELSE k - Len(all) \in 1 .. Len(new) /\ r[k] = new[k - Len(all)]
<1> DEFINE m == IF Len(all) + Len(new) <= MaxListed THEN Len(new) ELSE MaxListed - Len(all)
           part == SubSeq(new, 1, m)
           r == all \o part
<1>1. Len(all) \in Nat /\ Len(new) \in Nat /\ MaxListed \in Nat \ {0}
  BY LimitsAssumption
<1>2. m \in 0 .. Len(new) /\ Len(all) + m <= MaxListed
      /\ (Len(all) + m = 0 => Len(all) = 0 /\ Len(new) = 0)
  BY <1>1
<1> HIDE DEF m
<1>3. /\ part \in Seq(1 .. Soups) /\ Len(part) = m
      /\ \A k \in 1 .. m : part[k] = new[k]
  <2>1. ASSUME NEW i \in 1 .. m PROVE new[i] \in 1 .. Soups
    <3>1. i \in 1 .. Len(new)
      BY <1>1, <1>2
    <3> QED BY <3>1, ElementOfSeq
  <2>2. /\ part \in Seq(1 .. Soups) /\ Len(part) = m
        /\ \A i \in 1 .. m : part[i] = new[i]
    <3>1. m \in Int /\ 1 \in Int
      BY <1>1, <1>2
    <3> HIDE DEF part
    <3>2. part = SubSeq(new, 1, m)
      BY DEF part
    <3>3. SubSeq(new, 1, m) \in Seq(1 .. Soups)
      BY <2>1, <3>1, SubSeqProperties, Zenon
    <3>4. Len(SubSeq(new, 1, m)) = m
      BY <1>2, <2>1, <3>1, SubSeqProperties
    <3>5. \A i \in 1 .. m : SubSeq(new, 1, m)[i] = new[i]
      BY <1>2, <2>1, <3>1, SubSeqProperties
    <3> QED BY <3>2, <3>3, <3>4, <3>5
  <2> QED BY <2>2
<1> HIDE DEF part
<1>4. /\ r \in Seq(1 .. Soups) /\ Len(r) = Len(all) + m
      /\ \A k \in 1 .. Len(r) : r[k] = IF k <= Len(all) THEN all[k] ELSE part[k - Len(all)]
  <2>1. /\ r \in Seq(1 .. Soups) /\ Len(r) = Len(all) + Len(part)
        /\ \A k \in 1 .. Len(all) + Len(part) :
             r[k] = IF k <= Len(all) THEN all[k] ELSE part[k - Len(all)]
    BY <1>3, ConcatProperties
  <2> QED BY <1>3, <2>1
<1>5. aggregatedList(all, new) = r
  BY DEF aggregatedList, part, m
<1> HIDE DEF r
<1>6. r = <<>> => all = <<>> /\ new = <<>>
  <2>1. r = <<>> => Len(r) = 0
    OBVIOUS
  <2> QED BY <1>1, <1>2, <1>4, <2>1
<1>7. ASSUME NEW k \in 1 .. Len(r)
      PROVE  IF k <= Len(all) THEN r[k] = all[k]
             ELSE k - Len(all) \in 1 .. Len(new) /\ r[k] = new[k - Len(all)]
  <2>1. CASE k <= Len(all)
    BY <1>4, <2>1
  <2>2. CASE ~(k <= Len(all))
    <3>1. k - Len(all) \in 1 .. m /\ k - Len(all) \in 1 .. Len(new)
      BY <1>1, <1>2, <1>4, <2>2
    <3> QED BY <1>3, <1>4, <2>2, <3>1
  <2> QED BY <2>1, <2>2
<1>8. Len(r) <= MaxListed /\ Len(all) <= Len(r)
  BY <1>1, <1>2, <1>4
<1> QED BY <1>4, <1>5, <1>6, <1>7, <1>8

\* A soup that two lists without a common one lack can be appended to one.
LEMMA AppendApart ==
  ASSUME NEW S, NEW aa \in Seq(S), NEW bb \in Seq(S), NEW x \in S,
         \A k \in 1 .. Len(aa) : aa[k] # x,
         \A k \in 1 .. Len(bb) : bb[k] # x,
         \A k, l \in 1 .. Len(aa) : k # l => aa[k] # aa[l],
         Apart(bb, aa)
  PROVE  LET new == Append(aa, x) IN
         /\ \A k, l \in 1 .. Len(new) : k # l => new[k] # new[l]
         /\ Apart(bb, new)
<1> DEFINE new == Append(aa, x)
<1>1. /\ Len(new) = Len(aa) + 1 /\ Len(aa) \in Nat
      /\ \A k \in 1 .. Len(aa) : new[k] = aa[k]
      /\ new[Len(aa) + 1] = x
  BY AppendProperties
<1> HIDE DEF new
<1>2. \A k \in 1 .. Len(new) : k \in 1 .. Len(aa) \/ k = Len(aa) + 1
  BY <1>1
<1>3. ASSUME NEW k \in 1 .. Len(new), NEW l \in 1 .. Len(new), k # l
      PROVE  new[k] # new[l]
  <2>1. CASE k \in 1 .. Len(aa) /\ l \in 1 .. Len(aa)
    BY <1>1, <1>3, <2>1
  <2>2. CASE k = Len(aa) + 1
    BY <1>1, <1>2, <1>3, <2>2
  <2>3. CASE l = Len(aa) + 1
    BY <1>1, <1>2, <1>3, <2>3
  <2> QED BY <1>2, <2>1, <2>2, <2>3
<1>4. Apart(bb, new)
  BY <1>1, <1>2 DEF Apart
<1> QED BY <1>3, <1>4 DEF new

\* The invariant holds at the start.
LEMMA InitCensus == Init => CensusInv
<1> SUFFICES ASSUME Init PROVE CensusInv
  OBVIOUS
<1> USE DEF Init, NewSearcher
<1>1. Soups \in Nat /\ MaxListed \in Nat
  BY LimitsAssumption
<1>2. TypeOK
  BY <1>1 DEF TypeOK
<1>3. Accepting
  BY DEF Accepting
<1>4. Lists
  <2>1. \A c \in AllCodes : local.alloccur[c] = <<>> /\ global.alloccur[c] = <<>>
    OBVIOUS
  <2>2. \A c \in Codes : c \in AllCodes
    BY DEF AllCodes
  <2>3. Len(<<>>) = 0 /\ 1 .. 0 = {}
    OBVIOUS
  <2> QED BY <1>1, <2>1, <2>2, <2>3 DEF Lists, Listing, Apart
<1>5. CountedOnce
  <2> SUFFICES ASSUME NEW c \in Codes
               PROVE  local.census[c] + global.census[c] = Total(accepted, c)
    BY DEF CountedOnce
  <2>1. local.census[c] = 0 /\ global.census[c] = 0
    BY DEF AllCodes
  <2>2. Total(accepted, c) = 0
    BY TotalOfNone
  <2> QED BY <2>1, <2>2
<1>6. Showing(local) /\ Showing(global)
  BY LimitsAssumption DEF Showing
<1> QED BY <1>2, <1>3, <1>4, <1>5, <1>6 DEF CensusInv

\* The steps that leave both searchers alone.
LEMMA CensusQuietStep ==
  ASSUME CensusInv, NextSoup \/ FailAttempt \/ UNCHANGED vars
  PROVE  CensusInv'
<1>0. TypeOK /\ Accepting /\ Soups \in Nat
  BY LimitsAssumption DEF CensusInv
<1>1. UNCHANGED <<local, global, accepted>>
  BY DEF NextSoup, FailAttempt, dropped, vars
<1>2. TypeOK' /\ Accepting'
  <2>1. CASE NextSoup
    BY <1>0, <2>1 DEF NextSoup, TypeOK, Accepting
  <2>2. CASE FailAttempt
    BY <1>0, <2>2 DEF FailAttempt, proceedNonetheless, dropped, TypeOK, Accepting
  <2>3. CASE UNCHANGED vars
    BY <1>0, <2>3 DEF vars, TypeOK, Accepting
  <2> QED BY <2>1, <2>2, <2>3
<1>3. Lists' /\ (ShortSuffixes => Showing(local)' /\ Showing(global)')
  BY <1>1 DEF CensusInv, Lists, Listing, Holds, Apart, Showing
<1>4. CountedOnce'
  BY <1>1 DEF CensusInv, CountedOnce
<1> QED BY <1>2, <1>3, <1>4 DEF CensusInv

\* A soup that died out adds no object.
LEMMA CensusNothingStep ==
  ASSUME CensusInv, CensusNothing
  PROVE  CensusInv'
<1>0. TypeOK /\ Accepting /\ IsSearcher(local)
  BY DEF CensusInv, TypeOK, IsSearcher
<1>1. CASE local' = local
  <2>1. UNCHANGED <<local, global, accepted, soup, nonempty, attempt>> /\ pc' = "next"
    BY <1>1 DEF CensusNothing
  <2>2. Lists' /\ (ShortSuffixes => Showing(local)' /\ Showing(global)')
    BY <2>1 DEF CensusInv, Lists, Listing, Holds, Apart, Showing
  <2>3. CountedOnce'
    BY <2>1 DEF CensusInv, CountedOnce
  <2> QED BY <1>0, <2>1, <2>2, <2>3 DEF CensusInv, TypeOK, Accepting
<1>2. ASSUME NEW earned \in SUBSET Specials, local' = methudetect(local, earned)
      PROVE  CensusInv'
  <2>1. UNCHANGED <<global, accepted, soup, nonempty, attempt>> /\ pc' = "next"
        /\ soup \in 1 .. Soups
    BY <1>0 DEF CensusNothing, Accepting
  <2>2. /\ IsSearcher(local')
        /\ \A c \in AllCodes :
             \/ local'.alloccur[c] = local.alloccur[c]
             \/ /\ Len(local.alloccur[c]) < MaxListed
                /\ local'.alloccur[c] = Append(local.alloccur[c], soup)
        /\ \A c \in Codes : /\ local'.alloccur[c] = local.alloccur[c]
                            /\ local'.census[c] = local.census[c]
        /\ Showing(local) => Showing(local')
    BY <1>0, <1>2, <2>1, MethudetectFacts, Zenon
  <2>3. ASSUME NEW c \in AllCodes PROVE Len(local'.alloccur[c]) <= MaxListed
    <3>1. Len(local.alloccur[c]) <= MaxListed
      BY DEF CensusInv, Lists
    <3>2. local.alloccur[c] \in Seq(1 .. Soups)
      BY <1>0 DEF IsSearcher
    <3>3. Len(Append(local.alloccur[c], soup)) = Len(local.alloccur[c]) + 1
          /\ Len(local.alloccur[c]) \in Nat
      BY <2>1, <3>2, AppendProperties
    <3> QED BY <2>2, <3>1, <3>3, LimitsAssumption
  <2>4. Lists'
    <3>1. \A c \in Codes :
            (Listing(local.alloccur[c], c) => Listing(local.alloccur[c], c)')
            /\ (Listing(global.alloccur[c], c) => Listing(global.alloccur[c], c)')
      BY <2>1, <2>2 DEF Listing, Holds
    <3> QED BY <2>1, <2>2, <2>3, <3>1 DEF CensusInv, Lists, Apart
  <2>5. CountedOnce'
    BY <2>1, <2>2 DEF CensusInv, CountedOnce
  <2>6. ShortSuffixes => Showing(local)' /\ Showing(global)'
    BY <2>1, <2>2 DEF CensusInv, Showing
  <2>7. TypeOK' /\ Accepting'
    BY <1>0, <2>1, <2>2 DEF TypeOK, Accepting, IsSearcher
  <2> QED BY <2>4, <2>5, <2>6, <2>7 DEF CensusInv
<1> QED BY <1>1, <1>2 DEF CensusNothing

\* What Succeed leaves in the local searcher, the lifespan's codes aside.
LEMMA SucceedFacts ==
  ASSUME CensusInv, Succeed
  PROVE  \E t \in Tallies :
           /\ accepted' = [accepted EXCEPT ![soup] = t]
           /\ IsSearcher(local')
           /\ \A c \in AllCodes : Len(local'.alloccur[c]) <= MaxListed
           /\ \A c \in Codes :
                \/ local'.alloccur[c] = local.alloccur[c]
                \/ /\ c \in DOMAIN t
                   /\ local'.alloccur[c] = Append(local.alloccur[c], soup)
           /\ \A c \in Codes : kind[c] # "PATHOLOGICAL" =>
                local'.census[c] = local.census[c] + (IF c \in DOMAIN t THEN t[c] ELSE 0)
           /\ ShortSuffixes => Showing(local')
<1>1. IsSearcher(local) /\ soup \in 1 .. Soups
  BY DEF CensusInv, TypeOK, IsSearcher, Accepting, Succeed
<1>2. PICK t \in Tallies :
        /\ accepted' = [accepted EXCEPT ![soup] = t]
        /\ \/ \E earned \in SUBSET Specials :
                local' = methudetect(counted(local, t), earned)
           \/ local' = counted(local, t)
  BY DEF Succeed
<1> DEFINE n == counted(local, t)
<1>3. /\ IsSearcher(n)
      /\ \A c \in AllCodes :
           \/ n.alloccur[c] = local.alloccur[c]
           \/ /\ c \in DOMAIN t /\ Len(local.alloccur[c]) < MaxListed
              /\ n.alloccur[c] = Append(local.alloccur[c], soup)
      /\ \A c \in Codes : kind[c] # "PATHOLOGICAL" =>
           n.census[c] = local.census[c] + (IF c \in DOMAIN t THEN t[c] ELSE 0)
  BY <1>1, CountedFacts, Zenon
<1>4. ShortSuffixes => Showing(n)
  BY <1>1, CountedShows DEF CensusInv
<1>5. ASSUME NEW c \in AllCodes PROVE Len(n.alloccur[c]) <= MaxListed
  <2> HIDE DEF n
  <2>1. Len(local.alloccur[c]) <= MaxListed /\ local.alloccur[c] \in Seq(1 .. Soups)
    BY <1>1 DEF CensusInv, Lists, IsSearcher
  <2>2. Len(Append(local.alloccur[c], soup)) = Len(local.alloccur[c]) + 1
        /\ Len(local.alloccur[c]) \in Nat
    BY <1>1, <2>1, AppendProperties
  <2> QED BY <1>3, <2>1, <2>2, LimitsAssumption
<1>6. CASE local' = n
  <2> HIDE DEF n
  <2> QED BY <1>2, <1>3, <1>4, <1>5, <1>6 DEF AllCodes
<1>7. ASSUME NEW earned \in SUBSET Specials, local' = methudetect(n, earned)
      PROVE  /\ IsSearcher(local')
             /\ \A c \in AllCodes : Len(local'.alloccur[c]) <= MaxListed
             /\ \A c \in Codes : /\ local'.alloccur[c] = n.alloccur[c]
                                 /\ local'.census[c] = n.census[c]
             /\ Showing(n) => Showing(local')
  <2> HIDE DEF n
  <2>1. /\ IsSearcher(local')
        /\ \A c \in AllCodes :
             \/ local'.alloccur[c] = n.alloccur[c]
             \/ /\ Len(n.alloccur[c]) < MaxListed
                /\ local'.alloccur[c] = Append(n.alloccur[c], soup)
        /\ \A c \in Codes : /\ local'.alloccur[c] = n.alloccur[c]
                            /\ local'.census[c] = n.census[c]
        /\ Showing(n) => Showing(local')
    BY <1>1, <1>3, <1>7, MethudetectFacts, Zenon
  <2>2. ASSUME NEW c \in AllCodes PROVE Len(local'.alloccur[c]) <= MaxListed
    <3>1. Len(n.alloccur[c]) <= MaxListed /\ n.alloccur[c] \in Seq(1 .. Soups)
      BY <1>3, <1>5 DEF IsSearcher
    <3>2. Len(Append(n.alloccur[c], soup)) = Len(n.alloccur[c]) + 1
          /\ Len(n.alloccur[c]) \in Nat
      BY <1>1, <3>1, AppendProperties
    <3> QED BY <2>1, <3>1, <3>2, LimitsAssumption
  <2> QED BY <2>1, <2>2
<1>8. CASE \E earned \in SUBSET Specials : local' = methudetect(n, earned)
  <2> HIDE DEF n
  <2>1. /\ IsSearcher(local')
        /\ \A c \in AllCodes : Len(local'.alloccur[c]) <= MaxListed
        /\ \A c \in Codes : /\ local'.alloccur[c] = n.alloccur[c]
                            /\ local'.census[c] = n.census[c]
        /\ Showing(n) => Showing(local')
    BY <1>7, <1>8
  <2> QED BY <1>2, <1>3, <1>4, <2>1 DEF AllCodes
<1> QED BY <1>2, <1>6, <1>8

\* A soup's objects are counted with it, and it is listed for those alone.
LEMMA SucceedStep ==
  ASSUME CensusInv, Succeed
  PROVE  CensusInv'
<1>0. TypeOK /\ Accepting /\ Lists /\ IsSearcher(local) /\ IsSearcher(global)
  BY DEF CensusInv, TypeOK, IsSearcher
<1>1. /\ UNCHANGED <<soup, nonempty, attempt, global>> /\ pc' = "next"
      /\ soup \in 1 .. Soups /\ accepted[soup] = <<>>
  BY <1>0 DEF Succeed, Accepting
<1>2. PICK t \in Tallies :
        /\ accepted' = [accepted EXCEPT ![soup] = t]
        /\ IsSearcher(local')
        /\ \A c \in AllCodes : Len(local'.alloccur[c]) <= MaxListed
        /\ \A c \in Codes :
             \/ local'.alloccur[c] = local.alloccur[c]
             \/ /\ c \in DOMAIN t
                /\ local'.alloccur[c] = Append(local.alloccur[c], soup)
        /\ \A c \in Codes : kind[c] # "PATHOLOGICAL" =>
             local'.census[c] = local.census[c] + (IF c \in DOMAIN t THEN t[c] ELSE 0)
        /\ ShortSuffixes => Showing(local')
  BY SucceedFacts, Zenon
<1>3. accepted' \in [1 .. Soups -> Tallies \cup {<<>>}]
      /\ accepted'[soup] = t
      /\ \A s \in 1 .. Soups : s # soup => accepted'[s] = accepted[s]
  BY <1>0, <1>1, <1>2 DEF Accepting
<1>4. Accepting'
  <2>1. soup \in Nat
    BY <1>1, LimitsAssumption
  <2>2. ASSUME NEW s \in 1 .. Soups, soup < s PROVE accepted'[s] = <<>>
    <3>1. s # soup
      BY <2>1, <2>2
    <3> QED BY <1>0, <1>3, <2>2, <3>1 DEF Accepting
  <2> QED BY <1>1, <1>3, <2>2 DEF Accepting
<1>5. TypeOK'
  BY <1>0, <1>1, <1>2 DEF TypeOK, IsSearcher
<1>6. \A c : ~Holds(soup, c)
  <2>1. DOMAIN <<>> = {}
    OBVIOUS
  <2> QED BY <1>1, <2>1 DEF Holds
<1>7. \A c : \A s \in 1 .. Soups : Holds(s, c) => s # soup /\ c \in DOMAIN accepted'[s]
  BY <1>3, <1>6 DEF Holds
<1>8. ASSUME NEW aa \in Seq(1 .. Soups), NEW c, Listing(aa, c)
      PROVE  \A k \in 1 .. Len(aa) : aa[k] # soup /\ c \in DOMAIN accepted'[aa[k]]
  <2> SUFFICES ASSUME NEW k \in 1 .. Len(aa) PROVE aa[k] # soup /\ c \in DOMAIN accepted'[aa[k]]
    OBVIOUS
  <2>1. aa[k] \in 1 .. Soups
    BY ElementOfSeq
  <2> QED BY <1>7, <1>8, <2>1 DEF Listing
<1>9. ASSUME NEW c \in Codes
      PROVE  /\ Listing(local.alloccur[c], c)' /\ Listing(global.alloccur[c], c)'
             /\ Apart(global.alloccur[c], local.alloccur[c])'
  <2> DEFINE aa == local.alloccur[c]  bb == global.alloccur[c]  new == Append(aa, soup)
  <2>1. aa \in Seq(1 .. Soups) /\ bb \in Seq(1 .. Soups)
    BY <1>0 DEF IsSearcher, AllCodes
  <2>2. Listing(aa, c) /\ Listing(bb, c) /\ Apart(bb, aa)
    BY <1>0 DEF Lists
  <2>3. /\ \A k \in 1 .. Len(aa) : aa[k] # soup /\ c \in DOMAIN accepted'[aa[k]]
        /\ \A k \in 1 .. Len(bb) : bb[k] # soup /\ c \in DOMAIN accepted'[bb[k]]
    <3> HIDE DEF aa, bb
    <3> QED BY <1>8, <2>1, <2>2
  <2>4. global'.alloccur[c] = bb
    BY <1>1
  <2>5. CASE local'.alloccur[c] = aa
    BY <2>2, <2>3, <2>4, <2>5 DEF Listing, Apart, Holds
  <2>6. CASE c \in DOMAIN t /\ local'.alloccur[c] = new
    <3> HIDE DEF aa, bb
    <3>1. /\ \A k, l \in 1 .. Len(new) : k # l => new[k] # new[l]
          /\ Apart(bb, new)
      BY <1>1, <2>1, <2>2, <2>3, AppendApart DEF Listing
    <3>2. /\ Len(new) = Len(aa) + 1 /\ Len(aa) \in Nat
          /\ \A k \in 1 .. Len(aa) : new[k] = aa[k]
          /\ new[Len(aa) + 1] = soup
      BY <1>1, <2>1, AppendProperties
    <3> HIDE DEF new
    <3>3. c \in DOMAIN accepted'[soup]
      BY <1>1, <1>3, <2>6 DEF Holds
    <3>4. \A k \in 1 .. Len(new) : c \in DOMAIN accepted'[new[k]]
      BY <2>3, <3>2, <3>3
    <3>5. Listing(local.alloccur[c], c)'
      BY <2>6, <3>1, <3>4 DEF Listing, Holds
    <3>6. Listing(global.alloccur[c], c)'
      BY <2>2, <2>3, <2>4 DEF Listing, Holds, bb
    <3> QED BY <2>4, <2>6, <3>1, <3>5, <3>6 DEF Apart
  <2> HIDE DEF new
  <2> QED BY <1>2, <2>5, <2>6 DEF new
<1>10. Lists'
  BY <1>0, <1>1, <1>2, <1>9 DEF Lists
<1>11. CountedOnce'
  <2> SUFFICES ASSUME NEW c \in Codes, kind[c] # "PATHOLOGICAL"
               PROVE  local'.census[c] + global'.census[c] = Total(accepted', c)
    BY DEF CountedOnce
  <2> DEFINE d == IF c \in DOMAIN t THEN t[c] ELSE 0
  <2>1. local.census[c] + global.census[c] = Total(accepted, c)
    BY DEF CensusInv, CountedOnce
  <2>2. Total(accepted, c) \in Nat /\ Total(accepted', c) = Total(accepted, c) + d
    <3>1. accepted \in [1 .. Soups -> Tallies \cup {<<>>}]
      BY <1>0 DEF Accepting
    <3>2. /\ accepted' \in [1 .. Soups -> Tallies \cup {<<>>}]
          /\ accepted'[soup] = t
          /\ \A k \in 1 .. Soups : k # soup => accepted'[k] = accepted[k]
      BY <1>3
    <3>3. soup \in 1 .. Soups /\ accepted[soup] = <<>>
      BY <1>1
    <3>4. /\ Total(accepted, c) \in Nat
          /\ Total(accepted', c) = Total(accepted, c) + Seen(accepted', c)[soup]
      BY <3>1, <3>2, <3>3, TotalOfAccepted, Zenon
    <3>5. Seen(accepted', c)[soup] = d
      BY <1>3, <3>3 DEF Seen
    <3> QED BY <3>4, <3>5
  <2>3. local.census[c] \in Nat /\ global.census[c] \in Nat
    BY <1>0 DEF IsSearcher, AllCodes
  <2>4. d \in Nat
    BY TalliesAssumption
  <2> HIDE DEF d
  <2>5. local'.census[c] = local.census[c] + d /\ global' = global
    BY <1>1, <1>2 DEF d
  <2>6. Total(accepted', c) = Total(accepted, c) + d
    BY <1>2, <2>2
  <2> QED BY <2>1, <2>3, <2>4, <2>5, <2>6
<1>12. ShortSuffixes => Showing(local)' /\ Showing(global)'
  BY <1>1, <1>2 DEF CensusInv, Showing
<1> QED BY <1>4, <1>5, <1>10, <1>11, <1>12 DEF CensusInv

\* Aggregating moves counts and lists from one searcher to the other.
LEMMA AggregateStep ==
  ASSUME CensusInv, Aggregate
  PROVE  CensusInv'
<1>0. TypeOK /\ Accepting /\ Lists /\ IsSearcher(local) /\ IsSearcher(global)
  BY DEF CensusInv, TypeOK, IsSearcher
<1>1. /\ UNCHANGED <<pc, soup, nonempty, attempt, accepted>>
      /\ \A c \in AllCodes :
           /\ local'.census[c] = 0 /\ local'.alloccur[c] = <<>>
           /\ global'.census[c] = global.census[c] + local.census[c]
           /\ global'.alloccur[c] = aggregatedList(global.alloccur[c], local.alloccur[c])
      /\ local'.census = [c \in AllCodes |-> 0]
      /\ global'.census = [c \in AllCodes |-> global.census[c] + local.census[c]]
  BY DEF Aggregate, aggregate, NewSearcher
<1>2. ASSUME NEW c \in AllCodes
      PROVE  /\ global'.alloccur[c] \in Seq(1 .. Soups)
             /\ Len(global'.alloccur[c]) <= MaxListed
             /\ global'.alloccur[c] = <<>>
                  => global.alloccur[c] = <<>> /\ local.alloccur[c] = <<>>
             /\ Len(global.alloccur[c]) <= Len(global'.alloccur[c])
             /\ \A k \in 1 .. Len(global'.alloccur[c]) :
                  IF k <= Len(global.alloccur[c])
                  THEN global'.alloccur[c][k] = global.alloccur[c][k]
                  ELSE /\ k - Len(global.alloccur[c]) \in 1 .. Len(local.alloccur[c])
                       /\ global'.alloccur[c][k]
                            = local.alloccur[c][k - Len(global.alloccur[c])]
  <2> DEFINE all == global.alloccur[c]  new == local.alloccur[c]
             r == aggregatedList(all, new)
  <2>1. all \in Seq(1 .. Soups) /\ new \in Seq(1 .. Soups) /\ Len(all) <= MaxListed
    BY <1>0 DEF IsSearcher, Lists
  <2>2. global'.alloccur[c] = r
    BY <1>1
  <2>3. /\ r \in Seq(1 .. Soups) /\ Len(r) <= MaxListed
        /\ r = <<>> => all = <<>> /\ new = <<>>
        /\ Len(all) <= Len(r)
        /\ \A k \in 1 .. Len(r) :
             IF k <= Len(all) THEN r[k] = all[k]
             ELSE k - Len(all) \in 1 .. Len(new) /\ r[k] = new[k - Len(all)]
    <3> HIDE DEF all, new
    <3> QED BY <2>1, AggregatedFacts
  <2> HIDE DEF r
  <2> QED BY <2>2, <2>3
<1>3. TypeOK'
  <2>1. IsSearcher(global')
    BY <1>0, <1>1, <1>2 DEF IsSearcher
  <2>2. IsSearcher(local')
    <3>1. <<>> \in Seq(1 .. Soups)
      OBVIOUS
    <3>2. local'.census \in [AllCodes -> Nat]
      BY <1>1
    <3> QED BY <1>1, <3>1, <3>2 DEF IsSearcher
  <2> QED BY <1>0, <1>1, <2>1, <2>2 DEF TypeOK, IsSearcher
<1>4. Accepting'
  BY <1>0, <1>1 DEF Accepting
<1>5. ASSUME NEW c \in Codes
      PROVE  /\ Listing(local.alloccur[c], c)' /\ Listing(global.alloccur[c], c)'
             /\ Apart(global.alloccur[c], local.alloccur[c])'
  <2> DEFINE all == global.alloccur[c]  new == local.alloccur[c]
             r == global'.alloccur[c]
  <2>1. c \in AllCodes /\ local'.alloccur[c] = <<>> /\ Len(<<>>) = 0
    BY <1>1 DEF AllCodes
  <2>2. /\ Len(all) \in Nat /\ Len(r) \in Nat
        /\ \A k \in 1 .. Len(r) :
             IF k <= Len(all) THEN r[k] = all[k]
             ELSE k - Len(all) \in 1 .. Len(new) /\ r[k] = new[k - Len(all)]
    BY <1>0, <1>2, <2>1 DEF IsSearcher
  <2>3. Listing(all, c) /\ Listing(new, c) /\ Apart(all, new)
    BY <1>0 DEF Lists
  <2> HIDE DEF all, new, r
  <2>4. \A k \in 1 .. Len(r) : c \in DOMAIN accepted[r[k]]
    BY <2>2, <2>3 DEF Listing, Holds
  <2>5. ASSUME NEW k \in 1 .. Len(r), NEW l \in 1 .. Len(r), k # l
        PROVE  r[k] # r[l]
    <3>1. CASE k <= Len(all) /\ l <= Len(all)
      <4>1. k \in 1 .. Len(all) /\ l \in 1 .. Len(all)
        BY <2>2, <3>1
      <4> QED BY <2>2, <2>3, <2>5, <3>1, <4>1 DEF Listing
    <3>2. CASE k <= Len(all) /\ ~(l <= Len(all))
      <4>1. k \in 1 .. Len(all) /\ l - Len(all) \in 1 .. Len(new)
        BY <2>2, <3>2
      <4> QED BY <2>2, <2>3, <3>2, <4>1 DEF Apart
    <3>3. CASE ~(k <= Len(all)) /\ l <= Len(all)
      <4>1. l \in 1 .. Len(all) /\ k - Len(all) \in 1 .. Len(new)
        BY <2>2, <3>3
      <4> QED BY <2>2, <2>3, <3>3, <4>1 DEF Apart
    <3>4. CASE ~(k <= Len(all)) /\ ~(l <= Len(all))
      <4>1. /\ k - Len(all) \in 1 .. Len(new) /\ l - Len(all) \in 1 .. Len(new)
            /\ k - Len(all) # l - Len(all)
        BY <2>2, <2>5, <3>4
      <4> QED BY <2>2, <2>3, <3>4, <4>1 DEF Listing
    <3> QED BY <3>1, <3>2, <3>3, <3>4
  <2>6. Listing(global.alloccur[c], c)'
    BY <1>1, <2>4, <2>5 DEF Listing, Holds, r
  <2>7. Listing(local.alloccur[c], c)' /\ Apart(global.alloccur[c], local.alloccur[c])'
    BY <2>1 DEF Listing, Apart
  <2> QED BY <2>6, <2>7
<1>6. Lists'
  <2>1. \A c \in AllCodes : Len(local'.alloccur[c]) <= MaxListed
    <3>1. Len(<<>>) = 0 /\ 0 <= MaxListed
      BY LimitsAssumption
    <3> QED BY <1>1, <3>1
  <2> QED BY <1>2, <1>5, <2>1 DEF Lists
<1>7. CountedOnce'
  <2> SUFFICES ASSUME NEW c \in Codes, kind[c] # "PATHOLOGICAL"
               PROVE  local'.census[c] + global'.census[c] = Total(accepted, c)
    BY <1>1 DEF CountedOnce
  <2>1. local.census[c] + global.census[c] = Total(accepted, c)
    BY DEF CensusInv, CountedOnce
  <2>2. local'.census[c] = 0 /\ global'.census[c] = global.census[c] + local.census[c]
        /\ local.census[c] \in Nat /\ global.census[c] \in Nat
    BY <1>0, <1>1 DEF IsSearcher, AllCodes
  <2> QED BY <2>1, <2>2
<1>8. ASSUME ShortSuffixes PROVE Showing(local)' /\ Showing(global)'
  <2>1. Showing(local) /\ Showing(global)
    BY <1>8 DEF CensusInv
  <2>2. Showing(local)'
    BY <1>1 DEF Showing
  <2>3. ASSUME NEW c \in AllCodes, global'.census[c] \in 1 .. MaxCount
        PROVE  global'.alloccur[c] # <<>>
    <3>1. /\ global'.census[c] = global.census[c] + local.census[c]
          /\ local.census[c] \in Nat /\ global.census[c] \in Nat
      BY <1>0, <1>1 DEF IsSearcher
    <3>2. local.census[c] \in 1 .. MaxCount \/ global.census[c] \in 1 .. MaxCount
      BY <2>3, <3>1, LimitsAssumption
    <3>3. local.alloccur[c] # <<>> \/ global.alloccur[c] # <<>>
      BY <2>1, <3>2 DEF Showing
    <3> QED BY <1>2, <3>3
  <2> QED BY <2>2, <2>3 DEF Showing
<1> QED BY <1>3, <1>4, <1>6, <1>7, <1>8 DEF CensusInv

\* It holds in every reachable state.
LEMMA CensusInductive == Spec => []CensusInv
<1>1. Init => CensusInv
  BY InitCensus
<1>2. CensusInv /\ [Next]_vars => CensusInv'
  BY CensusQuietStep, CensusNothingStep, SucceedStep, AggregateStep DEF Next, Terminated
<1> QED BY <1>1, <1>2, PTL DEF Spec

\* Searchers keep their types for every classifier, number of soups and limit;
\* no soup is attempted more than six times.
THEOREM TypeCorrect == Spec => []TypeOK
<1>1. CensusInv => TypeOK
  BY DEF CensusInv
<1> QED BY <1>1, CensusInductive, PTL

\* However many attempts soups take and however often searchers are
\* aggregated, the two censuses add up to what the accepted tallies saw.
THEOREM CountsAreExact == Spec => []CountedOnce
<1>1. CensusInv => CountedOnce
  BY DEF CensusInv
<1> QED BY <1>1, CensusInductive, PTL

\* The soups listed for an object had it, each is listed once, and no list
\* outgrows its limit.
THEOREM ListsAreSound == Spec => []ListsSound
<1>1. CensusInv => ListsSound
  BY DEF CensusInv, Lists, Listing, ListsSound, AllCodes
<1> QED BY <1>1, CensusInductive, PTL

\* What is reported and not too common has a soup to show for it.
THEOREM ReportsShow == Spec => []ReportedIsListed
<1>1. CensusInv => ReportedIsListed
  BY DEF CensusInv, ShortSuffixes, Showing, ReportedIsListed
<1> QED BY <1>1, CensusInductive, PTL
=============================================================================
