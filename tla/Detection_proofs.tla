-------------------------- MODULE Detection_proofs --------------------------
(* Proofs about Detection for every task, every length of the windows and  *)
(* every width of an int.                                                  *)
EXTENDS Detection, WellFoundedInduction, TLAPS

-----------------------------------------------------------------------------
(* Multiples.                                                              *)

\* The n-th multiple of s, and what lies before the next one.
LEMMA Multiples ==
  ASSUME NEW s \in Nat \ {0}, NEW n \in Nat
  PROVE  /\ n * s \in Nat /\ (n + 1) * s = n * s + s
         /\ (n * s) % s = 0 /\ (n * s) \div s = n
  OBVIOUS

LEMMA Monotone ==
  ASSUME NEW s \in Nat \ {0}, NEW a \in Nat, NEW b \in Nat, a < b
  PROVE  a * s + s <= b * s
<1>1. PICK d \in Nat : b = a + 1 + d
  <2> WITNESS b - a - 1 \in Nat
  <2> QED OBVIOUS
<1>2. b * s = a * s + s + d * s /\ d * s >= 0
  BY <1>1
<1> QED BY <1>2

\* No other multiple lies between two that are next to each other.
LEMMA NoMultipleBetween ==
  ASSUME NEW s \in Nat \ {0}, NEW n \in Nat, NEW k \in Nat, k % s = 0,
         n * s <= k, k < n * s + s
  PROVE  k = n * s
<1> DEFINE m == k \div s
<1>1. m \in Nat /\ k = m * s
  OBVIOUS
<1> HIDE DEF m
<1>2. m * s \in Nat /\ n * s \in Nat
  BY <1>1
<1>3. ~(m < n)
  BY <1>1, <1>2, Monotone
<1>4. ~(n < m)
  BY <1>1, <1>2, Monotone
<1> QED BY <1>1, <1>3, <1>4

-----------------------------------------------------------------------------
(* The invariant.                                                          *)

\* The patterns are where the next two samples need them.
InTurn ==
  stage \in {"enter", "sample"} =>
    \E n \in Nat :
      /\ i = n * task.stepsize
      /\ IF task.hashlife THEN pat0 = task.start + i
         ELSE IF n % 2 = 0
         THEN pat0 = task.start + i /\ pat1 = task.start + i + task.stepsize
         ELSE pat1 = task.start + i /\ pat0 = task.start + i + task.stepsize

\* Only linear growth has periods and moments.
KindOfStage ==
  /\ task \in Tasks
  /\ stage \in {"period", "qeriod", "moments", "power"} => task.kind = "growth"
  /\ stage = "settle" => task.kind = "lifespan"

\* A period that has been found stays within reach as a qeriod.
PeriodFound ==
  /\ q \in Nat \ {0}
  /\ stage \in {"enter", "sample"} => p = 1 /\ q = 1
  /\ stage = "period" => p < maxperiod /\ q = 1
  /\ stage \in {"qeriod", "moments"} =>
       p < maxperiod /\ q <= p /\ Repeats(poplist, p, p)

IInv == TypeOK /\ InTurn /\ KindOfStage /\ PeriodFound /\ PopseqIsHistory

LEMMA PopulationNat ==
  ASSUME NEW t \in Tasks, NEW g \in Nat
  PROVE  Population(t, g) \in Nat
<1> DEFINE n == Len(t.tail)  k == Len(t.cycle)
<1>0. /\ t.tail \in Seq(Nat) /\ t.cycle \in Seq(Nat) /\ t.cycle # <<>> /\ t.growth \in Nat
  BY TasksAssumption
<1>1. /\ n \in Nat /\ k \in Nat \ {0}
      /\ \A j \in 1 .. n : t.tail[j] \in Nat
      /\ \A j \in 1 .. k : t.cycle[j] \in Nat
  BY <1>0
<1>2. Population(t, g) = IF g < n THEN t.tail[g + 1]
                         ELSE t.cycle[((g - n) % k) + 1] + ((g - n) \div k) * t.growth
  BY DEF Population
<1> HIDE DEF n, k
<1>3. CASE g < n
  BY <1>1, <1>2, <1>3
<1>4. CASE g >= n
  <2>1. g - n \in Nat
    BY <1>1, <1>4
  <2>2. ((g - n) % k) + 1 \in 1 .. k /\ (g - n) \div k \in Nat
    BY <1>1, <2>1
  <2>3. t.cycle[((g - n) % k) + 1] \in Nat
    BY <1>1, <2>2
  <2>4. ((g - n) \div k) * t.growth \in Nat
    BY <1>0, <2>2
  <2>5. Population(t, g) = t.cycle[((g - n) % k) + 1] + ((g - n) \div k) * t.growth
    BY <1>1, <1>2, <1>4
  <2> QED BY <2>3, <2>4, <2>5
<1> QED BY <1>1, <1>3, <1>4

LEMMA WrappedInts == ASSUME NEW n \in Int PROVE Wrapped(n) \in Ints
<1> DEFINE h == Modulus \div 2
<1>1. h \in Nat /\ Modulus = 2 * h /\ Modulus \in Nat \ {0}
  BY SizesAssumption
<1>2. (n + h) % Modulus \in 0 .. Modulus - 1
  BY <1>1
<1> QED BY <1>1, <1>2 DEF Wrapped, Ints

\* What is known of a task.
LEMMA TaskFields ==
  ASSUME NEW t \in Tasks
  PROVE  /\ t.kind \in Kinds /\ t.start \in Nat /\ t.stepsize \in Nat \ {0}
         /\ t.hashlife \in BOOLEAN /\ t.gensElapsed \in Nat
         /\ t.kind = "lifespan" => t.start = 0 /\ t.stepsize = 1 /\ ~t.hashlife
  BY TasksAssumption

LEMMA NgensNat == task \in Tasks => ngens \in Nat
  BY TaskFields, SizesAssumption DEF ngens

LEMMA InitIInv == Init => IInv
<1> SUFFICES ASSUME Init PROVE IInv
  OBVIOUS
<1>0. task \in Tasks /\ task.start \in Nat /\ task.stepsize \in Nat \ {0}
  BY TaskFields DEF Init
<1>1. poplist \in [0 .. ngens - 1 -> Nat]
  BY DEF Init
<1>2. moments \in Ints \X Ints \X Ints
  BY SizesAssumption DEF Init, Ints
<1>3. TypeOK
  BY <1>0, <1>1, <1>2 DEF Init, TypeOK, Stages
<1>4. InTurn
  <2>1. 0 = 0 * task.stepsize /\ 0 % 2 = 0
    BY <1>0
  <2> QED BY <1>0, <2>1 DEF Init, InTurn
<1>5. KindOfStage /\ PeriodFound
  BY <1>0 DEF Init, KindOfStage, PeriodFound
<1>6. PopseqIsHistory
  BY DEF Init, PopseqIsHistory, Written
<1> QED BY <1>3, <1>4, <1>5, <1>6 DEF IInv

-----------------------------------------------------------------------------
(* get_popseq.                                                             *)

LEMMA SampleStep == ASSUME IInv, Sample PROVE IInv'
<1> DEFINE s == task.stepsize
<1>0. /\ task \in Tasks /\ task.start \in Nat /\ s \in Nat \ {0} /\ i \in Nat
      /\ task.hashlife \in BOOLEAN /\ ngens \in Nat /\ i \in 0 .. ngens - 1
  BY TaskFields, NgensNat DEF IInv, KindOfStage, TypeOK, Sample
<1>1. PICK n \in Nat :
        /\ i = n * s
        /\ IF task.hashlife THEN pat0 = task.start + i
           ELSE IF n % 2 = 0
           THEN pat0 = task.start + i /\ pat1 = task.start + i + s
           ELSE pat1 = task.start + i /\ pat0 = task.start + i + s
  BY DEF IInv, InTurn, Sample
<1>2. i \div s = n /\ i % s = 0 /\ (n + 1) * s = i + s
  BY <1>0, <1>1, Multiples
<1>3. /\ poplist' = [poplist EXCEPT ![i] = Population(task, task.start + i)]
      /\ IF task.hashlife THEN pat0' = task.start + (i + s)
         ELSE IF (n + 1) % 2 = 0
         THEN pat0' = task.start + (i + s) /\ pat1' = task.start + (i + s) + s
         ELSE pat1' = task.start + (i + s) /\ pat0' = task.start + (i + s) + s
  <2>1. CASE task.hashlife
    BY <1>0, <1>1, <2>1 DEF Sample, SecondsTurn, Stride
  <2>2. CASE ~task.hashlife /\ n % 2 = 0
    <3>1. (n + 1) % 2 # 0 /\ ~SecondsTurn(task, i) /\ Stride(task) = 2 * s
      BY <1>2, <2>2 DEF SecondsTurn, Stride
    <3> QED BY <1>0, <1>1, <2>2, <3>1 DEF Sample
  <2>3. CASE ~task.hashlife /\ n % 2 # 0
    <3>1. (n + 1) % 2 = 0 /\ SecondsTurn(task, i) /\ Stride(task) = 2 * s
      BY <1>2, <2>3 DEF SecondsTurn, Stride
    <3> QED BY <1>0, <1>1, <2>3, <3>1 DEF Sample
  <2> QED BY <2>1, <2>2, <2>3
<1>4. UNCHANGED <<task, stage, p, q, moments>> /\ i' = i + s /\ stage = "sample"
  BY DEF Sample
<1>5. Population(task, task.start + i) \in Nat
  BY <1>0, PopulationNat
<1>6. ngens' = ngens
  BY <1>4 DEF ngens
<1>7. TypeOK'
  <2>1. pat0' \in Nat /\ pat1' \in Nat
    <3>1. pat0 \in Nat /\ pat1 \in Nat /\ Stride(task) \in Nat
      BY <1>0 DEF IInv, TypeOK, Stride
    <3> QED BY <3>1 DEF Sample
  <2>2. poplist' \in [0 .. ngens' - 1 -> Nat]
    BY <1>0, <1>3, <1>5, <1>6 DEF IInv, TypeOK
  <2> QED BY <1>0, <1>4, <2>1, <2>2 DEF IInv, TypeOK, Ints
<1>8. InTurn'
  BY <1>0, <1>2, <1>3, <1>4 DEF InTurn
<1>9. KindOfStage' /\ PeriodFound'
  BY <1>4 DEF IInv, KindOfStage, PeriodFound
<1>10. PopseqIsHistory'
  <2>1. SUFFICES ASSUME NEW k \in 0 .. ngens - 1
                 PROVE  poplist'[k] = IF Written(k)' THEN Population(task, task.start + k)
                                      ELSE 0
    BY <1>4, <1>6 DEF PopseqIsHistory
  <2>2. poplist[k] = IF Written(k) THEN Population(task, task.start + k) ELSE 0
    BY <1>4 DEF IInv, PopseqIsHistory
  <2>3. k = i => poplist'[k] = Population(task, task.start + k)
    BY <1>0, <1>3 DEF IInv, TypeOK
  <2>4. k # i => poplist'[k] = poplist[k]
    BY <1>0, <1>3 DEF IInv, TypeOK
  <2>5. k = i => Written(k)'
    BY <1>0, <1>2, <1>4 DEF Written
  <2>6. k # i => (Written(k)' <=> Written(k))
    <3> SUFFICES ASSUME k # i PROVE Written(k)' <=> Written(k)
      OBVIOUS
    <3>1. k % s = 0 /\ i <= k => ~(k < i + s)
      BY <1>0, <1>1, NoMultipleBetween
    <3> QED BY <1>0, <1>4, <3>1 DEF Written
  <2> QED BY <2>2, <2>3, <2>4, <2>5, <2>6
<1> QED BY <1>7, <1>8, <1>9, <1>10 DEF IInv

-----------------------------------------------------------------------------
(* The other steps leave the sequence alone.                               *)

LEMMA HistoryKept ==
  ASSUME IInv, UNCHANGED <<task, poplist>>, stage' \notin {"enter", "sample"},
         \/ stage = "sample" /\ i >= ngens
         \/ stage \notin {"enter", "sample"} /\ (stage = "done" => stage' = "done")
  PROVE  PopseqIsHistory' /\ InTurn' /\ poplist' \in [0 .. ngens' - 1 -> Nat]
<1>0. ngens' = ngens /\ ngens \in Nat /\ i \in Nat
  BY NgensNat DEF ngens, IInv, TypeOK, KindOfStage
<1>1. \A k \in 0 .. ngens - 1 : Written(k)' <=> Written(k)
  BY <1>0 DEF Written
<1> QED BY <1>0, <1>1 DEF IInv, TypeOK, PopseqIsHistory, InTurn

LEMMA EnterStep == ASSUME IInv, Enter PROVE IInv'
<1>1. /\ UNCHANGED <<task, i, pat0, pat1, poplist, p, q, moments>> /\ stage = "enter"
      /\ \/ stage' = "sample"
         \/ stage' = "done" /\ task.kind = "lifespan"
  BY DEF Enter
<1>2. ngens' = ngens
  BY <1>1 DEF ngens
<1>3. TypeOK' /\ InTurn' /\ KindOfStage' /\ PeriodFound'
  BY <1>1, <1>2 DEF IInv, TypeOK, InTurn, KindOfStage, PeriodFound, Stages, Ints
<1>4. PopseqIsHistory'
  <2>1. CASE stage' = "sample"
    BY <1>1, <1>2, <2>1 DEF IInv, PopseqIsHistory, Written
  <2>2. CASE stage' = "done" /\ task.kind = "lifespan"
    BY <1>1, <2>2 DEF PopseqIsHistory
  <2> QED BY <1>1, <2>1, <2>2
<1> QED BY <1>3, <1>4 DEF IInv

LEMMA EndSamplingStep == ASSUME IInv, EndSampling PROVE IInv'
<1>1. /\ UNCHANGED <<task, i, pat0, pat1, poplist, p, q, moments>>
      /\ stage = "sample" /\ i >= ngens
      /\ stage' = IF task.kind = "growth" THEN "period" ELSE "settle"
  BY DEF EndSampling
<1>2. task.kind \in Kinds
  BY TaskFields DEF IInv, KindOfStage
<1>3. PopseqIsHistory' /\ InTurn' /\ poplist' \in [0 .. ngens' - 1 -> Nat]
  BY <1>1, HistoryKept
<1>4. TypeOK' /\ KindOfStage' /\ PeriodFound'
  BY <1>1, <1>2, <1>3, SizesAssumption
     DEF IInv, TypeOK, KindOfStage, PeriodFound, Stages, Ints, Kinds
<1> QED BY <1>3, <1>4 DEF IInv

LEMMA TryPeriodStep == ASSUME IInv, TryPeriod PROVE IInv'
<1>1. /\ UNCHANGED <<task, i, pat0, pat1, poplist, q, moments>> /\ stage = "period"
      /\ IF Repeats(poplist, p, p) THEN stage' = "qeriod" /\ p' = p
         ELSE p' = p + 1 /\ stage' = IF p + 1 < maxperiod THEN "period" ELSE "power"
  BY DEF TryPeriod
<1>2. PopseqIsHistory' /\ InTurn' /\ poplist' \in [0 .. ngens' - 1 -> Nat]
  BY <1>1, HistoryKept
<1>3. TypeOK' /\ KindOfStage'
  BY <1>1, <1>2 DEF IInv, TypeOK, KindOfStage, Stages, Ints
<1>4. PeriodFound'
  BY <1>1 DEF IInv, TypeOK, PeriodFound
<1> QED BY <1>2, <1>3, <1>4 DEF IInv

\* A q that fails is not the period, so there is one more to try.
LEMMA TryQeriodStep == ASSUME IInv, TryQeriod PROVE IInv' /\ stage' # "power"
<1>0. /\ p \in Nat \ {0} /\ q \in Nat \ {0} /\ q <= p /\ p < maxperiod
      /\ Repeats(poplist, p, p) /\ maxperiod \in Nat
  BY SizesAssumption DEF IInv, TypeOK, PeriodFound, TryQeriod
<1>1. /\ UNCHANGED <<task, pat0, pat1, poplist, p, moments>> /\ i' = 0 /\ stage = "qeriod"
      /\ \/ stage' = "moments" /\ q' = q
         \/ stage' = "qeriod" /\ q' = q + 1 /\ q # p
  <2>1. ~Repeats(poplist, p, q) => q # p /\ MoreQeriods(q, p)
    BY <1>0 DEF MoreQeriods
  <2> QED BY <2>1 DEF TryQeriod
<1>2. PopseqIsHistory' /\ InTurn' /\ poplist' \in [0 .. ngens' - 1 -> Nat]
  BY <1>1, HistoryKept
<1>3. TypeOK' /\ KindOfStage'
  BY <1>0, <1>1, <1>2 DEF IInv, TypeOK, KindOfStage, Stages, Ints
<1>4. PeriodFound'
  BY <1>0, <1>1 DEF PeriodFound
<1> QED BY <1>1, <1>2, <1>3, <1>4 DEF IInv

\* The sum reads no difference past the end of the sequence.
LEMMA AccumulateStep == ASSUME IInv, Accumulate PROVE IInv'
<1>1. /\ UNCHANGED <<task, stage, pat0, pat1, poplist, p, q>> /\ i' = i + 1
      /\ stage = "moments" /\ i < p
  BY DEF Accumulate, SummedOver
<1>2. /\ i \in 0 .. ngens - 1 /\ i + q \in 0 .. ngens - 1
      /\ poplist \in [0 .. ngens - 1 -> Nat]
  BY <1>1, SizesAssumption DEF IInv, TypeOK, PeriodFound, KindOfStage, ngens
<1>3. moments' \in Ints \X Ints \X Ints
  <2> DEFINE d == poplist[i + q] - poplist[i]
  <2>1. d \in Int
    BY <1>2
  <2>2. /\ moments[1] \in Int /\ moments[2] \in Int /\ moments[3] \in Int
    BY SizesAssumption DEF IInv, TypeOK, Ints
  <2>3. moments' = <<Wrapped(moments[1] + d), Wrapped(moments[2] + d * d),
                     Wrapped(moments[3] + d * d * d)>>
    BY DEF Accumulate
  <2> HIDE DEF d
  <2>4. moments[1] + d \in Int /\ moments[2] + d * d \in Int /\ moments[3] + d * d * d \in Int
    BY <2>1, <2>2
  <2> QED BY <2>3, <2>4, WrappedInts
<1>4. PopseqIsHistory' /\ InTurn' /\ poplist' \in [0 .. ngens' - 1 -> Nat]
  BY <1>1, HistoryKept
<1>5. TypeOK' /\ KindOfStage' /\ PeriodFound'
  BY <1>1, <1>3, <1>4 DEF IInv, TypeOK, KindOfStage, PeriodFound, Stages
<1> QED BY <1>4, <1>5 DEF IInv

LEMMA LastSteps ==
  ASSUME IInv, EndMoments \/ Powerlyse \/ TryLifePeriod \/ UNCHANGED vars
  PROVE  IInv'
<1>1. CASE UNCHANGED vars
  <2>1. ngens' = ngens
    BY <1>1 DEF vars, ngens
  <2>2. TypeOK' /\ InTurn' /\ KindOfStage' /\ PeriodFound'
    BY <1>1, <2>1 DEF vars, IInv, TypeOK, InTurn, KindOfStage, PeriodFound, Stages, Ints
  <2>3. PopseqIsHistory'
    BY <1>1, <2>1 DEF vars, IInv, PopseqIsHistory, Written
  <2> QED BY <2>2, <2>3 DEF IInv
<1>2. CASE EndMoments \/ Powerlyse \/ TryLifePeriod
  <2>1. /\ UNCHANGED <<task, i, pat0, pat1, poplist, q, moments>>
        /\ p' \in {p, p + 1}
        /\ \/ stage = "moments" /\ stage' \in {"power", "done"}
           \/ stage = "power" /\ stage' = "done"
           \/ stage = "settle" /\ stage' \in {"settle", "done"}
    BY <1>2 DEF EndMoments, Powerlyse, TryLifePeriod
  <2>2. PopseqIsHistory' /\ InTurn' /\ poplist' \in [0 .. ngens' - 1 -> Nat]
    BY <2>1, HistoryKept
  <2>3. TypeOK' /\ KindOfStage' /\ PeriodFound'
    BY <2>1, <2>2 DEF IInv, TypeOK, KindOfStage, PeriodFound, Stages, Ints
  <2> QED BY <2>2, <2>3 DEF IInv
<1> QED BY <1>1, <1>2

LEMMA NextIInv == IInv /\ [Next]_vars => IInv'
<1> SUFFICES ASSUME IInv, [Next]_vars PROVE IInv'
  OBVIOUS
<1> QED BY EnterStep, SampleStep, EndSamplingStep, TryPeriodStep, TryQeriodStep,
           AccumulateStep, LastSteps DEF Next, Terminated

-----------------------------------------------------------------------------
LEMMA Inductive == Spec => []IInv
  BY InitIInv, NextIInv, PTL DEF Spec

\* Sequences, periods and wrapped moments keep their types.
THEOREM TypeCorrect == Spec => []TypeOK
<1>1. IInv => TypeOK
  BY DEF IInv
<1> QED BY <1>1, Inductive, PTL

\* For every step size and length, two patterns in turn or one alone fill the
\* sequence with the history of the pattern.
THEOREM RecordsHistory == Spec => []PopseqIsHistory
<1>1. IInv => PopseqIsHistory
  BY DEF IInv
<1> QED BY <1>1, Inductive, PTL

\* "Something is seriously wrong" is never reached, whatever the populations.
THEOREM QeriodIsFound == Spec => []SomeQeriod
<1>1. IInv => SomeQeriod
  BY DEF IInv, PeriodFound, SomeQeriod
<1> QED BY <1>1, Inductive, PTL

-----------------------------------------------------------------------------
(* The populations of a soup repeat.                                       *)

Smaller == {ss \in Nat \X Nat : ss[1] < ss[2]}

LEMMA FirstOf ==
  ASSUME NEW T \in SUBSET Nat, T # {}
  PROVE  \E x \in T : \A y \in T : x <= y
<1>1. IsWellFoundedOn(Smaller, Nat)
  BY NatLessThanWellFounded DEF OpToRel, Smaller
<1>2. PICK x \in T : \A y \in T : <<y, x>> \notin Smaller
  BY <1>1, WFMin, Zenon
<1>3. \A y \in T : ~(y < x)
  BY <1>2 DEF Smaller
<1> QED BY <1>3

LEMMA LeastIsLeast ==
  ASSUME NEW T \in SUBSET Nat, T # {}
  PROVE  Least(T) \in T /\ \A y \in T : Least(T) <= y
<1>1. PICK x \in T : \A y \in T : x <= y
  BY FirstOf
<1>2. Min(T) \in T /\ \A y \in T : Min(T) <= y
  BY <1>1 DEF Min
<1> QED BY <1>2 DEF Least

\* The remainder of a number is known once it is written as a multiple and a
\* remainder.
LEMMA RemainderOf ==
  ASSUME NEW c \in Nat \ {0}, NEW m \in Nat, NEW r \in 0 .. c - 1
  PROVE  (c * m + r) % c = r
<1> DEFINE a == c * m + r  n0 == a \div c  s == a % c
<1>1. a \in Nat
  BY SMT
<1>2. n0 \in Nat /\ s \in Nat /\ s < c /\ a = n0 * c + s
  BY <1>1
<1>3. m * c + r = n0 * c + s
  BY <1>2
<1> HIDE DEF a, n0, s
<1>4. m * c \in Nat /\ n0 * c \in Nat
  BY <1>2
<1>5. ~(m < n0)
  <2>1. m < n0 => m * c + c <= n0 * c
    BY <1>2, Monotone
  <2> QED BY <1>2, <1>3, <1>4, <2>1
<1>6. ~(n0 < m)
  <2>1. n0 < m => n0 * c + c <= m * c
    BY <1>2, Monotone
  <2> QED BY <1>2, <1>3, <1>4, <2>1
<1>7. n0 = m
  BY <1>2, <1>5, <1>6
<1>8. s = r
  BY <1>2, <1>3, <1>4, <1>7
<1> QED BY <1>8 DEF s, a

LEMMA Divided ==
  ASSUME NEW a \in Nat, NEW c \in Nat \ {0}
  PROVE  \E m \in Nat : \E r \in 0 .. c - 1 : a = c * m + r
<1>1. a \div c \in Nat /\ a % c \in 0 .. c - 1 /\ a = c * (a \div c) + (a % c)
  OBVIOUS
<1> QED BY <1>1, Zenon

LEMMA WholeLaps ==
  ASSUME NEW c \in Nat \ {0}, NEW a \in Nat, NEW m \in Nat
  PROVE  (a + c * m) % c = a % c
<1> DEFINE n0 == a \div c  r == a % c
<1>1. n0 \in Nat /\ r \in 0 .. c - 1 /\ a = c * n0 + r
  OBVIOUS
<1> HIDE DEF n0, r
<1>2. PICK n \in Nat : a + c * m = c * n + r
  <2>1. n0 + m \in Nat /\ a + c * m = c * (n0 + m) + r
    BY <1>1
  <2> QED BY <2>1, Zenon
<1>3. (c * n + r) % c = r
  BY <1>1, RemainderOf
<1> QED BY <1>2, <1>3 DEF r

IsSoup(t) == t \in Tasks /\ t.kind = "lifespan"

\* Where the cycle of a soup begins, and how long it is.
Ash(t) == Len(t.tail)
Round(t) == Len(t.cycle)

LEMMA SoupKnown ==
  ASSUME NEW t, IsSoup(t)
  PROVE  /\ Ash(t) \in Nat /\ Round(t) \in Nat \ {0} /\ t.gensElapsed \in Nat
         /\ \A g \in Nat : g >= Ash(t) =>
              Population(t, g) = t.cycle[((g - Ash(t)) % Round(t)) + 1]
<1>0. /\ t.tail \in Seq(Nat) /\ t.cycle \in Seq(Nat) /\ t.cycle # <<>> /\ t.growth = 0
      /\ t.gensElapsed \in Nat
  BY TasksAssumption DEF IsSoup
<1>1. /\ Ash(t) \in Nat /\ Round(t) \in Nat \ {0}
      /\ \A j \in 1 .. Round(t) : t.cycle[j] \in Nat
  BY <1>0 DEF Ash, Round
<1>2. ASSUME NEW g \in Nat, g >= Ash(t)
      PROVE  Population(t, g) = t.cycle[((g - Ash(t)) % Round(t)) + 1]
  <2> DEFINE a == g - Ash(t)  c == Round(t)
  <2>0. Population(t, g) = IF g < Ash(t) THEN t.tail[g + 1]
                           ELSE t.cycle[(a % c) + 1] + (a \div c) * t.growth
    BY DEF Population, Ash, Round
  <2>1. Population(t, g) = t.cycle[(a % c) + 1] + (a \div c) * t.growth
    <3>1. ~(g < Ash(t))
      BY <1>1, <1>2
    <3> QED BY <2>0, <3>1, Zenon
  <2>2. a \in Nat /\ c \in Nat \ {0}
    BY <1>1, <1>2
  <2>3. a % c \in 0 .. c - 1 /\ a \div c \in Nat
    BY <2>2
  <2> HIDE DEF a
  <2>4. (a % c) + 1 \in 1 .. c
    BY <2>2, <2>3
  <2>5. t.cycle[(a % c) + 1] \in Nat
    BY <1>1, <2>4
  <2>6. (a \div c) * t.growth = 0
    BY <1>0, <2>3
  <2>7. Population(t, g) = t.cycle[(a % c) + 1]
    BY <2>1, <2>5, <2>6
  <2> QED BY <2>7 DEF a
<1> QED BY <1>0, <1>1, <1>2

\* Any number of rounds later the population is the same.
LEMMA RoundsLater ==
  ASSUME NEW t, IsSoup(t), NEW k \in Nat, NEW m \in Nat
  PROVE  Population(t, Ash(t) + k + Round(t) * m) = Population(t, Ash(t) + k)
<1>0. Ash(t) \in Nat /\ Round(t) \in Nat \ {0}
  BY SoupKnown
<1>1. Round(t) * m \in Nat
  BY <1>0
<1>2. (k + Round(t) * m) % Round(t) = k % Round(t)
  BY <1>0, WholeLaps
<1> DEFINE x == Ash(t) + k  y == Ash(t) + k + Round(t) * m
<1>3. x \in Nat /\ y \in Nat /\ x >= Ash(t) /\ y >= Ash(t)
      /\ x - Ash(t) = k /\ y - Ash(t) = k + Round(t) * m
  BY <1>0, <1>1
<1> HIDE DEF x, y
<1>4. /\ Population(t, x) = t.cycle[((x - Ash(t)) % Round(t)) + 1]
      /\ Population(t, y) = t.cycle[((y - Ash(t)) % Round(t)) + 1]
  BY <1>3, SoupKnown
<1>5. Population(t, y) = Population(t, x)
  BY <1>2, <1>3, <1>4
<1> QED BY <1>5 DEF x, y

\* What holds at each place of one round holds ever after.
LEMMA EveryRound ==
  ASSUME NEW t, IsSoup(t), NEW n \in Nat, Periodic(t, n), NEW g \in Nat, g >= Ash(t)
  PROVE  Population(t, g) = Population(t, g + n)
<1>0. Ash(t) \in Nat /\ Round(t) \in Nat \ {0}
  BY SoupKnown
<1>1. g - Ash(t) \in Nat
  BY <1>0
<1>2. PICK m \in Nat, k \in 0 .. Round(t) - 1 : g - Ash(t) = Round(t) * m + k
  BY <1>0, <1>1, Divided
<1>3. /\ g = Ash(t) + k + Round(t) * m /\ g + n = Ash(t) + (k + n) + Round(t) * m
      /\ k \in Nat /\ k + n \in Nat /\ Ash(t) + (k + n) = Ash(t) + k + n
  <2> DEFINE x == Round(t) * m
  <2>1. x \in Nat /\ k \in Nat /\ g - Ash(t) = x + k
    BY <1>0, <1>2
  <2> HIDE DEF x
  <2>2. /\ g = Ash(t) + k + x /\ g + n = Ash(t) + (k + n) + x
        /\ k \in Nat /\ k + n \in Nat /\ Ash(t) + (k + n) = Ash(t) + k + n
    BY <1>0, <2>1
  <2> QED BY <2>2 DEF x
<1>4. Population(t, Ash(t) + k + Round(t) * m) = Population(t, Ash(t) + k)
  BY <1>2, <1>3, RoundsLater
<1>5. Population(t, Ash(t) + (k + n) + Round(t) * m) = Population(t, Ash(t) + (k + n))
  BY <1>2, <1>3, RoundsLater
<1>6. Population(t, Ash(t) + k) = Population(t, Ash(t) + k + n)
  BY <1>2 DEF Periodic, Ash, Round
<1> QED BY <1>3, <1>4, <1>5, <1>6

\* The period is there: a whole round repeats.
LEMMA PeriodKnown ==
  ASSUME NEW t, IsSoup(t)
  PROVE  /\ TruePeriod(t) \in 1 .. Round(t) /\ Periodic(t, TruePeriod(t))
         /\ \A n \in 1 .. Round(t) : Periodic(t, n) => TruePeriod(t) <= n
<1> DEFINE T == {n \in 1 .. Len(t.cycle) : Periodic(t, n)}
<1>0. Ash(t) \in Nat /\ Round(t) \in Nat \ {0}
  BY SoupKnown
<1>1. Periodic(t, Round(t))
  <2>1. ASSUME NEW k \in 0 .. Round(t) - 1
        PROVE  Population(t, Ash(t) + k) = Population(t, Ash(t) + k + Round(t))
    <3>1. k \in Nat /\ 1 \in Nat /\ Round(t) * 1 = Round(t)
      BY <1>0
    <3> QED BY <3>1, RoundsLater
  <2> QED BY <2>1 DEF Periodic, Ash, Round
<1>2. T \in SUBSET Nat /\ T # {}
  BY <1>0, <1>1 DEF Round
<1>3. Least(T) \in T /\ \A y \in T : Least(T) <= y
  <2> HIDE DEF T
  <2> QED BY <1>2, LeastIsLeast
<1>4. TruePeriod(t) = Least(T)
  BY DEF TruePeriod
<1> QED BY <1>3, <1>4 DEF Round

\* So is the first generation from which it does.
LEMMA LifeKnown ==
  ASSUME NEW t, IsSoup(t)
  PROVE  /\ TrueLife(t) \in 0 .. Ash(t)
         /\ \A g \in Nat : g >= TrueLife(t) =>
              Population(t, g) = Population(t, g + TruePeriod(t))
         /\ TrueLife(t) > 0 => Population(t, TrueLife(t) - 1)
                                 # Population(t, TrueLife(t) - 1 + TruePeriod(t))
<1> DEFINE per == TruePeriod(t)
           Steady(g) == \A k \in g .. Ash(t) : Population(t, k) = Population(t, k + per)
           T == {g \in 0 .. Ash(t) : Steady(g)}
<1>0. Ash(t) \in Nat /\ per \in Nat \ {0} /\ Periodic(t, per)
  BY SoupKnown, PeriodKnown
<1>1. TrueLife(t) = Least(T)
  BY DEF TrueLife, Ash
<1> HIDE DEF per
<1>2. T \in SUBSET Nat /\ T # {}
  <2>1. ASSUME NEW k \in Ash(t) .. Ash(t) PROVE Population(t, k) = Population(t, k + per)
    BY <1>0, EveryRound
  <2>2. Ash(t) \in T
    BY <1>0, <2>1
  <2> QED BY <2>2
<1>3. Least(T) \in T /\ \A y \in T : Least(T) <= y
  <2> HIDE DEF T
  <2> QED BY <1>2, LeastIsLeast
<1> DEFINE l == Least(T)
<1>4. l \in 0 .. Ash(t) /\ Steady(l)
  BY <1>3
<1>5. \A y \in 0 .. Ash(t) : Steady(y) => l <= y
  BY <1>3
<1> HIDE DEF l, T
<1>6. ASSUME NEW g \in Nat, g >= l PROVE Population(t, g) = Population(t, g + per)
  <2>1. CASE g <= Ash(t)
    BY <1>0, <1>4, <1>6, <2>1
  <2>2. CASE g >= Ash(t)
    BY <1>0, <2>2, EveryRound
  <2> QED BY <1>0, <2>1, <2>2
<1>7. ASSUME l > 0 PROVE Population(t, l - 1) # Population(t, l - 1 + per)
  <2> SUFFICES ASSUME Population(t, l - 1) = Population(t, l - 1 + per) PROVE FALSE
    OBVIOUS
  <2>1. l - 1 \in 0 .. Ash(t)
    BY <1>0, <1>4, <1>7
  <2>2. Steady(l - 1)
    <3> SUFFICES ASSUME NEW k \in l - 1 .. Ash(t)
                 PROVE  Population(t, k) = Population(t, k + per)
      OBVIOUS
    <3>1. k = l - 1 \/ (k \in Nat /\ k >= l)
      BY <1>0, <1>4, <1>7
    <3> QED BY <1>6, <3>1
  <2>3. l <= l - 1
    BY <1>5, <2>1, <2>2
  <2> QED BY <1>4, <2>3
<1> QED BY <1>1, <1>4, <1>6, <1>7 DEF l, per

\* A period that a window of a round or more bears out is one for ever, and not
\* less than the true one.
LEMMA WindowTells ==
  ASSUME NEW t, IsSoup(t), NEW r \in Nat \ {0}, r < TruePeriod(t),
         NEW G \in Nat, TrueLife(t) + TruePeriod(t) <= G,
         NEW W \in Nat, TruePeriod(t) <= W,
         \A k \in G .. G + W - 1 : Population(t, k) = Population(t, k - r)
  PROVE  FALSE
<1> DEFINE per == TruePeriod(t)  life == TrueLife(t)
           T == {x \in Nat : x >= G /\ Population(t, x) # Population(t, x - r)}
<1>0. /\ Ash(t) \in Nat /\ Round(t) \in Nat \ {0} /\ per \in 1 .. Round(t) /\ life \in Nat
      /\ \A n \in 1 .. Round(t) : Periodic(t, n) => per <= n
      /\ \A g \in Nat : g >= life => Population(t, g) = Population(t, g + per)
  BY SoupKnown, PeriodKnown, LifeKnown
<1>00. r < per /\ life + per <= G /\ per <= W
  OBVIOUS
<1> HIDE DEF per, life
<1>1. T = {}
  <2> SUFFICES ASSUME T # {} PROVE FALSE
    OBVIOUS
  <2>1. PICK x \in T : \A y \in T : x <= y
    <3>1. T \in SUBSET Nat
      OBVIOUS
    <3> HIDE DEF T
    <3> QED BY <3>1, FirstOf
  <2>2. x \in Nat /\ x >= G /\ Population(t, x) # Population(t, x - r)
    OBVIOUS
  <2>3. x >= G + W
    BY <2>2
  <2>4. PICK y \in Nat : x = y + per /\ y >= G
    <3>1. x - per \in Nat /\ x = (x - per) + per /\ x - per >= G
      BY <1>0, <1>00, <2>2, <2>3
    <3> QED BY <3>1, Zenon
  <2>5. Population(t, x) = Population(t, y)
    BY <1>0, <1>00, <2>4
  <2>6. Population(t, x - r) = Population(t, y - r)
    <3>1. y - r \in Nat /\ y - r >= life /\ (y - r) + per = x - r
      BY <1>0, <1>00, <2>4
    <3> QED BY <1>0, <3>1
  <2>7. y \in T
    BY <2>2, <2>4, <2>5, <2>6
  <2> QED BY <1>0, <2>1, <2>4, <2>7
<1>2. \A x \in Nat : x >= G => Population(t, x) = Population(t, x - r)
  BY <1>1
<1> HIDE DEF T
<1>3. ASSUME NEW k \in 0 .. Round(t) - 1
      PROVE  Population(t, Ash(t) + k) = Population(t, Ash(t) + k + r)
  <2> DEFINE x == Ash(t) + k + Round(t) * G
  <2>1. Round(t) * G >= G /\ Round(t) * G \in Nat
    <3>1. PICK c \in Nat : Round(t) = c + 1
      <4>1. Round(t) - 1 \in Nat /\ Round(t) = (Round(t) - 1) + 1
        BY <1>0
      <4> QED BY <4>1, Zenon
    <3>2. (c + 1) * G = c * G + G /\ c * G >= 0 /\ c * G \in Nat
      OBVIOUS
    <3> QED BY <3>1, <3>2
  <2>2. /\ x \in Nat /\ x + r \in Nat /\ x + r >= G /\ (x + r) - r = x
        /\ x + r = Ash(t) + (k + r) + Round(t) * G
        /\ k \in Nat /\ k + r \in Nat /\ Ash(t) + (k + r) = Ash(t) + k + r
    BY <1>0, <2>1
  <2>3. Population(t, x + r) = Population(t, x)
    <3> HIDE DEF x
    <3> QED BY <1>2, <2>2
  <2>4. Population(t, Ash(t) + k + Round(t) * G) = Population(t, Ash(t) + k)
    BY <2>2, RoundsLater
  <2>5. Population(t, Ash(t) + (k + r) + Round(t) * G) = Population(t, Ash(t) + (k + r))
    BY <2>2, RoundsLater
  <2>6. Population(t, x + r) = Population(t, Ash(t) + k + r)
    <3> HIDE DEF x
    <3> QED BY <2>2, <2>5
  <2> QED BY <2>3, <2>4, <2>6
<1>4. Periodic(t, r)
  BY <1>3 DEF Periodic, Ash, Round
<1>5. r \in 1 .. Round(t)
  BY <1>0, <1>00
<1>6. per <= r
  BY <1>0, <1>4, <1>5
<1> QED BY <1>0, <1>00, <1>6

-----------------------------------------------------------------------------
(* How long a soup lasts.                                                  *)

\* What has been sampled when the search for the period begins.
LEMMA Sampled ==
  ASSUME IInv, stage = "settle"
  PROVE  /\ IsSoup(task) /\ task.gensElapsed \in Nat
         /\ ngens = task.gensElapsed + window /\ window \in Nat /\ lifeperiod <= window
         /\ \A k \in 0 .. ngens - 1 : poplist[k] = Population(task, k)
<1>1. /\ task \in Tasks /\ task.kind = "lifespan" /\ task.start = 0 /\ task.stepsize = 1
      /\ task.gensElapsed \in Nat
  BY TaskFields DEF IInv, KindOfStage
<1>2. ngens = task.gensElapsed + window
  BY <1>1 DEF ngens
<1>3. ASSUME NEW k \in 0 .. ngens - 1 PROVE poplist[k] = Population(task, k)
  <2>1. poplist[k] = IF Written(k) THEN Population(task, task.start + k) ELSE 0
    BY <1>1 DEF IInv, PopseqIsHistory
  <2>2. k \in Nat /\ k % 1 = 0
    BY <1>1, <1>2, SizesAssumption
  <2>3. Written(k)
    BY <1>1, <2>2 DEF Written
  <2> QED BY <1>1, <2>1, <2>2, <2>3
<1> QED BY <1>1, <1>2, <1>3, SizesAssumption DEF IsSoup

\* No period below the true one passes the test, and the true one does, without
\* a look before the sequence.
LEMMA SettledTells ==
  ASSUME IInv, stage = "settle", FoundStable(task), p <= TruePeriod(task),
         NEW s \in Settled(p)
  PROVE  s <=> p = TruePeriod(task)
<1> DEFINE per == TruePeriod(task)  life == TrueLife(task)  G == task.gensElapsed
<1>0. /\ IsSoup(task) /\ G \in Nat /\ ngens = G + window /\ window \in Nat
      /\ lifeperiod <= window /\ lifeperiod \in Nat
      /\ \A k \in 0 .. ngens - 1 : poplist[k] = Population(task, k)
  BY Sampled, SizesAssumption
<1>1. per \in Nat /\ life \in Nat /\ per < lifeperiod /\ life + per <= G /\ p \in Nat \ {0}
  <2>1. per \in 1 .. Round(task) /\ life \in 0 .. Ash(task) /\ Ash(task) \in Nat
        /\ Round(task) \in Nat
    BY <1>0, SoupKnown, PeriodKnown, LifeKnown
  <2> QED BY <2>1 DEF FoundStable, IInv, TypeOK
<1>2. s \in BOOLEAN
      /\ (s <=> \A k \in {k \in G .. ngens - 1 : k >= p} : poplist[k] = poplist[k - p])
  <2> DEFINE repeats == \A k \in {k \in G .. ngens - 1 : k >= p} : poplist[k] = poplist[k - p]
  <2>1. G >= p
    BY <1>0, <1>1
  <2>2. s \in BOOLEAN /\ IF G >= p THEN s = repeats ELSE s => repeats
    BY Zenon DEF Settled
  <2> HIDE DEF repeats
  <2>3. s \in BOOLEAN /\ (s <=> repeats)
    BY <2>1, <2>2, Zenon
  <2> QED BY <2>3 DEF repeats
<1>3. \A k \in G .. ngens - 1 : /\ k >= p /\ k - p \in 0 .. ngens - 1 /\ k \in 0 .. ngens - 1
                                /\ k - p \in Nat
  BY <1>0, <1>1
<1>4. s <=> \A k \in G .. ngens - 1 : Population(task, k) = Population(task, k - p)
  BY <1>0, <1>2, <1>3
<1>5. ASSUME p = per, NEW k \in G .. ngens - 1
      PROVE  Population(task, k) = Population(task, k - p)
  <2>1. k - p \in Nat /\ k - p >= life /\ (k - p) + per = k
    BY <1>0, <1>1, <1>3, <1>5
  <2> QED BY <1>0, <2>1, LifeKnown
<1>6. ASSUME p < per, \A k \in G .. ngens - 1 : Population(task, k) = Population(task, k - p)
      PROVE  FALSE
  <2>1. per <= window /\ p \in Nat \ {0}
    BY <1>0, <1>1
  <2>2. \A k \in G .. G + window - 1 : Population(task, k) = Population(task, k - p)
    BY <1>0, <1>6
  <2> QED BY <1>0, <1>1, <1>6, <2>1, <2>2, WindowTells
<1>7. CASE p = per
  BY <1>2, <1>4, <1>5, <1>7
<1>8. CASE p < per
  BY <1>1, <1>2, <1>4, <1>6, <1>8
<1> QED BY <1>1, <1>7, <1>8

\* The backward scan ends at the last change, save that it takes a soup that
\* changes only after generation 0 for one that never does.
LEMMA ScanTells ==
  ASSUME IInv, stage = "settle", FoundStable(task)
  PROVE  Lifespan(TruePeriod(task)) =
           IF TrueLife(task) <= 1 THEN 0 ELSE TrueLife(task)
<1> DEFINE per == TruePeriod(task)  life == TrueLife(task)
           differ == {k \in 1 .. ngens - (per + 1) : poplist[k] # poplist[k + per]}
<1>0. /\ IsSoup(task) /\ task.gensElapsed \in Nat /\ ngens = task.gensElapsed + window
      /\ window \in Nat /\ \A k \in 0 .. ngens - 1 : poplist[k] = Population(task, k)
  BY Sampled
<1>1. /\ per \in Nat \ {0} /\ life \in Nat /\ life + per <= ngens
      /\ \A g \in Nat : g >= life => Population(task, g) = Population(task, g + per)
      /\ life > 0 => Population(task, life - 1) # Population(task, life - 1 + per)
  <2>1. /\ per \in 1 .. Round(task) /\ life \in 0 .. Ash(task) /\ Ash(task) \in Nat
        /\ Round(task) \in Nat
        /\ \A g \in Nat : g >= life => Population(task, g) = Population(task, g + per)
        /\ life > 0 => Population(task, life - 1) # Population(task, life - 1 + per)
    BY <1>0, SoupKnown, PeriodKnown, LifeKnown
  <2> QED BY <1>0, <2>1 DEF FoundStable
<1>2. Lifespan(per) = IF differ = {} THEN 0 ELSE Max(differ) + 1
  BY DEF Lifespan, FirstSteady
<1> HIDE DEF per, life
<1>3. ASSUME NEW k \in 1 .. ngens - (per + 1)
      PROVE  poplist[k] = Population(task, k) /\ poplist[k + per] = Population(task, k + per)
             /\ k \in Nat
  <2>1. k \in 0 .. ngens - 1 /\ k + per \in 0 .. ngens - 1 /\ k \in Nat
    BY <1>0, <1>1
  <2> QED BY <1>0, <2>1
<1>4. ASSUME NEW k \in differ PROVE k \in Nat /\ k >= 1 /\ k <= life - 1
  <2>1. k \in 1 .. ngens - (per + 1) /\ poplist[k] # poplist[k + per]
    OBVIOUS
  <2>2. k \in Nat /\ Population(task, k) # Population(task, k + per)
    BY <1>3, <2>1
  <2>3. ~(k >= life)
    BY <1>1, <2>2
  <2> QED BY <1>0, <1>1, <2>1, <2>2, <2>3
<1>5. CASE life <= 1
  <2>1. differ = {}
    BY <1>1, <1>4, <1>5
  <2> QED BY <1>2, <1>5, <2>1 DEF life, per
<1>6. CASE life > 1
  <2>1. life - 1 \in 1 .. ngens - (per + 1)
    BY <1>0, <1>1, <1>6
  <2>2. life - 1 \in differ
    BY <1>1, <1>3, <1>6, <2>1
  <2> HIDE DEF differ
  <2>3. Max(differ) \in differ /\ Max(differ) >= life - 1
    <3>1. \A k \in differ : life - 1 >= k
      BY <1>1, <1>4
    <3> QED BY <2>2, <3>1 DEF Max
  <2>4. Max(differ) = life - 1
    BY <1>1, <1>4, <2>3
  <2> QED BY <1>1, <1>2, <1>6, <2>2, <2>4 DEF life, per
<1> QED BY <1>1, <1>5, <1>6

\* A lifespan that the scan takes for 0 earns nothing either.
LEMMA ShortEarnsNothing ==
  ASSUME NEW t
  PROVE  /\ Earned(t, 1) = Earned(t, 0)
         /\ \A n \in Nat : n < (IF t.nonempty THEN rerunFull ELSE rerunEmpty) => Earned(t, n) = {}
<1>1. /\ rerunEmpty \in Nat /\ rerunEmpty > 1 /\ rerunFull \in Nat /\ rerunFull > 1
      /\ methuselah \in Nat /\ rerunEmpty <= methuselah /\ rerunFull <= methuselah
  BY SizesAssumption
<1> QED BY <1>1 DEF Earned

\* A soup that is run again is not large, or nothing is left of it.
Ran ==
  stage \in {"sample", "settle"} /\ task.kind = "lifespan" => ~(task.large /\ task.nonempty)

\* No period above the true one is tried on a soup that has settled.
BelowTrue ==
  stage = "settle" /\ FoundStable(task) => p <= TruePeriod(task)

LifeInv == IInv /\ Ran /\ BelowTrue /\ LifespanExact

LEMMA EnterLife == ASSUME LifeInv, Enter PROVE BelowTrue' /\ LifespanExact'
<1>1. /\ stage = "enter" /\ stage' \in {"sample", "done"} /\ UNCHANGED <<task, p>> /\ p = 1
      /\ task \in Tasks
      /\ stage' = "done" => /\ task.kind = "lifespan" /\ answer'.codes = {}
                            /\ (task.large /\ task.nonempty) \/ ~rerun(task)
  BY DEF Enter, LifeInv, IInv, PeriodFound, KindOfStage
<1>2. BelowTrue'
  BY <1>1 DEF BelowTrue
<1>3. LifespanExact'
  <2>1. SUFFICES ASSUME stage' = "done", FoundStable(task)
                 PROVE  /\ answer'.codes = IF task.large /\ task.nonempty THEN {}
                                           ELSE Earned(task, TrueLife(task))
                        /\ p <= TruePeriod(task)
    BY <1>1 DEF LifespanExact
  <2>2. IsSoup(task)
    BY <1>1, <2>1 DEF IsSoup
  <2>3. /\ TruePeriod(task) \in Nat \ {0} /\ TrueLife(task) \in Nat
        /\ TrueLife(task) + TruePeriod(task) <= task.gensElapsed /\ task.gensElapsed \in Nat
    BY <2>1, <2>2, SoupKnown, PeriodKnown, LifeKnown DEF FoundStable
  <2>4. ~rerun(task) => Earned(task, TrueLife(task)) = {}
    <3> DEFINE b == IF task.nonempty THEN rerunFull ELSE rerunEmpty
    <3>1. ~rerun(task) => ~(task.gensElapsed >= b)
      BY DEF rerun
    <3>2. b \in Nat
      BY SizesAssumption
    <3>3. ~rerun(task) => TrueLife(task) < b
      <4> HIDE DEF b
      <4> QED BY <2>3, <3>1, <3>2
    <3> QED BY <2>3, <3>3, ShortEarnsNothing
  <2>5. p <= TruePeriod(task)
    BY <1>1, <2>3
  <2>6. CASE task.large /\ task.nonempty
    BY <1>1, <2>1, <2>5, <2>6, Zenon
  <2>7. CASE ~(task.large /\ task.nonempty)
    BY <1>1, <2>1, <2>4, <2>5, <2>7, Zenon
  <2> QED BY <2>6, <2>7
<1> QED BY <1>2, <1>3

LEMMA TryLifePeriodLife == ASSUME LifeInv, TryLifePeriod PROVE BelowTrue' /\ LifespanExact'
<1>1. /\ IInv /\ stage = "settle" /\ UNCHANGED task /\ p \in Nat \ {0} /\ lifeperiod \in Nat
      /\ task \in Tasks
  BY SizesAssumption DEF LifeInv, TryLifePeriod, IInv, TypeOK, KindOfStage
<1>2. SUFFICES ASSUME FoundStable(task)
               PROVE  /\ stage' = "settle" => p' <= TruePeriod(task)
                      /\ stage' = "done" =>
                           /\ answer'.codes = IF task.large /\ task.nonempty THEN {}
                                              ELSE Earned(task, TrueLife(task))
                           /\ p' <= TruePeriod(task)
  BY <1>1 DEF BelowTrue, LifespanExact
<1>3. PICK s \in Settled(p) :
        IF s THEN stage' = "done" /\ p' = p /\ answer' = Rated(task, Lifespan(p))
        ELSE IF p + 1 < lifeperiod THEN stage' = "settle" /\ p' = p + 1 /\ answer' = answer
        ELSE stage' = "done" /\ p' = p + 1 /\ answer' = Rated(task, 0)
  BY DEF TryLifePeriod
<1>4. p <= TruePeriod(task)
  BY <1>1, <1>2 DEF LifeInv, BelowTrue
<1>5. s <=> p = TruePeriod(task)
  BY <1>1, <1>2, <1>3, <1>4, SettledTells
<1>6. /\ TruePeriod(task) \in Nat /\ TrueLife(task) \in Nat /\ TruePeriod(task) < lifeperiod
  <2>1. IsSoup(task)
    BY <1>1, Sampled
  <2> QED BY <1>2, <2>1, SoupKnown, PeriodKnown, LifeKnown DEF FoundStable
<1>7. CASE p = TruePeriod(task)
  <2>1. stage' = "done" /\ p' = p /\ answer'.codes = Earned(task, Lifespan(p))
    BY <1>3, <1>5, <1>7 DEF Rated
  <2>2. ~(task.large /\ task.nonempty)
    BY <1>1 DEF LifeInv, Ran, IInv, KindOfStage
  <2>3. Earned(task, Lifespan(p)) = Earned(task, TrueLife(task))
    <3>1. Lifespan(p) = IF TrueLife(task) <= 1 THEN 0 ELSE TrueLife(task)
      BY <1>1, <1>2, <1>7, ScanTells
    <3>2. TrueLife(task) <= 1 => TrueLife(task) \in {0, 1}
      BY <1>6
    <3> QED BY <3>1, <3>2, ShortEarnsNothing
  <2> QED BY <1>4, <2>1, <2>2, <2>3
<1>8. CASE p # TruePeriod(task)
  <2>1. p + 1 <= TruePeriod(task)
    BY <1>1, <1>4, <1>6, <1>8
  <2>2. p + 1 < lifeperiod
    BY <1>1, <1>6, <2>1
  <2> QED BY <1>3, <1>5, <1>8, <2>1, <2>2
<1> QED BY <1>7, <1>8

LEMMA OtherLife ==
  ASSUME LifeInv, Sample \/ EndSampling \/ TryPeriod \/ TryQeriod \/ Accumulate \/ EndMoments
                  \/ Powerlyse \/ UNCHANGED vars
  PROVE  Ran' /\ BelowTrue' /\ LifespanExact'
<1>1. CASE UNCHANGED vars
  BY <1>1 DEF vars, LifeInv, Ran, BelowTrue, LifespanExact
<1>2. CASE Sample \/ EndSampling
  <2>1. /\ UNCHANGED <<task, p>> /\ stage = "sample" /\ task \in Tasks
        /\ stage' \in {"sample", "settle", "period"} /\ p = 1
    BY <1>2 DEF Sample, EndSampling, LifeInv, IInv, PeriodFound, KindOfStage
  <2>2. stage' = "settle" => task.kind = "lifespan"
    BY <1>2, TaskFields, <2>1 DEF Sample, EndSampling, Kinds
  <2>3. stage' = "settle" => 1 <= TruePeriod(task)
    <3>1. ASSUME IsSoup(task) PROVE 1 <= TruePeriod(task)
      <4>1. TruePeriod(task) \in 1 .. Round(task) /\ Round(task) \in Nat
        BY <3>1, PeriodKnown, SoupKnown
      <4> QED BY <4>1
    <3> QED BY <2>1, <2>2, <3>1 DEF IsSoup
  <2> QED BY <2>1, <2>3 DEF LifeInv, Ran, BelowTrue, LifespanExact
<1>3. CASE TryPeriod \/ TryQeriod \/ Accumulate \/ EndMoments \/ Powerlyse
  <2>1. /\ task' = task /\ task.kind = "growth"
        /\ stage' \in {"period", "qeriod", "moments", "power", "done"}
    BY <1>3 DEF TryPeriod, TryQeriod, Accumulate, EndMoments, Powerlyse, LifeInv, IInv, KindOfStage
  <2> QED BY <2>1 DEF Ran, BelowTrue, LifespanExact
<1> QED BY <1>1, <1>2, <1>3

LEMMA NextLife == LifeInv /\ [Next]_vars => LifeInv'
<1> SUFFICES ASSUME LifeInv, [Next]_vars PROVE LifeInv'
  OBVIOUS
<1>1. IInv'
  BY NextIInv DEF LifeInv
<1>2. CASE Enter
  <2>1. Ran'
    BY <1>2 DEF Enter, Ran
  <2> QED BY <1>1, <1>2, <2>1, EnterLife DEF LifeInv
<1>3. CASE TryLifePeriod
  <2>1. Ran'
    BY <1>3 DEF TryLifePeriod, Ran, LifeInv
  <2> QED BY <1>1, <1>3, <2>1, TryLifePeriodLife DEF LifeInv
<1> QED BY <1>1, <1>2, <1>3, OtherLife DEF Next, Terminated, LifeInv

\* A soup that had settled when it was taken for stable is rated by its true
\* lifespan, and nothing is read from before its start.
THEOREM LifespansAreExact == Spec => []LifespanExact
<1>1. Init => LifeInv
  BY InitIInv DEF Init, LifeInv, Ran, BelowTrue, LifespanExact
<1>2. LifeInv => LifespanExact
  BY DEF LifeInv
<1> QED BY <1>1, <1>2, NextLife, PTL DEF Spec

-----------------------------------------------------------------------------
(* Induction.                                                              *)

\* A set that holds 0 and the successor of each of its numbers holds them all.
LEMMA SetInduction ==
  ASSUME NEW T \in SUBSET Nat, 0 \in T, \A n \in T : n + 1 \in T
  PROVE  T = Nat
<1> DEFINE LessThan == {ss \in Nat \X Nat : ss[1] < ss[2]}
           R == Nat \ T
<1>1. IsWellFoundedOn(LessThan, Nat)
  BY NatLessThanWellFounded DEF OpToRel
<1>2. \A m, n \in Nat : m < n => <<m, n>> \in LessThan
  OBVIOUS
<1> HIDE DEF LessThan
<1>3. SUFFICES ASSUME R # {} PROVE FALSE
  OBVIOUS
<1>4. R \in SUBSET Nat
  OBVIOUS
<1> HIDE DEF R
<1>5. PICK x \in R : \A y \in R : <<y, x>> \notin LessThan
  BY <1>1, <1>3, <1>4, WFMin, Zenon
<1> USE DEF R
<1>6. x \in Nat /\ x # 0 /\ x \notin T
  OBVIOUS
<1>7. x - 1 \in Nat /\ x - 1 < x /\ (x - 1) + 1 = x
  BY <1>6
<1>8. x - 1 \in R
  BY <1>6, <1>7
<1> QED BY <1>2, <1>5, <1>6, <1>7, <1>8

-----------------------------------------------------------------------------
(* A pattern that grows linearly.                                          *)

IsLinear(t) == t \in Tasks /\ LinearTask(t)

LEMMA LinearKnown ==
  ASSUME NEW t, IsLinear(t)
  PROVE  /\ t.stepsize \in Nat \ {0} /\ t.growth \in Nat /\ t.start \in Nat
         /\ t.start % t.stepsize = 0 /\ t.kind = "growth"
         /\ Len(t.cycle) \in Nat \ {0} /\ Lap(t) = Len(t.cycle) * t.stepsize
         /\ Lap(t) \in Nat \ {0} /\ Lap(t) <= maxperiod /\ maxperiod \in Nat
         /\ t.stepsize <= Lap(t) /\ Len(t.cycle) <= Lap(t) /\ Lap(t) % t.stepsize = 0
<1> DEFINE s == t.stepsize  c == Len(t.cycle)
<1>1. /\ s \in Nat \ {0} /\ t.growth \in Nat /\ t.start \in Nat /\ t.start % s = 0
      /\ t.kind = "growth" /\ c * s <= maxperiod /\ t.cycle \in Seq(Nat) /\ t.cycle # <<>>
  BY TasksAssumption DEF IsLinear, LinearTask
<1>2. c \in Nat \ {0}
  BY <1>1
<1>3. Lap(t) = c * s
  BY DEF Lap
<1> HIDE DEF s, c
<1>4. c * s \in Nat /\ c * s >= s /\ c * s >= c /\ (c * s) % s = 0
  <2>1. PICK a \in Nat, b \in Nat : c = a + 1 /\ s = b + 1
    <3>1. c - 1 \in Nat /\ s - 1 \in Nat /\ c = (c - 1) + 1 /\ s = (s - 1) + 1
      BY <1>1, <1>2
    <3> QED BY <3>1, Zenon
  <2>2. c * s = a * b + a + b + 1 /\ a * b \in Nat
    BY <2>1
  <2>3. (c * s) % s = 0
    BY <1>1, <1>2, Multiples
  <2> QED BY <2>1, <2>2, <2>3
<1> QED BY <1>1, <1>2, <1>3, <1>4, SizesAssumption DEF s, c

LEMMA QuotientOf ==
  ASSUME NEW c \in Nat \ {0}, NEW m \in Nat, NEW r \in 0 .. c - 1
  PROVE  (c * m + r) \div c = m
<1> DEFINE a == c * m + r  d == a \div c
<1>1. a \in Nat /\ a % c = r
  BY RemainderOf
<1>2. d \in Nat /\ a = d * c + r
  <2> HIDE DEF a
  <2> QED BY <1>1
<1> HIDE DEF d
<1>3. d * c + r = m * c + r /\ d * c \in Nat /\ m * c \in Nat
  BY <1>2
<1>4. ~(d < m)
  <2>1. d < m => d * c + c <= m * c
    BY <1>2, Monotone
  <2> QED BY <1>3, <2>1
<1>5. ~(m < d)
  <2>1. m < d => m * c + c <= d * c
    BY <1>2, Monotone
  <2> QED BY <1>3, <2>1
<1>6. d = m
  BY <1>2, <1>4, <1>5
<1> QED BY <1>6 DEF d

\* The population of a lap later is that of a step of growth for every cycle.
LEMMA LinearPopulation ==
  ASSUME NEW t, IsLinear(t), NEW k \in Nat
  PROVE  /\ Population(t, k) \in Nat
         /\ Population(t, k + Lap(t)) = Population(t, k) + t.stepsize * t.growth
         /\ k >= Lap(t) => Population(t, k) >= t.growth
<1> DEFINE s == t.stepsize  c == Len(t.cycle)  G == t.growth
           P(g) == Population(t, g)
<1>0. /\ s \in Nat \ {0} /\ c \in Nat \ {0} /\ G \in Nat /\ Lap(t) = c * s /\ c <= Lap(t)
      /\ Lap(t) \in Nat
  BY LinearKnown
<1>1. t \in Tasks /\ t.tail = <<>> /\ t.cycle \in Seq(Nat)
  BY TasksAssumption DEF IsLinear, LinearTask
<1>2. Len(t.tail) = 0
  BY <1>1
<1>00. \A r \in 0 .. c - 1 : t.cycle[r + 1] \in Nat
  BY <1>1
<1>3. ASSUME NEW g \in Nat, NEW m \in Nat, NEW r \in 0 .. c - 1, g = c * m + r
      PROVE  P(g) = t.cycle[r + 1] + m * G /\ t.cycle[r + 1] \in Nat
  <2>1. g % c = r
    BY <1>0, <1>3, RemainderOf
  <2>2. g \div c = m
    BY <1>0, <1>3, QuotientOf
  <2>3. P(g) = IF g < Len(t.tail) THEN t.tail[g + 1]
               ELSE t.cycle[((g - Len(t.tail)) % c) + 1] + ((g - Len(t.tail)) \div c) * G
    BY DEF Population
  <2>4. g - 0 = g /\ ~(g < 0)
    OBVIOUS
  <2>5. P(g) = t.cycle[r + 1] + m * G
    BY <1>2, <2>1, <2>2, <2>3, <2>4, Zenon
  <2>6. t.cycle[r + 1] \in Nat
    BY <1>00
  <2> QED BY <2>5, <2>6
<1> HIDE DEF P, s, c, G
<1>4. PICK m \in Nat, r \in 0 .. c - 1 : k = c * m + r
  BY <1>0, Divided
<1>5. P(k) = t.cycle[r + 1] + m * G /\ t.cycle[r + 1] \in Nat
  BY <1>3, <1>4
<1>6. m * G \in Nat
  BY <1>0
<1>7. P(k + Lap(t)) = P(k) + s * G
  <2>1. m + s \in Nat /\ k + c * s \in Nat /\ k + c * s = c * (m + s) + r
    BY <1>0, <1>4
  <2>2. P(k + c * s) = t.cycle[r + 1] + (m + s) * G
    BY <1>3, <2>1
  <2>3. (m + s) * G = m * G + s * G /\ s * G \in Nat
    BY <1>0
  <2> QED BY <1>0, <1>5, <1>6, <2>2, <2>3
<1>8. ASSUME k >= Lap(t) PROVE P(k) >= G
  <2>1. m # 0
    BY <1>0, <1>4, <1>8
  <2>2. PICK d \in Nat : m = d + 1
    <3>1. m - 1 \in Nat /\ m = (m - 1) + 1
      BY <2>1
    <3> QED BY <3>1, Zenon
  <2>3. m * G = d * G + G /\ d * G \in Nat
    BY <1>0, <2>2
  <2> QED BY <1>0, <1>5, <2>3
<1> QED BY <1>0, <1>5, <1>6, <1>7, <1>8 DEF P, s, G

\* A multiple of the step moves no remainder.
LEMMA SameRemainder ==
  ASSUME NEW s \in Nat \ {0}, NEW a \in Nat, a % s = 0, NEW k \in Nat
  PROVE  (k + a) % s = k % s
<1>1. PICK m \in Nat : a = s * m
  <2>1. a \div s \in Nat /\ a = s * (a \div s)
    OBVIOUS
  <2> QED BY <2>1, Zenon
<1> QED BY <1>1, WholeLaps

LEMMA SeenKnown ==
  ASSUME NEW t, IsLinear(t), NEW k \in Nat
  PROVE  /\ Seen(t, k) \in Nat
         /\ k % t.stepsize # 0 => Seen(t, k) = 0
         /\ Seen(t, k + Lap(t)) = Seen(t, k) + (IF k % t.stepsize = 0
                                                THEN t.stepsize * t.growth ELSE 0)
         /\ k % t.stepsize = 0 /\ k >= Lap(t) => Seen(t, k) >= t.growth
<1>1. (k + Lap(t)) % t.stepsize = k % t.stepsize /\ k + Lap(t) \in Nat
  <2> DEFINE s == t.stepsize  L == Lap(t)
  <2>1. s \in Nat \ {0} /\ L \in Nat /\ L % s = 0
    BY LinearKnown
  <2> HIDE DEF s, L
  <2>2. (k + L) % s = k % s
    BY <2>1, SameRemainder
  <2> QED BY <2>1, <2>2 DEF s, L
<1> QED BY <1>1, LinearPopulation DEF Seen

\* Differences over the step n repeat every lap, if there is no growth or if n
\* is a multiple of stepsize.
Tame(t, n) == t.growth = 0 \/ n % t.stepsize = 0

LEMMA StepLaps ==
  ASSUME NEW t, IsLinear(t), NEW n \in Nat, Tame(t, n), NEW k \in Nat
  PROVE  Step(t, n, k) \in Int /\ Step(t, n, k + Lap(t)) = Step(t, n, k)
<1> DEFINE s == t.stepsize  L == Lap(t)  gain == s * t.growth
<1>0. /\ s \in Nat \ {0} /\ L \in Nat /\ t.growth \in Nat /\ k + n \in Nat
      /\ (k + L) + n = (k + n) + L
  BY LinearKnown
<1>1. /\ Seen(t, k) \in Nat /\ Seen(t, k + n) \in Nat
      /\ Seen(t, k + L) = Seen(t, k) + (IF k % s = 0 THEN gain ELSE 0)
      /\ Seen(t, (k + n) + L) = Seen(t, k + n) + (IF (k + n) % s = 0 THEN gain ELSE 0)
  BY <1>0, SeenKnown
<1>2. gain \in Nat
  BY <1>0
<1>3. t.growth = 0 => gain = 0
  BY <1>0
<1>4. n % s = 0 => (k + n) % s = k % s
  BY <1>0, SameRemainder
<1>5. /\ Step(t, n, k) = Seen(t, k + n) - Seen(t, k)
      /\ Step(t, n, k + L) = Seen(t, (k + n) + L) - Seen(t, k + L)
  BY <1>0 DEF Step
<1> HIDE DEF gain, L, s
<1>6. CASE t.growth = 0
  BY <1>1, <1>3, <1>5, <1>6 DEF L
<1>7. CASE n % s = 0
  BY <1>1, <1>2, <1>4, <1>5, <1>7 DEF L
<1> QED BY <1>6, <1>7 DEF Tame, s

\* What a window of a lap says of the differences holds at every place.
Agrees(t, n, r, b, w) == \A k \in b .. b + w - 1 : Step(t, n, k) = Step(t, n, k + r)

\* A number of laps later the difference is the same.
LEMMA ManyLaps ==
  ASSUME NEW t, IsLinear(t), NEW n \in Nat, Tame(t, n), NEW k \in Nat, NEW m \in Nat
  PROVE  Step(t, n, k + Lap(t) * m) = Step(t, n, k)
<1> DEFINE L == Lap(t)
           T == {d \in Nat : Step(t, n, k + L * d) = Step(t, n, k)}
<1>0. L \in Nat
  BY LinearKnown
<1>1. 0 \in T
  <2>1. k + L * 0 = k
    BY <1>0
  <2> QED BY <2>1
<1>2. ASSUME NEW d \in T PROVE d + 1 \in T
  <2> DEFINE x == k + L * d
  <2>1. x \in Nat /\ k + L * (d + 1) = x + L /\ d + 1 \in Nat
    BY <1>0
  <2> HIDE DEF x
  <2>2. Step(t, n, x + L) = Step(t, n, x)
    BY <2>1, StepLaps
  <2>3. Step(t, n, x) = Step(t, n, k)
    BY DEF x
  <2> QED BY <2>1, <2>2, <2>3
<1>3. T = Nat
  <2>1. T \in SUBSET Nat
    OBVIOUS
  <2> HIDE DEF T
  <2> QED BY <1>1, <1>2, <2>1, SetInduction
<1> QED BY <1>3

LEMMA AgreesEverywhere ==
  ASSUME NEW t, IsLinear(t), NEW n \in Nat, NEW r \in Nat, NEW b \in Nat, Tame(t, n),
         Agrees(t, n, r, b, Lap(t)), NEW k \in Nat
  PROVE  Step(t, n, k) = Step(t, n, k + r)
<1> DEFINE L == Lap(t)
<1>0. L \in Nat \ {0}
  BY LinearKnown
\* The place in the window that differs from k by whole laps.
<1>1. PICK m \in Nat, d \in 0 .. L - 1 : k + L * b = b + L * m + d
  <2>1. PICK a \in Nat : L = a + 1
    <3>1. L - 1 \in Nat /\ L = (L - 1) + 1
      BY <1>0
    <3> QED BY <3>1, Zenon
  <2>2. L * b = a * b + b /\ a * b \in Nat
    BY <2>1
  <2>3. PICK m \in Nat, d \in 0 .. L - 1 : k + a * b = L * m + d
    <3> HIDE DEF L
    <3> DEFINE z == k + a * b
    <3>1. z \in Nat
      BY <2>2
    <3> HIDE DEF z
    <3>2. \E m \in Nat : \E d \in 0 .. L - 1 : z = L * m + d
      BY <1>0, <3>1, Divided
    <3> QED BY <3>2 DEF z
  <2>4. L * m \in Nat
    BY <1>0
  <2>5. k + L * b = b + L * m + d
    <3> HIDE DEF L
    <3> QED BY <2>2, <2>3, <2>4
  <2> QED BY <2>3, <2>5
<1>2. /\ b + d \in b .. b + L - 1 /\ b + d \in Nat /\ b + d + r \in Nat /\ k + r \in Nat
      /\ k + L * b = (b + d) + L * m /\ (k + r) + L * b = (b + d + r) + L * m
  <2> HIDE DEF L
  <2>1. L * b \in Nat /\ L * m \in Nat
    BY <1>0
  <2> QED BY <1>0, <1>1, <2>1
<1>3. Step(t, n, b + d) = Step(t, n, b + d + r)
  BY <1>2 DEF Agrees
<1>4. Step(t, n, k + L * b) = Step(t, n, k) /\ Step(t, n, (k + r) + L * b) = Step(t, n, k + r)
  BY <1>2, ManyLaps
<1>5. /\ Step(t, n, (b + d) + L * m) = Step(t, n, b + d)
      /\ Step(t, n, (b + d + r) + L * m) = Step(t, n, b + d + r)
  BY <1>2, ManyLaps
<1> QED BY <1>2, <1>3, <1>4, <1>5

\* A window that starts at a sample tells the steps that are no period: some
\* sample beyond it is compared with what lies between samples.
LEMMA PeriodsAreTame ==
  ASSUME NEW t, IsLinear(t), NEW n \in Nat, NEW b \in Nat, b % t.stepsize = 0,
         Agrees(t, n, n, b, Lap(t))
  PROVE  Tame(t, n)
<1> DEFINE s == t.stepsize  L == Lap(t)  e == n % s  k == b + (L - e)
<1>0. /\ s \in Nat \ {0} /\ L \in Nat \ {0} /\ s <= L /\ L % s = 0 /\ t.growth \in Nat
      /\ b % s = 0
  BY LinearKnown
<1> SUFFICES ASSUME n % s # 0 PROVE t.growth = 0
  BY DEF Tame
<1> HIDE DEF s, L
<1>1. PICK m \in Nat : n = s * m + e
  <2>1. n \div s \in Nat /\ n = s * (n \div s) + e
    BY <1>0
  <2> QED BY <2>1, Zenon
<1>2. e \in 1 .. s - 1
  BY <1>0
<1> DEFINE x == s * m
<1>3. x \in Nat /\ x % s = 0
  <2>1. x = m * s
    BY <1>0
  <2> QED BY <1>0, <2>1, Multiples
<1> HIDE DEF x, e
<1>4. n = x + e
  BY <1>1 DEF x
<1>5. /\ k \in b .. b + L - 1 /\ k \in Nat /\ k + n = (b + L) + x
      /\ k + n \in Nat /\ b + L \in Nat /\ k + n >= L
      /\ (k + n) + n = ((x + b) + L) + n /\ (k + n) + n \in Nat
      /\ k + n + n = (k + n) + n
  BY <1>0, <1>2, <1>3, <1>4
<1> HIDE DEF k
<1>6. (b + L) % s = 0 /\ (k + n) % s = 0
  <2>1. (b + L) % s = b % s
    BY <1>0, SameRemainder
  <2>2. ((b + L) + x) % s = (b + L) % s
    <3> DEFINE y == b + L
    <3>1. y \in Nat
      BY <1>5
    <3> HIDE DEF y
    <3>2. (y + x) % s = y % s
      BY <1>0, <1>3, <3>1, SameRemainder
    <3> QED BY <3>2 DEF y
  <2> QED BY <1>0, <1>5, <2>1, <2>2
<1>7. ((k + n) + n) % s = e
  <2>1. (n + (k + n)) % s = n % s
    BY <1>0, <1>5, <1>6, SameRemainder
  <2>2. n + (k + n) = (k + n) + n
    BY <1>5
  <2> QED BY <2>1, <2>2 DEF e
<1>8. k % s # 0
  <2> SUFFICES ASSUME k % s = 0 PROVE FALSE
    OBVIOUS
  <2>1. (n + k) % s = n % s
    BY <1>0, <1>5, SameRemainder
  <2>2. n + k = k + n
    BY <1>5
  <2> QED BY <1>6, <2>1, <2>2
<1>9. Seen(t, k) = 0 /\ Seen(t, (k + n) + n) = 0 /\ Seen(t, k + n) \in Nat
      /\ Seen(t, k + n) >= t.growth
  <2>1. /\ k % t.stepsize # 0 /\ (k + n) % t.stepsize = 0 /\ ((k + n) + n) % t.stepsize # 0
        /\ k + n >= Lap(t)
    BY <1>2, <1>5, <1>6, <1>7, <1>8 DEF s, L
  <2> QED BY <1>5, <2>1, SeenKnown
<1>10. Step(t, n, k) = Step(t, n, k + n)
  BY <1>5 DEF Agrees, L
<1>11. Seen(t, k + n) - Seen(t, k) = Seen(t, (k + n) + n) - Seen(t, k + n)
  BY <1>10 DEF Step
<1> QED BY <1>0, <1>9, <1>11

\* A window as long as a lap or longer, from any sample on, bears out the steps
\* that are periods, and with a period the steps that are qeriods.
LEMMA WindowTellsGrowth ==
  ASSUME NEW t, IsLinear(t), NEW a \in Nat, a % t.stepsize = 0,
         NEW w \in Nat, Lap(t) <= w, NEW n \in Nat
  PROVE  /\ Agrees(t, n, n, a, w) <=> IsPeriod(t, n)
         /\ IsPeriod(t, n) => \A r \in Nat : Agrees(t, n, r, a, w) <=> IsQeriod(t, n, r)
<1> DEFINE L == Lap(t)
<1>0. L \in Nat /\ 0 % t.stepsize = 0
  BY LinearKnown
<1>1. IsPeriod(t, n) <=> Agrees(t, n, n, 0, L)
  BY <1>0 DEF IsPeriod, Agrees
<1>2. ASSUME NEW r \in Nat PROVE IsQeriod(t, n, r) <=> Agrees(t, n, r, 0, L)
  BY <1>0 DEF IsQeriod, Agrees
<1>3. ASSUME NEW r \in Nat, Agrees(t, n, r, a, w) PROVE Agrees(t, n, r, a, L)
  <2>1. \A k \in a .. a + L - 1 : k \in a .. a + w - 1
    BY <1>0
  <2> QED BY <1>3, <2>1 DEF Agrees
<1>4. ASSUME NEW r \in Nat, NEW b \in Nat, NEW v \in Nat, NEW c \in Nat,
             Tame(t, n), Agrees(t, n, r, b, L)
      PROVE  Agrees(t, n, r, c, v)
  <2>1. \A k \in Nat : Step(t, n, k) = Step(t, n, k + r)
    BY <1>4, AgreesEverywhere
  <2>2. \A k \in c .. c + v - 1 : k \in Nat
    OBVIOUS
  <2> QED BY <2>1, <2>2 DEF Agrees
<1>5. IsPeriod(t, n) => Tame(t, n)
  BY <1>0, <1>1, PeriodsAreTame
<1>6. Agrees(t, n, n, a, w) => IsPeriod(t, n)
  <2> SUFFICES ASSUME Agrees(t, n, n, a, w) PROVE IsPeriod(t, n)
    OBVIOUS
  <2>1. Agrees(t, n, n, a, L)
    BY <1>3
  <2>2. Tame(t, n)
    BY <2>1, PeriodsAreTame
  <2> QED BY <1>0, <1>1, <1>4, <2>1, <2>2
<1>7. IsPeriod(t, n) => Agrees(t, n, n, a, w)
  BY <1>0, <1>1, <1>4, <1>5
<1>8. ASSUME IsPeriod(t, n), NEW r \in Nat
      PROVE  Agrees(t, n, r, a, w) <=> IsQeriod(t, n, r)
  BY <1>0, <1>2, <1>3, <1>4, <1>5, <1>8
<1> QED BY <1>6, <1>7, <1>8

\* A lap is a period, so there is a least one; a period is a qeriod of its own.
LEMMA GrowthKnown ==
  ASSUME NEW t, IsLinear(t)
  PROVE  /\ TrueGrowth(t) \in Nat \ {0} /\ TrueGrowth(t) <= Lap(t)
         /\ IsPeriod(t, TrueGrowth(t))
         /\ \A n \in 1 .. Lap(t) : IsPeriod(t, n) => TrueGrowth(t) <= n
         /\ TrueQeriod(t) \in Nat \ {0} /\ TrueQeriod(t) <= TrueGrowth(t)
         /\ IsQeriod(t, TrueGrowth(t), TrueQeriod(t))
         /\ \A r \in 1 .. TrueGrowth(t) :
              IsQeriod(t, TrueGrowth(t), r) => TrueQeriod(t) <= r
<1> DEFINE L == Lap(t)  per == TrueGrowth(t)
           T == {n \in 1 .. L : IsPeriod(t, n)}
           U == {r \in 1 .. per : IsQeriod(t, per, r)}
<1>0. L \in Nat \ {0} /\ L % t.stepsize = 0
  BY LinearKnown
<1>1. IsPeriod(t, L)
  <2>1. ASSUME NEW k \in 0 .. L - 1 PROVE Step(t, L, k) = Step(t, L, k + L)
    BY <1>0, StepLaps DEF Tame
  <2> QED BY <2>1 DEF IsPeriod
<1>2. per \in T /\ \A n \in T : per <= n
  <2>1. T \in SUBSET Nat /\ T # {}
    BY <1>0, <1>1
  <2>2. per = Least(T)
    BY DEF TrueGrowth
  <2> HIDE DEF T
  <2> QED BY <2>1, <2>2, LeastIsLeast
<1>3. per \in 1 .. L /\ IsPeriod(t, per)
  BY <1>2
<1> HIDE DEF per
<1>4. IsQeriod(t, per, per)
  BY <1>3 DEF IsPeriod, IsQeriod
<1>5. TrueQeriod(t) \in U /\ \A r \in U : TrueQeriod(t) <= r
  <2>1. U \in SUBSET Nat /\ U # {}
    BY <1>0, <1>3, <1>4
  <2>2. TrueQeriod(t) = Least(U)
    BY DEF TrueQeriod, per
  <2> HIDE DEF U
  <2> QED BY <2>1, <2>2, LeastIsLeast
<1> QED BY <1>0, <1>2, <1>3, <1>5 DEF per

\* What get_popseq has written is what is seen from the start on.
LEMMA SampledGrowth ==
  ASSUME IInv, LinearTask(task), stage \notin {"enter", "sample", "done"}
  PROVE  /\ IsLinear(task) /\ ngens = 3 * maxperiod /\ maxperiod \in Nat
         /\ \A k \in 0 .. ngens - 1 : poplist[k] = Seen(task, task.start + k)
<1>1. IsLinear(task) /\ ngens = 3 * maxperiod /\ maxperiod \in Nat
  BY SizesAssumption DEF IInv, KindOfStage, IsLinear, LinearTask, ngens
<1>2. ASSUME NEW k \in 0 .. ngens - 1 PROVE poplist[k] = Seen(task, task.start + k)
  <2> DEFINE s == task.stepsize  a == task.start
  <2>0. s \in Nat \ {0} /\ a \in Nat /\ a % s = 0 /\ k \in Nat
    BY <1>1, LinearKnown
  <2>1. poplist[k] = IF k % s = 0 THEN Population(task, a + k) ELSE 0
    BY DEF IInv, PopseqIsHistory, Written
  <2> HIDE DEF s, a
  <2>2. (k + a) % s = k % s
    BY <2>0, SameRemainder
  <2>3. (a + k) % s = k % s
    BY <2>0, <2>2
  <2> QED BY <2>1, <2>3 DEF Seen, s, a
<1> QED BY <1>1, <1>2

\* The search compares what is seen through a window of maxperiod.
LEMMA RepeatsTells ==
  ASSUME IInv, LinearTask(task), stage \notin {"enter", "sample", "done"},
         NEW n \in Nat, NEW r \in Nat, n < maxperiod, r < maxperiod
  PROVE  Repeats(poplist, n, r) <=> Agrees(task, n, r, task.start, maxperiod)
<1> DEFINE a == task.start  M == maxperiod
<1>0. /\ IsLinear(task) /\ ngens = 3 * M /\ M \in Nat /\ a \in Nat
      /\ \A k \in 0 .. ngens - 1 : poplist[k] = Seen(task, a + k)
  BY SampledGrowth, LinearKnown
<1> HIDE DEF a, M
<1>1. ASSUME NEW k \in 0 .. M - 1
      PROVE  /\ diff(poplist, n, k) = Step(task, n, a + k)
             /\ diff(poplist, n, k + r) = Step(task, n, (a + k) + r)
  <2>1. /\ k \in 0 .. ngens - 1 /\ k + n \in 0 .. ngens - 1
        /\ k + r \in 0 .. ngens - 1 /\ k + r + n \in 0 .. ngens - 1
    BY <1>0 DEF M
  <2>2. a + (k + n) = (a + k) + n /\ a + (k + r) = (a + k) + r
        /\ a + (k + r + n) = (a + k) + r + n
    BY <1>0
  <2> QED BY <1>0, <2>1, <2>2 DEF diff, Step
<1>2. ASSUME Repeats(poplist, n, r), NEW j \in a .. a + M - 1
      PROVE  Step(task, n, j) = Step(task, n, j + r)
  <2>1. j - a \in 0 .. M - 1 /\ a + (j - a) = j
    BY <1>0
  <2>2. diff(poplist, n, j - a) = diff(poplist, n, (j - a) + r)
    BY <1>2, <2>1 DEF Repeats, M
  <2> QED BY <1>1, <2>1, <2>2
<1>3. ASSUME Agrees(task, n, r, a, M), NEW k \in 0 .. M - 1
      PROVE  diff(poplist, n, k) = diff(poplist, n, k + r)
  <2>1. a + k \in a .. a + M - 1
    BY <1>0
  <2>2. Step(task, n, a + k) = Step(task, n, (a + k) + r)
    BY <1>3, <2>1 DEF Agrees
  <2> QED BY <1>1, <2>2
<1> QED BY <1>2, <1>3 DEF Agrees, Repeats, a, M

-----------------------------------------------------------------------------
(* Sums.                                                                   *)

\* The sums of the first 0 to n numbers.
AreSums(f, g, n) == /\ f \in [0 .. n -> Int] /\ f[0] = 0
                    /\ \A k \in 0 .. n - 1 : f[k + 1] = f[k] + g[k]

LEMMA SumsExist ==
  ASSUME NEW g, \A k \in Nat : g[k] \in Int, NEW n \in Nat
  PROVE  \E f : AreSums(f, g, n)
<1> DEFINE T == {m \in Nat : \E f : AreSums(f, g, m)}
<1>1. 0 \in T
  <2>1. AreSums([k \in 0 .. 0 |-> 0], g, 0)
    BY DEF AreSums
  <2> QED BY <2>1
<1>2. ASSUME NEW m \in T PROVE m + 1 \in T
  <2>1. PICK f : AreSums(f, g, m)
    OBVIOUS
  <2> DEFINE h == [k \in 0 .. m + 1 |-> IF k = m + 1 THEN f[m] + g[m] ELSE f[k]]
  <2>2. f[m] \in Int /\ g[m] \in Int /\ f[0] = 0 /\ \A k \in 0 .. m : f[k] \in Int
    BY <2>1 DEF AreSums
  <2>3. h \in [0 .. m + 1 -> Int] /\ h[0] = 0
    <3>1. \A k \in 0 .. m + 1 : k # m + 1 => k \in 0 .. m
      OBVIOUS
    <3> QED BY <2>2, <3>1
  <2>4. ASSUME NEW k \in 0 .. m PROVE h[k + 1] = h[k] + g[k]
    <3>1. k \in 0 .. m + 1 /\ k + 1 \in 0 .. m + 1 /\ k # m + 1
      OBVIOUS
    <3>2. h[k] = f[k]
      BY <3>1
    <3>3. CASE k = m
      BY <3>1, <3>2, <3>3
    <3>4. CASE k # m
      <4>1. k \in 0 .. m - 1 /\ k + 1 # m + 1
        BY <3>4
      <4>2. f[k + 1] = f[k] + g[k]
        BY <2>1, <4>1 DEF AreSums
      <4> QED BY <3>1, <3>2, <4>1, <4>2
    <3> QED BY <3>3, <3>4
  <2>5. AreSums(h, g, m + 1)
    <3> HIDE DEF h
    <3>1. \A k \in 0 .. (m + 1) - 1 : k \in 0 .. m
      OBVIOUS
    <3> QED BY <2>3, <2>4, <3>1 DEF AreSums
  <2> QED BY <2>5
<1>3. T = Nat
  <2>1. T \in SUBSET Nat
    OBVIOUS
  <2> HIDE DEF T
  <2> QED BY <1>1, <1>2, <2>1, SetInduction
<1> QED BY <1>3

\* The same numbers have the same sums.
LEMMA SumsAgree ==
  ASSUME NEW g, NEW n \in Nat, NEW m \in Nat, NEW f, NEW h,
         AreSums(f, g, n), AreSums(h, g, m), NEW k \in Nat, k <= n, k <= m
  PROVE  f[k] = h[k]
<1> DEFINE T == {d \in Nat : d <= n /\ d <= m => f[d] = h[d]}
<1>1. 0 \in T
  BY DEF AreSums
<1>2. ASSUME NEW d \in T PROVE d + 1 \in T
  <2> SUFFICES ASSUME d + 1 <= n, d + 1 <= m PROVE f[d + 1] = h[d + 1]
    OBVIOUS
  <2>1. d \in 0 .. n - 1 /\ d \in 0 .. m - 1 /\ f[d] = h[d]
    OBVIOUS
  <2>2. f[d + 1] = f[d] + g[d] /\ h[d + 1] = h[d] + g[d]
    BY <2>1 DEF AreSums
  <2> QED BY <2>1, <2>2
<1>3. T = Nat
  <2>1. T \in SUBSET Nat
    OBVIOUS
  <2> HIDE DEF T
  <2> QED BY <1>1, <1>2, <2>1, SetInduction
<1> QED BY <1>3

\* What Sum computes.
LEMMA SumKnown ==
  ASSUME NEW g, \A k \in Nat : g[k] \in Int
  PROVE  /\ Sum(g, 0) = 0
         /\ \A n \in Nat : Sum(g, n) \in Int /\ Sum(g, n + 1) = Sum(g, n) + g[n]
<1> DEFINE Rest(f) == [k \in Nat |-> IF k = 0 THEN 0 ELSE f[k - 1] + g[k - 1]]
           best(n) == CHOOSE f : AreSums(f, g, n)
           all == [k \in Nat |-> best(k)[k]]
           s == CHOOSE f : f = Rest(f)
<1>1. \A n \in Nat : AreSums(best(n), g, n)
  BY SumsExist, Zenon
<1> HIDE DEF best
<1>2. all[0] = 0
  <2>1. best(0)[0] = 0
    BY <1>1 DEF AreSums
  <2> QED BY <2>1
<1>3. ASSUME NEW n \in Nat PROVE all[n] \in Int /\ all[n + 1] = all[n] + g[n]
  <2>1. n + 1 \in Nat /\ n \in 0 .. n /\ n \in 0 .. (n + 1) - 1 /\ n <= n + 1 /\ n <= n
    OBVIOUS
  <2>2. best(n + 1)[n + 1] = best(n + 1)[n] + g[n]
    BY <1>1, <2>1 DEF AreSums
  <2>3. best(n)[n] \in Int
    BY <1>1, <2>1 DEF AreSums
  <2>4. best(n + 1)[n] = best(n)[n]
    BY <1>1, <2>1, SumsAgree
  <2> QED BY <2>1, <2>2, <2>3, <2>4
<1>4. all = Rest(all)
  <2>1. ASSUME NEW k \in Nat
        PROVE  all[k] = IF k = 0 THEN 0 ELSE all[k - 1] + g[k - 1]
    <3>1. CASE k = 0
      <4> HIDE DEF all
      <4> QED BY <1>2, <3>1
    <3>2. CASE k # 0
      <4>1. k - 1 \in Nat /\ (k - 1) + 1 = k
        BY <3>2
      <4> HIDE DEF all
      <4> QED BY <1>3, <3>2, <4>1
    <3> QED BY <3>1, <3>2
  <2> DEFINE z == all
  <2>2. z = [k \in Nat |-> z[k]]
    OBVIOUS
  <2>3. \A k \in Nat : z[k] = IF k = 0 THEN 0 ELSE z[k - 1] + g[k - 1]
    BY <2>1
  <2> HIDE DEF z
  <2>4. z = Rest(z)
    BY <2>2, <2>3
  <2> QED BY <2>4 DEF z
<1> HIDE DEF all
<1>5. s = Rest(s)
  <2>1. \E f : f = Rest(f)
    BY <1>4, Zenon
  <2> HIDE DEF Rest
  <2> QED BY <2>1, Zenon
<1>6. \A n \in Nat : Sum(g, n) = s[n]
  BY DEF Sum
<1> HIDE DEF s
<1>7. s[0] = 0 /\ \A n \in Nat : s[n + 1] = s[n] + g[n]
  <2>1. ASSUME NEW k \in Nat PROVE s[k] = IF k = 0 THEN 0 ELSE s[k - 1] + g[k - 1]
    BY <1>5, Zenon
  <2>2. s[0] = 0
    BY <2>1
  <2>3. ASSUME NEW n \in Nat PROVE s[n + 1] = s[n] + g[n]
    <3>1. n + 1 \in Nat /\ n + 1 # 0 /\ (n + 1) - 1 = n
      OBVIOUS
    <3> QED BY <2>1, <3>1
  <2> QED BY <2>2, <2>3
<1>8. \A n \in Nat : s[n] \in Int
  <2> DEFINE T == {n \in Nat : s[n] \in Int}
  <2>1. 0 \in T
    BY <1>7
  <2>2. ASSUME NEW n \in T PROVE n + 1 \in T
    <3>1. s[n + 1] = s[n] + g[n] /\ g[n] \in Int /\ s[n] \in Int
      BY <1>7
    <3> QED BY <3>1
  <2>3. T = Nat
    <3>1. T \in SUBSET Nat
      OBVIOUS
    <3> HIDE DEF T
    <3> QED BY <2>1, <2>2, <3>1, SetInduction
  <2> QED BY <2>3
<1> QED BY <1>6, <1>7, <1>8

\* The sum over a period is the same from wherever it is taken.
LEMMA SumOfPeriod ==
  ASSUME NEW g, \A k \in Nat : g[k] \in Int, NEW c \in Nat,
         \A k \in Nat : g[k + c] = g[k], NEW b \in Nat
  PROVE  Sum(g, b + c) - Sum(g, b) = Sum(g, c)
<1> DEFINE T == {n \in Nat : Sum(g, n + c) - Sum(g, n) = Sum(g, c)}
<1>0. /\ Sum(g, 0) = 0
      /\ \A n \in Nat : Sum(g, n) \in Int /\ Sum(g, n + 1) = Sum(g, n) + g[n]
  BY SumKnown
<1>1. 0 \in T
  <2>1. 0 + c = c /\ Sum(g, c) \in Int
    BY <1>0
  <2> QED BY <1>0, <2>1
<1>2. ASSUME NEW n \in T PROVE n + 1 \in T
  <2>1. n + c \in Nat /\ (n + 1) + c = (n + c) + 1
    OBVIOUS
  <2>2. /\ Sum(g, (n + c) + 1) = Sum(g, n + c) + g[n + c]
        /\ Sum(g, n + 1) = Sum(g, n) + g[n]
        /\ Sum(g, n + c) \in Int /\ Sum(g, n) \in Int /\ Sum(g, c) \in Int
        /\ g[n + c] = g[n] /\ g[n] \in Int
        /\ Sum(g, n + c) - Sum(g, n) = Sum(g, c)
    BY <1>0, <2>1
  <2>3. Sum(g, (n + 1) + c) - Sum(g, n + 1) = Sum(g, c)
    BY <2>1, <2>2
  <2> QED BY <2>3
<1>3. T = Nat
  <2>1. T \in SUBSET Nat
    OBVIOUS
  <2> HIDE DEF T
  <2> QED BY <1>1, <1>2, <2>1, SetInduction
<1> QED BY <1>3

\* Whole turns make no difference to a remainder, forwards or backwards.
LEMMA IntLaps ==
  ASSUME NEW c \in Nat \ {0}, NEW m \in Int, NEW w \in Int
  PROVE  (c * m + w) % c = w % c
<1> DEFINE v == c * m + w
           n0 == v \div c  r == v % c  n1 == w \div c  e == w % c
<1>1. v \in Int
  OBVIOUS
<1>2. /\ n0 \in Int /\ r \in 0 .. c - 1 /\ v = c * n0 + r
      /\ n1 \in Int /\ e \in 0 .. c - 1 /\ w = c * n1 + e
  <2> HIDE DEF v
  <2> QED BY <1>1
<1>3. c * n0 + r = c * m + (c * n1 + e)
  BY <1>2
<1> HIDE DEF v, n0, r, n1, e
<1> DEFINE d == n0 - (m + n1)
<1>4. d \in Int /\ n0 = d + m + n1
  BY <1>2
<1> HIDE DEF d
<1>5. c * n0 = c * d + c * m + c * n1 /\ c * d \in Int /\ c * m \in Int /\ c * n1 \in Int
  BY <1>2, <1>4
<1>6. c * d = e - r
  BY <1>2, <1>3, <1>5
<1>7. ~(d >= 1)
  <2> SUFFICES ASSUME d >= 1 PROVE FALSE
    OBVIOUS
  <2>1. PICK f \in Nat : d = f + 1
    <3>1. d - 1 \in Nat /\ d = (d - 1) + 1
      BY <1>4
    <3> QED BY <3>1, Zenon
  <2>2. c * d = c * f + c /\ c * f \in Nat
    BY <2>1
  <2> QED BY <1>2, <1>6, <2>2
<1>8. ~(d <= -1)
  <2> SUFFICES ASSUME d <= -1 PROVE FALSE
    OBVIOUS
  <2>1. PICK f \in Nat : d = -1 - f
    <3>1. -1 - d \in Nat /\ d = -1 - (-1 - d)
      BY <1>4
    <3> QED BY <3>1, Zenon
  <2>2. c * d = -c - c * f /\ c * f \in Nat
    BY <2>1
  <2> QED BY <1>2, <1>6, <2>2
<1>9. d = 0
  BY <1>4, <1>7, <1>8
<1>10. c * d = 0
  BY <1>9
<1>11. e = r
  BY <1>2, <1>6, <1>10
<1> QED BY <1>11 DEF e, r, v

\* Wrapping an addend makes no difference to a wrapped sum.
LEMMA WrapOnce ==
  ASSUME NEW x \in Int, NEW y \in Int
  PROVE  Wrapped(Wrapped(x) + y) = Wrapped(x + y)
<1> DEFINE M == Modulus  h == Modulus \div 2
           a == (x + h) \div M  b == (x + h) % M
<1>0. M \in Nat \ {0} /\ h \in Nat
  BY SizesAssumption
<1>1. a \in Int /\ b \in Int /\ x + h = M * a + b
  <2> HIDE DEF M, h
  <2> QED BY <1>0
<1>2. Wrapped(x) = b - h
  BY DEF Wrapped
<1> HIDE DEF a, b, M, h
<1>3. Wrapped(x) + y + h = b + y
  BY <1>0, <1>1, <1>2
<1>4. x + y + h = M * a + (b + y)
  <2> DEFINE z == M * a
  <2>1. z \in Int /\ x + h = z + b
    BY <1>0, <1>1
  <2> HIDE DEF z
  <2>2. x + y + h = z + (b + y)
    BY <1>0, <1>1, <2>1
  <2> QED BY <2>2 DEF z
<1>5. (M * a + (b + y)) % M = (b + y) % M
  <2> DEFINE w == b + y
  <2>1. w \in Int
    BY <1>1
  <2> HIDE DEF w
  <2>2. (M * a + w) % M = w % M
    BY <1>0, <1>1, <2>1, IntLaps
  <2> QED BY <2>2 DEF w
<1>6. /\ Wrapped(Wrapped(x) + y) = ((Wrapped(x) + y + h) % M) - h
      /\ Wrapped(x + y) = ((x + y + h) % M) - h
  BY DEF Wrapped, M, h
<1> QED BY <1>3, <1>4, <1>5, <1>6

-----------------------------------------------------------------------------
(* The name.                                                               *)

\* The moments after n differences from the start.
Gathered(t, e, n) ==
  LET f == Steps(t, TrueQeriod(t), e) IN Wrapped(Sum(f, t.start + n) - Sum(f, t.start))

\* What has been passed over is no period and no qeriod, what has been found is
\* the true one, and the moments are those of the differences so far.
NameSoFar ==
  /\ stage # "done" => answer = [name |-> "none"]
  /\ stage \in {"enter", "sample", "period", "qeriod"} => moments = <<0, 0, 0>>
  /\ IsLinear(task) =>
       /\ stage = "period" => \A n \in 1 .. p - 1 : ~IsPeriod(task, n)
       /\ stage \in {"qeriod", "moments"} => p = TrueGrowth(task)
       /\ stage = "qeriod" => \A r \in 1 .. q - 1 : ~IsQeriod(task, p, r)
       /\ stage = "moments" =>
            /\ q = TrueQeriod(task) /\ i <= p
            /\ moments = <<Gathered(task, 1, i), Gathered(task, 2, i), Gathered(task, 3, i)>>
       /\ stage = "power" => TrueGrowth(task) >= maxperiod \/ TrueMoment(task, 1) = 0

NameInv == IInv /\ NameSoFar /\ NameHasNoPhase

LEMMA WrappedZero == Wrapped(0) = 0
<1> DEFINE h == Modulus \div 2
<1>1. h \in Nat /\ h < Modulus /\ Modulus \in Nat \ {0}
  BY SizesAssumption
<1>2. (0 + h) % Modulus = h
  <2> HIDE DEF h
  <2> QED BY <1>1
<1> QED BY <1>1, <1>2 DEF Wrapped

\* The steps over the qeriod come round with the period.
LEMMA StepsComeRound ==
  ASSUME NEW t, IsLinear(t), NEW e \in 1 .. 3, NEW k \in Nat
  PROVE  /\ Steps(t, TrueQeriod(t), e)[k] \in Int
         /\ Steps(t, TrueQeriod(t), e)[k + TrueGrowth(t)] = Steps(t, TrueQeriod(t), e)[k]
<1> DEFINE per == TrueGrowth(t)  qer == TrueQeriod(t)
<1>0. /\ per \in Nat /\ qer \in Nat /\ IsPeriod(t, per) /\ IsQeriod(t, per, qer)
      /\ Lap(t) \in Nat \ {0} /\ 0 % t.stepsize = 0
  BY GrowthKnown, LinearKnown
<1> HIDE DEF per, qer
<1>1. Agrees(t, per, per, 0, Lap(t)) /\ Agrees(t, per, qer, 0, Lap(t))
  BY <1>0 DEF IsPeriod, IsQeriod, Agrees
<1>2. Tame(t, per)
  BY <1>0, <1>1, PeriodsAreTame
<1>3. Step(t, per, k) = Step(t, per, k + qer)
  BY <1>0, <1>1, <1>2, AgreesEverywhere
<1>4. /\ k + qer \in Nat /\ k + per \in Nat /\ (k + per) + qer \in Nat
      /\ (k + qer) + per = (k + per) + qer
  BY <1>0
<1>5. /\ Seen(t, k) \in Nat /\ Seen(t, k + qer) \in Nat /\ Seen(t, k + per) \in Nat
      /\ Seen(t, (k + per) + qer) \in Nat
  BY <1>4, SeenKnown
<1>6. Step(t, qer, k + per) = Step(t, qer, k) /\ Step(t, qer, k) \in Int
  BY <1>3, <1>4, <1>5 DEF Step
<1>7. Steps(t, qer, e)[k] \in Int /\ Steps(t, qer, e)[k + per] = Steps(t, qer, e)[k]
  <2> DEFINE x == Step(t, qer, k)
  <2>1. Steps(t, qer, e)[k] = Power(x, e) /\ Steps(t, qer, e)[k + per] = Power(x, e)
    BY <1>4, <1>6 DEF Steps
  <2>2. Power(x, e) \in Int
    <3>1. x \in Int
      BY <1>6
    <3> HIDE DEF x
    <3>2. x * x \in Int /\ x * x * x \in Int
      BY <3>1
    <3> QED BY <3>1, <3>2 DEF Power
  <2> QED BY <2>1, <2>2
<1> QED BY <1>7 DEF per, qer

\* No difference so far: nothing gathered.  One more: its powers are added.  All
\* of them: the moments of the name, whatever the start.
LEMMA GatheredKnown ==
  ASSUME NEW t, IsLinear(t), NEW e \in 1 .. 3
  PROVE  /\ Gathered(t, e, 0) = 0
         /\ \A n \in Nat : Gathered(t, e, n + 1) =
              Wrapped(Gathered(t, e, n) + Power(Step(t, TrueQeriod(t), t.start + n), e))
         /\ Gathered(t, e, TrueGrowth(t)) = TrueMoment(t, e)
<1> DEFINE f == Steps(t, TrueQeriod(t), e)  a == t.start  per == TrueGrowth(t)
<1>0. a \in Nat /\ per \in Nat
  BY LinearKnown, GrowthKnown
<1>1. \A k \in Nat : f[k] \in Int /\ f[k + per] = f[k]
  BY StepsComeRound
<1>2. \A k \in Nat : f[k] = Power(Step(t, TrueQeriod(t), k), e)
  BY DEF Steps
<1>3. \A n \in Nat : Gathered(t, e, n) = Wrapped(Sum(f, a + n) - Sum(f, a))
  BY DEF Gathered
<1>4. TrueMoment(t, e) = Wrapped(Sum(f, per))
  BY DEF TrueMoment
<1> HIDE DEF f, a, per
<1>5. \A n \in Nat : Sum(f, n) \in Int /\ Sum(f, n + 1) = Sum(f, n) + f[n]
  BY <1>1, SumKnown
<1>6. Gathered(t, e, 0) = 0
  <2>1. a + 0 = a /\ Sum(f, a) \in Int
    BY <1>0, <1>5
  <2>2. Sum(f, a + 0) - Sum(f, a) = 0
    BY <2>1
  <2> QED BY <1>3, <2>2, WrappedZero
<1>7. ASSUME NEW n \in Nat
      PROVE  Gathered(t, e, n + 1) = Wrapped(Gathered(t, e, n) + f[a + n])
  <2>1. a + n \in Nat /\ a + (n + 1) = (a + n) + 1 /\ n + 1 \in Nat
    BY <1>0
  <2> DEFINE x == Sum(f, a + n) - Sum(f, a)  y == f[a + n]
  <2>2. x \in Int /\ y \in Int /\ Sum(f, a + (n + 1)) - Sum(f, a) = x + y
    BY <1>0, <1>1, <1>5, <2>1
  <2>3. Gathered(t, e, n) = Wrapped(x)
    BY <1>3
  <2>4. Gathered(t, e, n + 1) = Wrapped(Sum(f, a + (n + 1)) - Sum(f, a))
    BY <1>3, <2>1
  <2> HIDE DEF x, y
  <2>5. Wrapped(Wrapped(x) + y) = Wrapped(x + y)
    BY <2>2, WrapOnce
  <2> QED BY <2>2, <2>3, <2>4, <2>5 DEF y
<1>8. Gathered(t, e, per) = TrueMoment(t, e)
  <2>1. Sum(f, a + per) - Sum(f, a) = Sum(f, per)
    BY <1>0, <1>1, SumOfPeriod
  <2> QED BY <1>0, <1>3, <1>4, <2>1
<1>9. \A n \in Nat : f[a + n] = Power(Step(t, TrueQeriod(t), a + n), e)
  BY <1>0, <1>2
<1> QED BY <1>6, <1>7, <1>8, <1>9 DEF a, per

\* A period tried is found to repeat if it is one, and so is a qeriod of it.
LEMMA SearchTells ==
  ASSUME IInv, IsLinear(task), stage \in {"period", "qeriod"}
  PROVE  /\ stage = "period" => (Repeats(poplist, p, p) <=> IsPeriod(task, p))
         /\ stage = "qeriod" /\ IsPeriod(task, p) =>
              (Repeats(poplist, p, q) <=> IsQeriod(task, p, q))
<1>1. /\ p \in Nat /\ q \in Nat /\ p < maxperiod /\ (stage = "qeriod" => q < maxperiod)
  BY SizesAssumption DEF IInv, TypeOK, PeriodFound
<1>2. /\ task.start \in Nat /\ task.start % task.stepsize = 0
      /\ maxperiod \in Nat /\ Lap(task) <= maxperiod
  BY LinearKnown
<1>3. LinearTask(task)
  BY DEF IsLinear
<1>4. Repeats(poplist, p, p) <=> Agrees(task, p, p, task.start, maxperiod)
  BY <1>1, <1>3, RepeatsTells
<1>5. stage = "qeriod" =>
        (Repeats(poplist, p, q) <=> Agrees(task, p, q, task.start, maxperiod))
  BY <1>1, <1>3, RepeatsTells
<1> QED BY <1>1, <1>2, <1>4, <1>5, WindowTellsGrowth

LEMMA TryPeriodName == ASSUME NameInv, TryPeriod PROVE NameSoFar' /\ NameHasNoPhase'
<1>1. /\ IInv /\ NameSoFar /\ stage = "period" /\ p \in Nat \ {0} /\ p < maxperiod /\ q = 1
      /\ maxperiod \in Nat /\ UNCHANGED <<task, moments, q, answer>>
      /\ IF Repeats(poplist, p, p) THEN stage' = "qeriod" /\ p' = p
         ELSE p' = p + 1 /\ stage' = IF p + 1 < maxperiod THEN "period" ELSE "power"
  BY SizesAssumption DEF NameInv, TryPeriod, IInv, TypeOK, PeriodFound
<1>2. /\ stage' \in {"period", "qeriod", "power"} /\ answer' = [name |-> "none"]
      /\ moments' = <<0, 0, 0>>
  BY <1>1 DEF NameSoFar
<1>3. ASSUME IsLinear(task)
      PROVE  /\ stage' = "period" => \A n \in 1 .. p' - 1 : ~IsPeriod(task, n)
             /\ stage' = "qeriod" => p' = TrueGrowth(task)
             /\ stage' = "power" => TrueGrowth(task) >= maxperiod
  <2>1. /\ \A n \in 1 .. p - 1 : ~IsPeriod(task, n)
        /\ Repeats(poplist, p, p) <=> IsPeriod(task, p)
    BY <1>1, <1>3, SearchTells DEF NameSoFar
  <2>2. /\ TrueGrowth(task) \in Nat \ {0} /\ TrueGrowth(task) <= Lap(task)
        /\ Lap(task) \in Nat /\ IsPeriod(task, TrueGrowth(task))
        /\ \A n \in 1 .. Lap(task) : IsPeriod(task, n) => TrueGrowth(task) <= n
    BY <1>3, GrowthKnown, LinearKnown
  <2>3. TrueGrowth(task) >= p
    BY <1>1, <2>1, <2>2
  <2>4. CASE IsPeriod(task, p)
    <3>1. p \in 1 .. Lap(task)
      BY <1>1, <2>2, <2>3
    <3> QED BY <1>1, <2>1, <2>2, <2>3, <2>4, <3>1
  <2>5. CASE ~IsPeriod(task, p)
    <3>1. \A n \in 1 .. (p + 1) - 1 : n \in 1 .. p - 1 \/ n = p
      BY <1>1
    <3>2. TrueGrowth(task) # p
      BY <2>2, <2>5
    <3> QED BY <1>1, <2>1, <2>2, <2>3, <2>5, <3>1, <3>2
  <2> QED BY <2>4, <2>5
<1>4. NameSoFar'
  <2>1. \A r \in 1 .. q - 1 : FALSE
    BY <1>1
  <2> QED BY <1>1, <1>2, <1>3, <2>1 DEF NameSoFar
<1>5. NameHasNoPhase'
  <2>1. SUFFICES ASSUME stage' = "power", LinearTask(task)
                 PROVE  ~(TrueName(task).period < maxperiod) /\ answer'.name # "yl"
    BY <1>1, <1>2 DEF NameHasNoPhase
  <2>2. IsLinear(task)
    BY <1>1, <2>1 DEF IsLinear, IInv, KindOfStage
  <2>3. TrueGrowth(task) >= maxperiod /\ TrueGrowth(task) \in Nat
    BY <1>3, <2>1, <2>2, GrowthKnown
  <2>4. TrueName(task).period = TrueGrowth(task)
    BY DEF TrueName, GrowthName
  <2> QED BY <1>1, <1>2, <2>3, <2>4
<1> QED BY <1>4, <1>5

LEMMA TryQeriodName == ASSUME NameInv, TryQeriod PROVE NameSoFar' /\ NameHasNoPhase'
<1>1. /\ IInv /\ NameSoFar /\ stage = "qeriod" /\ p \in Nat \ {0} /\ q \in Nat \ {0}
      /\ q <= p /\ p < maxperiod /\ UNCHANGED <<task, moments, p, answer>> /\ i' = 0
      /\ stage' # "power" /\ stage' \in {"qeriod", "moments"}
      /\ IF Repeats(poplist, p, q) THEN stage' = "moments" /\ q' = q
         ELSE stage' = "qeriod" /\ q' = q + 1
  <2>1. IInv /\ stage' # "power"
    BY TryQeriodStep DEF NameInv
  <2> QED BY <2>1 DEF NameInv, TryQeriod, IInv, TypeOK, PeriodFound
<1>2. answer' = [name |-> "none"] /\ moments' = <<0, 0, 0>>
  BY <1>1 DEF NameSoFar
<1>3. ASSUME IsLinear(task)
      PROVE  /\ p = TrueGrowth(task)
             /\ stage' = "qeriod" => \A r \in 1 .. q' - 1 : ~IsQeriod(task, p, r)
             /\ stage' = "moments" => q' = TrueQeriod(task)
  <2>1. p = TrueGrowth(task) /\ \A r \in 1 .. q - 1 : ~IsQeriod(task, p, r)
    BY <1>1, <1>3 DEF NameSoFar
  <2>2. /\ IsPeriod(task, p) /\ TrueQeriod(task) \in Nat \ {0} /\ TrueQeriod(task) <= p
        /\ IsQeriod(task, p, TrueQeriod(task))
        /\ \A r \in 1 .. p : IsQeriod(task, p, r) => TrueQeriod(task) <= r
    BY <1>3, <2>1, GrowthKnown
  <2>3. Repeats(poplist, p, q) <=> IsQeriod(task, p, q)
    BY <1>1, <1>3, <2>2, SearchTells
  <2>4. CASE IsQeriod(task, p, q)
    <3>1. TrueQeriod(task) <= q
      BY <1>1, <2>2, <2>4
    <3>2. ~(TrueQeriod(task) < q)
      BY <1>1, <2>1, <2>2
    <3> QED BY <1>1, <2>1, <2>2, <2>3, <2>4, <3>1, <3>2
  <2>5. CASE ~IsQeriod(task, p, q)
    <3>1. \A r \in 1 .. (q + 1) - 1 : r \in 1 .. q - 1 \/ r = q
      BY <1>1
    <3> QED BY <1>1, <2>1, <2>3, <2>5, <3>1
  <2> QED BY <2>4, <2>5
<1>4. NameSoFar'
  <2>1. ASSUME IsLinear(task)
        PROVE  <<0, 0, 0>> = <<Gathered(task, 1, 0), Gathered(task, 2, 0), Gathered(task, 3, 0)>>
    BY <2>1, GatheredKnown
  <2>2. 0 <= p
    BY <1>1
  <2> QED BY <1>1, <1>2, <1>3, <2>1, <2>2 DEF NameSoFar
<1>5. NameHasNoPhase'
  BY <1>1 DEF NameHasNoPhase
<1> QED BY <1>4, <1>5

LEMMA AccumulateName == ASSUME NameInv, Accumulate PROVE NameSoFar' /\ NameHasNoPhase'
<1>1. /\ IInv /\ NameSoFar /\ stage = "moments" /\ p \in Nat \ {0} /\ q \in Nat \ {0}
      /\ q <= p /\ p < maxperiod /\ i \in Nat /\ i < p
      /\ UNCHANGED <<task, stage, p, q, answer>> /\ i' = i + 1
  BY DEF NameInv, Accumulate, SummedOver, IInv, TypeOK, PeriodFound
<1>2. ASSUME IsLinear(task)
      PROVE  moments' = <<Gathered(task, 1, i + 1), Gathered(task, 2, i + 1),
                          Gathered(task, 3, i + 1)>>
  <2> DEFINE d == poplist[i + q] - poplist[i]
             m(e) == Gathered(task, e, i)
  <2>1. q = TrueQeriod(task) /\ moments = <<m(1), m(2), m(3)>>
    BY <1>1, <1>2 DEF NameSoFar
  <2>2. moments' = <<Wrapped(moments[1] + d), Wrapped(moments[2] + d * d),
                     Wrapped(moments[3] + d * d * d)>>
    BY DEF Accumulate
  <2>3. d = Step(task, q, task.start + i)
    <3>1. /\ ngens = 3 * maxperiod /\ maxperiod \in Nat /\ task.start \in Nat
          /\ \A k \in 0 .. ngens - 1 : poplist[k] = Seen(task, task.start + k)
      BY <1>1, <1>2, SampledGrowth, LinearKnown DEF IsLinear
    <3>2. i \in 0 .. ngens - 1 /\ i + q \in 0 .. ngens - 1
          /\ task.start + (i + q) = (task.start + i) + q
      BY <1>1, <3>1
    <3> QED BY <3>1, <3>2 DEF Step
  <2>4. \A e \in 1 .. 3 : Gathered(task, e, i + 1) = Wrapped(m(e) + Power(d, e))
    BY <1>1, <1>2, <2>1, <2>3, GatheredKnown
  <2> HIDE DEF d, m
  <2>5. Power(d, 1) = d /\ Power(d, 2) = d * d /\ Power(d, 3) = d * d * d
    BY DEF Power
  <2>6. /\ Gathered(task, 1, i + 1) = Wrapped(m(1) + d)
        /\ Gathered(task, 2, i + 1) = Wrapped(m(2) + d * d)
        /\ Gathered(task, 3, i + 1) = Wrapped(m(3) + d * d * d)
    <3>1. 1 \in 1 .. 3 /\ 2 \in 1 .. 3 /\ 3 \in 1 .. 3
      OBVIOUS
    <3> QED BY <2>4, <2>5, <3>1, Zenon
  <2>7. moments[1] = m(1) /\ moments[2] = m(2) /\ moments[3] = m(3)
    BY <2>1
  <2> QED BY <2>2, <2>6, <2>7, Zenon
<1>3. NameSoFar'
  <2>1. i + 1 <= p
    BY <1>1
  <2> QED BY <1>1, <1>2, <2>1 DEF NameSoFar
<1>4. NameHasNoPhase'
  BY <1>1 DEF NameHasNoPhase
<1> QED BY <1>3, <1>4

LEMMA EndMomentsName == ASSUME NameInv, EndMoments PROVE NameSoFar' /\ NameHasNoPhase'
<1>1. /\ IInv /\ NameSoFar /\ stage = "moments" /\ p \in Nat \ {0} /\ i \in Nat /\ i >= p
      /\ p < maxperiod /\ UNCHANGED <<task, moments, p, q, i>>
      /\ IF moments[1] = 0 THEN stage' = "power" /\ answer' = answer
         ELSE stage' = "done" /\ answer' = GrowthName(p, q, moments)
      /\ answer = [name |-> "none"]
  BY DEF NameInv, EndMoments, SummedOver, IInv, TypeOK, PeriodFound, NameSoFar
<1>2. ASSUME IsLinear(task)
      PROVE  /\ p = TrueGrowth(task) /\ q = TrueQeriod(task)
             /\ moments = <<TrueMoment(task, 1), TrueMoment(task, 2), TrueMoment(task, 3)>>
  <2>1. /\ p = TrueGrowth(task) /\ q = TrueQeriod(task) /\ i = p
        /\ moments = <<Gathered(task, 1, i), Gathered(task, 2, i), Gathered(task, 3, i)>>
    BY <1>1, <1>2 DEF NameSoFar
  <2> QED BY <1>2, <2>1, GatheredKnown
<1>3. /\ TrueName(task).period = TrueGrowth(task)
      /\ TrueName(task).moments[1] = TrueMoment(task, 1)
  BY DEF TrueName, GrowthName
<1>4. NameSoFar'
  BY <1>1, <1>2 DEF NameSoFar
<1>5. NameHasNoPhase'
  <2> SUFFICES ASSUME LinearTask(task) PROVE NameHasNoPhase'
    BY <1>1 DEF NameHasNoPhase
  <2>1. IsLinear(task)
    BY <1>1 DEF IsLinear, IInv, KindOfStage
  <2>2. moments[1] = TrueMoment(task, 1)
    BY <1>2, <2>1
  <2>3. CASE moments[1] = 0
    BY <1>1, <1>3, <2>2, <2>3 DEF NameHasNoPhase
  <2>4. CASE moments[1] # 0
    <3>1. answer' = TrueName(task) /\ stage' = "done"
      BY <1>1, <1>2, <2>1, <2>4 DEF TrueName
    <3>2. TrueName(task).period < maxperiod /\ TrueName(task).moments[1] # 0
      BY <1>1, <1>2, <1>3, <2>1, <2>2, <2>4
    <3> QED BY <1>1, <3>1, <3>2 DEF NameHasNoPhase
  <2> QED BY <2>3, <2>4
<1> QED BY <1>4, <1>5

LEMMA OtherName ==
  ASSUME NameInv, Enter \/ Sample \/ EndSampling \/ Powerlyse \/ TryLifePeriod \/ UNCHANGED vars
  PROVE  NameSoFar' /\ NameHasNoPhase'
<1>1. CASE UNCHANGED vars
  BY <1>1 DEF vars, NameInv, NameSoFar, NameHasNoPhase
<1>2. CASE Enter \/ Sample \/ EndSampling
  <2>1. /\ IInv /\ NameSoFar /\ stage \in {"enter", "sample"} /\ UNCHANGED <<task, p, q, moments>>
        /\ p = 1 /\ q = 1 /\ answer = [name |-> "none"] /\ moments = <<0, 0, 0>>
        /\ \/ stage' \in {"sample", "period", "settle"} /\ answer' = answer
           \/ stage' = "done" /\ task.kind = "lifespan"
    BY <1>2 DEF NameInv, NameSoFar, IInv, PeriodFound, Enter, Sample, EndSampling
  <2>2. NameSoFar'
    <3>1. \A n \in 1 .. 1 - 1 : FALSE
      OBVIOUS
    <3> QED BY <2>1, <3>1 DEF NameSoFar
  <2>3. NameHasNoPhase'
    BY <2>1 DEF NameHasNoPhase, LinearTask
  <2> QED BY <2>2, <2>3
<1>3. CASE TryLifePeriod
  <2>1. /\ IInv /\ NameSoFar /\ stage = "settle" /\ UNCHANGED <<task, moments>>
        /\ task.kind = "lifespan"
        /\ \/ stage' = "settle" /\ answer' = answer
           \/ stage' = "done"
    BY <1>3 DEF NameInv, TryLifePeriod, IInv, KindOfStage
  <2>2. NameSoFar'
    BY <2>1 DEF NameSoFar
  <2>3. NameHasNoPhase'
    BY <2>1 DEF NameHasNoPhase, LinearTask
  <2> QED BY <2>2, <2>3
<1>4. CASE Powerlyse
  <2>1. /\ NameHasNoPhase /\ stage = "power" /\ stage' = "done" /\ UNCHANGED task
        /\ \E n \in PowerNames : answer' = [name |-> n]
    BY <1>4 DEF NameInv, Powerlyse
  <2>2. answer'.name # "yl"
    BY <2>1 DEF PowerNames
  <2>3. NameSoFar'
    BY <2>1 DEF NameSoFar
  <2>4. NameHasNoPhase'
    BY <2>1, <2>2 DEF NameHasNoPhase
  <2> QED BY <2>3, <2>4
<1> QED BY <1>1, <1>2, <1>3, <1>4

LEMMA NextName == NameInv /\ [Next]_vars => NameInv'
<1> SUFFICES ASSUME NameInv, [Next]_vars PROVE NameInv'
  OBVIOUS
<1>1. IInv'
  BY NextIInv DEF NameInv
<1>2. NameSoFar' /\ NameHasNoPhase'
  BY TryPeriodName, TryQeriodName, AccumulateName, EndMomentsName, OtherName
     DEF Next, Terminated
<1> QED BY <1>1, <1>2 DEF NameInv

\* A linearly growing pattern gets the name its whole future gives it, at whatever
\* phase it is caught and whatever overflows, or is left to powerlyse when its
\* period is out of reach or it does not grow.
THEOREM NamesHaveNoPhase == Spec => []NameHasNoPhase
<1>1. Init => NameInv
  BY InitIInv DEF Init, NameInv, NameSoFar, NameHasNoPhase
<1>2. NameInv => NameHasNoPhase
  BY DEF NameInv
<1> QED BY <1>1, <1>2, NextName, PTL DEF Spec
=============================================================================
