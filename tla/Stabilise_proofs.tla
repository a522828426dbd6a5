-------------------------- MODULE Stabilise_proofs --------------------------
(* Proofs about Stabilise for every universe, collisions of hashes          *)
(* included, every schedule and any bounds of the loops.                    *)
EXTENDS Stabilise, WellFoundedInduction, SequenceTheorems, TLAPS

-----------------------------------------------------------------------------
(* The stack.                                                              *)

LessThan == {ss \in Nat \X Nat : ss[1] < ss[2]}

\* A set of numbers that is not empty has a least one.
LEMMA LeastOf ==
  ASSUME NEW T \in SUBSET Nat, T # {}
  PROVE  \E x \in T : \A y \in T : x <= y
<1>1. IsWellFoundedOn(LessThan, Nat)
  BY NatLessThanWellFounded DEF OpToRel, LessThan
<1>2. PICK x \in T : \A y \in T : <<y, x>> \notin LessThan
  BY <1>1, WFMin, Zenon
<1>3. \A y \in Nat : y < x => <<y, x>> \in LessThan
  BY DEF LessThan
<1>4. \A y \in T : y \in Nat /\ ~(y < x)
  BY <1>2, <1>3
<1> QED BY <1>4

\* Where a hash belongs: all before it are smaller, and all from there on are
\* not, which is what a walk from the bottom up finds on an ascending stack.
LEMMA PositionFound ==
  ASSUME hashlist \in Seq(Nat), NEW h \in Nat
  PROVE  /\ position(h) \in 1 .. Len(hashlist) + 1
         /\ \A l \in 1 .. position(h) - 1 : hashlist[l] < h
         /\ position(h) <= Len(hashlist) => ~(hashlist[position(h)] < h)
<1> DEFINE T == {k \in 1 .. Len(hashlist) + 1 : k \notin Below(h)}
<1>0. Len(hashlist) \in Nat
  OBVIOUS
<1>1. Len(hashlist) + 1 \in T
  BY <1>0 DEF Below
<1>2. PICK x \in T : \A y \in T : x <= y
  <2>1. T \in SUBSET Nat /\ T # {}
    BY <1>0, <1>1
  <2> HIDE DEF T
  <2> QED BY <2>1, LeastOf
<1>3. \A l \in 1 .. x - 1 : l \in Below(h)
  BY <1>0, <1>2
<1>4. LET pos == position(h) IN
      /\ pos \in 1 .. Len(hashlist) + 1 /\ pos \notin Below(h)
      /\ \A l \in 1 .. pos - 1 : l \in Below(h)
  BY <1>2, <1>3 DEF position
<1> DEFINE pos == position(h)
<1> HIDE DEF pos
<1>5. /\ pos \in 1 .. Len(hashlist) + 1 /\ pos \notin Below(h)
      /\ \A l \in 1 .. pos - 1 : l \in Below(h)
  BY <1>4 DEF pos
<1>6. \A l \in 1 .. pos - 1 : hashlist[l] < h
  BY <1>0, <1>5 DEF Below
<1>7. pos <= Len(hashlist) => ~(hashlist[pos] < h)
  <2> SUFFICES ASSUME pos <= Len(hashlist), hashlist[pos] < h PROVE FALSE
    OBVIOUS
  <2>1. \A l \in 1 .. pos : hashlist[l] < h
    BY <1>0, <1>5, <1>6
  <2> QED BY <1>0, <1>5, <2>1 DEF Below
<1> QED BY <1>5, <1>6, <1>7 DEF pos

\* Popping from a place on and pushing leaves what lies before it.
LEMMA TrimmedAndPushed ==
  ASSUME NEW list \in Seq(Nat), NEW pos \in 1 .. Len(list) + 1, NEW e \in Nat
  PROVE  LET new == Append(trimmed(list, pos), e) IN
         /\ new \in Seq(Nat) /\ Len(new) = pos /\ new[pos] = e
         /\ \A k \in 1 .. pos - 1 : new[k] = list[k]
<1> DEFINE s == SubSeq(list, 1, pos - 1)
<1>0. Len(list) \in Nat /\ \A j \in 1 .. pos - 1 : list[j] \in Nat
  OBVIOUS
<1>1. s \in Seq(Nat) /\ Len(s) = pos - 1 /\ \A k \in 1 .. pos - 1 : s[k] = list[k]
  BY <1>0, SubSeqProperties
<1> HIDE DEF s
<1>2. /\ Append(s, e) \in Seq(Nat) /\ Len(Append(s, e)) = pos /\ Append(s, e)[pos] = e
      /\ \A k \in 1 .. pos - 1 : Append(s, e)[k] = list[k]
  BY <1>0, <1>1
<1> QED BY <1>2 DEF trimmed, s

-----------------------------------------------------------------------------
(* The invariant.                                                          *)

\* The threshold in force is one of the schedule that has been reached.
Threshold ==
  pc = "sample" =>
    /\ period >= 8
    /\ \E a \in DOMAIN securityAt : a <= i /\ security = securityAt[a]

\* The stack is empty before the second phase and never ahead of its clock.
Stamps ==
  /\ pc = "sample" => hashlist = <<>> /\ genlist = <<>> /\ generation = 0
  /\ \A k \in 1 .. Len(genlist) : genlist[k] <= generation

IInv ==
  /\ universe \in Universes /\ TypeOK
  /\ Threshold /\ DepthBelowSecurity /\ SteadyPopulation
  /\ StackAscends /\ StackIsHistory /\ Stamps

LEMMA OrbitKnown ==
  ASSUME universe \in Universes, NEW g \in Nat
  PROVE  totalPopulation(g) \in Nat /\ totalHash(g) \in Nat
<1>0. /\ universe.tail \in Nat /\ universe.cycle \in Nat \ {0}
      /\ universe.pop  \in [0 .. universe.tail + universe.cycle - 1 -> Nat]
      /\ universe.hash \in [0 .. universe.tail + universe.cycle - 1 -> Nat]
  BY UniversesAssumption
<1>1. g >= universe.tail => (g - universe.tail) % universe.cycle \in 0 .. universe.cycle - 1
  BY <1>0
<1>2. Orbit(g) \in 0 .. universe.tail + universe.cycle - 1
  BY <1>0, <1>1 DEF Orbit
<1> QED BY <1>0, <1>2 DEF totalPopulation, totalHash

\* Flipping the third bit of a period of at least 8 leaves at least 8.
LEMMA FlippedPeriod ==
  ASSUME NEW n \in Nat, n >= 8
  PROVE  flipped(n) \in Nat /\ flipped(n) >= 8
<1>1. (n \div 4) % 2 = 1 => n >= 12
  OBVIOUS
<1> QED BY <1>1 DEF flipped

LEMMA InitIInv == Init => IInv
<1> SUFFICES ASSUME Init PROVE IInv
  OBVIOUS
<1>1. /\ periodAt[0] \in Nat /\ periodAt[0] >= 8 /\ securityAt[0] \in Nat \ {0}
      /\ 0 \in DOMAIN securityAt /\ warmup \in Nat
  BY ScheduleAssumption, LoopsAssumption
<1>2. TypeOK
  BY <1>1 DEF Init, TypeOK
<1>3. Threshold /\ DepthBelowSecurity /\ SteadyPopulation
  BY <1>1 DEF Init, Threshold, DepthBelowSecurity, SteadyPopulation
<1>4. StackAscends /\ StackIsHistory /\ Stamps
  BY DEF Init, StackAscends, StackIsHistory, Stamps
<1> QED BY <1>2, <1>3, <1>4 DEF Init, IInv

-----------------------------------------------------------------------------
(* naivestab_awesome.                                                      *)

LEMMA SampleStep == ASSUME IInv, Sample PROVE IInv'
<1>0. /\ universe \in Universes /\ pc = "sample" /\ gen \in Nat /\ i \in Nat
      /\ depth \in Nat /\ steady \in Nat /\ prevpop \in Nat
      /\ period \in Nat /\ period >= 8 /\ security \in Nat \ {0} /\ depth < security
      /\ UNCHANGED <<universe, hashlist, genlist, generation>>
      /\ hashlist = <<>> /\ genlist = <<>> /\ generation = 0
  BY DEF IInv, TypeOK, Threshold, DepthBelowSecurity, Stamps, Sample, phase2
<1>1. /\ periodNow \in Nat /\ periodNow >= 8
      /\ gen' = gen + periodNow /\ gen' \in Nat
      /\ period' \in {periodNow, flipped(periodNow)}
      /\ period' \in Nat /\ period' >= 8
  <2>1. periodNow \in Nat /\ periodNow >= 8
    BY <1>0, ScheduleAssumption, SMTT(20) DEF periodNow
  <2>2. gen' = gen + periodNow /\ period' \in {periodNow, flipped(periodNow)}
    BY DEF Sample
  <2> QED BY <1>0, <2>1, <2>2, FlippedPeriod
<1>2. PICK a \in DOMAIN securityAt : a <= i /\ security = securityAt[a]
  BY <1>0 DEF IInv, Threshold
<1>3. /\ security' = securityNow /\ securityNow \in Nat \ {0} /\ security <= securityNow
      /\ \E b \in DOMAIN securityAt : b <= i /\ securityNow = securityAt[b]
  <2>1. CASE i \in DOMAIN securityAt
    BY <1>0, <1>2, <2>1, ScheduleAssumption, SMTT(20) DEF Sample, securityNow
  <2>2. CASE i \notin DOMAIN securityAt
    BY <1>0, <1>2, <2>2 DEF Sample, securityNow
  <2> QED BY <2>1, <2>2
<1>4. totalPopulation(gen') \in Nat
  BY <1>0, <1>1, OrbitKnown
<1>5. /\ depth' \in Nat /\ steady' \in Nat /\ prevpop' \in Nat /\ result' \in Nat
      /\ i' \in Nat /\ pc' \in {"sample", "hash", "done"}
      /\ pc' = "sample" => i' = i + 1 /\ depth' < security'
  <2>1. CASE mayBeUnmodified(gen) /\ result' = 2 /\ pc' = "done"
               /\ UNCHANGED <<depth, steady, prevpop, i>>
    BY <1>0, <2>1
  <2>2. CASE ~(mayBeUnmodified(gen) /\ result' = 2 /\ pc' = "done"
               /\ UNCHANGED <<depth, steady, prevpop, i>>)
    <3> DEFINE same == totalPopulation(gen') = prevpop
               stable == deepEnough(deeper(same), securityNow)
    <3>1. /\ depth' = deeper(same) /\ prevpop' = totalPopulation(gen')
          /\ steady' \in {0, 1, steady, steady + 1}
          /\ result' = IF stable THEN period' ELSE 0
          /\ pc' = IF stable THEN "done" ELSE IF i + 1 = Samples THEN "hash" ELSE "sample"
          /\ i' = IF ~stable /\ i + 1 = Samples THEN 0 ELSE i + 1
      BY <2>2 DEF Sample
    <3>2. deeper(same) \in {0, depth + 1}
      BY DEF deeper
    <3>3. ~stable => deeper(same) < securityNow
      BY <1>0, <1>3, <3>2 DEF deepEnough
    <3> HIDE DEF same, stable
    <3> QED BY <1>0, <1>1, <1>3, <1>4, <3>1, <3>2, <3>3
  <2> QED BY <2>1, <2>2
<1>6. TypeOK' /\ DepthBelowSecurity'
  BY <1>0, <1>1, <1>3, <1>5 DEF IInv, TypeOK, DepthBelowSecurity
<1>7. Threshold'
  <2>1. SUFFICES ASSUME pc' = "sample"
                 PROVE  \E b \in DOMAIN securityAt : b <= i' /\ security' = securityAt[b]
    BY <1>1 DEF Threshold
  <2>2. PICK b \in DOMAIN securityAt : b <= i /\ securityNow = securityAt[b]
    BY <1>3
  <2>3. b \in Nat /\ i' = i + 1
    BY <1>5, <2>1, ScheduleAssumption
  <2>4. b <= i'
    BY <1>0, <2>2, <2>3
  <2>5. security' = securityAt[b]
    BY <1>3, <2>2
  <2> QED BY <2>4, <2>5, Zenon
<1>8. SteadyPopulation'
  <2>1. SUFFICES ASSUME pc' = "sample", NEW k \in 0 .. steady' - 1
                 PROVE  totalPopulation(gen' - k * period') = prevpop'
    BY <1>0 DEF SteadyPopulation, totalPopulation, Orbit
  <2> DEFINE same == totalPopulation(gen') = prevpop
  <2>3. /\ prevpop' = totalPopulation(gen')
        /\ period' = IF same THEN periodNow ELSE flipped(periodNow)
        /\ steady' = IF deeper(same) = 0 THEN 0
                     ELSE IF ~same THEN steady
                     ELSE IF periodNow = period THEN steady + 1 ELSE 1
    BY <2>1 DEF Sample
  <2>4. same
    BY <1>5, <2>1, <2>3 DEF deeper
  <2>5. period' = periodNow /\ prevpop' = prevpop
    BY <2>3, <2>4
  <2>6. CASE k = 0
    BY <1>1, <2>3, <2>6
  <2>7. CASE k # 0
    <3>1. periodNow = period /\ k - 1 \in 0 .. steady - 1
      BY <1>0, <1>5, <2>1, <2>3, <2>4, <2>7
    <3>2. totalPopulation(gen - (k - 1) * period) = prevpop
      BY <1>0, <3>1 DEF IInv, SteadyPopulation
    <3>3. gen' - k * period' = gen - (k - 1) * period
      BY <1>0, <1>1, <2>1, <2>5, <3>1
    <3> QED BY <2>5, <3>2, <3>3
  <2> QED BY <2>6, <2>7
<1>9. StackAscends' /\ StackIsHistory' /\ Stamps'
  BY <1>0 DEF StackAscends, StackIsHistory, Stamps
<1> QED BY <1>0, <1>6, <1>7, <1>8, <1>9 DEF IInv

-----------------------------------------------------------------------------
(* stabilise3.                                                             *)

LEMMA PushStep == ASSUME IInv, Push PROVE IInv'
<1> DEFINE h == totalHash(gen + Stride)  pos == position(h)
<1>0. /\ universe \in Universes /\ gen \in Nat /\ i \in Nat /\ generation \in Nat
      /\ Stride \in Nat \ {0} /\ Fallback \in Nat
      /\ hashlist \in Seq(Nat) /\ genlist \in Seq(Nat) /\ Len(hashlist) = Len(genlist)
      /\ pc = "hash"
  BY LoopsAssumption DEF IInv, TypeOK, StackAscends, Push
<1>1. h \in Nat /\ generation + Stride \in Nat
  <2>1. gen + Stride \in Nat /\ generation + Stride \in Nat
    BY <1>0
  <2> QED BY <1>0, <2>1, OrbitKnown, Zenon
<1>2. /\ ~(pos <= Len(hashlist) /\ hashlist[pos] = h)
      /\ hashlist' = Append(trimmed(hashlist, pos), h)
      /\ genlist' = Append(trimmed(genlist, pos), generation + Stride)
      /\ generation' = generation + Stride
      /\ UNCHANGED <<universe, prevpop, period, depth, security, steady>>
      /\ i' = i + 1
      /\ \/ pc' = "hash" /\ gen' = gen + Stride /\ result' = 0
         \/ pc' = "done" /\ gen' = gen + Stride + Fallback /\ result' = Fallback
  BY DEF Push, stamp, gensLeft, phase1
<1> HIDE DEF h
<1>3. /\ pos \in 1 .. Len(hashlist) + 1
      /\ \A l \in 1 .. pos - 1 : hashlist[l] < h
  BY <1>0, <1>1, PositionFound
<1> HIDE DEF pos
<1>4. /\ hashlist' \in Seq(Nat) /\ Len(hashlist') = pos /\ hashlist'[pos] = h
      /\ \A k \in 1 .. pos - 1 : hashlist'[k] = hashlist[k]
  <2> DEFINE new == Append(trimmed(hashlist, pos), h)
  <2>1. hashlist \in Seq(Nat) /\ pos \in 1 .. Len(hashlist) + 1 /\ h \in Nat
    BY <1>0, <1>1, <1>3
  <2>2. /\ new \in Seq(Nat) /\ Len(new) = pos /\ new[pos] = h
        /\ \A k \in 1 .. pos - 1 : new[k] = hashlist[k]
    BY <2>1, TrimmedAndPushed, ZenonT(30)
  <2>3. hashlist' = new
    BY <1>2
  <2> HIDE DEF new
  <2> QED BY <2>2, <2>3
<1>5. /\ genlist' \in Seq(Nat) /\ Len(genlist') = pos /\ genlist'[pos] = generation + Stride
      /\ \A k \in 1 .. pos - 1 : genlist'[k] = genlist[k]
  <2> DEFINE e == generation + Stride  new == Append(trimmed(genlist, pos), e)
  <2>1. genlist \in Seq(Nat) /\ pos \in 1 .. Len(genlist) + 1 /\ e \in Nat
    BY <1>0, <1>1, <1>3
  <2>2. /\ new \in Seq(Nat) /\ Len(new) = pos /\ new[pos] = e
        /\ \A k \in 1 .. pos - 1 : new[k] = genlist[k]
    BY <2>1, TrimmedAndPushed, ZenonT(30)
  <2>3. genlist' = new
    BY <1>2
  <2> HIDE DEF new
  <2> QED BY <2>2, <2>3
<1>6. TypeOK'
  BY <1>0, <1>1, <1>2, <1>4, <1>5 DEF IInv, TypeOK
<1>7. Stamps'
  BY <1>0, <1>2, <1>3, <1>5 DEF IInv, Stamps, TypeOK
<1>8. StackAscends'
  <2>1. SUFFICES ASSUME NEW k \in 1 .. pos, NEW l \in 1 .. pos, k < l
                 PROVE  hashlist'[k] < hashlist'[l] /\ genlist'[k] < genlist'[l]
    BY <1>4, <1>5 DEF StackAscends
  <2>2. k \in 1 .. pos - 1 /\ k \in 1 .. Len(genlist)
    BY <1>0, <1>3, <2>1
  <2>3. CASE l = pos
    <3>1. genlist[k] <= generation /\ genlist[k] \in Nat
      BY <1>0, <2>2 DEF IInv, Stamps
    <3>2. genlist[k] < generation + Stride
      BY <1>0, <3>1
    <3> QED BY <1>3, <1>4, <1>5, <2>2, <2>3, <3>2
  <2>4. CASE l # pos
    <3>1. l \in 1 .. pos - 1 /\ l \in 1 .. Len(hashlist) /\ k \in 1 .. Len(hashlist)
      BY <1>0, <1>3, <2>1, <2>4
    <3>2. hashlist[k] < hashlist[l] /\ genlist[k] < genlist[l]
      BY <2>1, <3>1 DEF IInv, StackAscends
    <3> QED BY <1>4, <1>5, <2>2, <3>1, <3>2
  <2> QED BY <2>3, <2>4
<1>9. StackIsHistory'
  <2>1. SUFFICES ASSUME pc' = "hash", NEW k \in 1 .. pos
                 PROVE  hashlist'[k] = totalHash(gen' - generation' + genlist'[k])
    BY <1>2, <1>4 DEF StackIsHistory, totalHash, Orbit
  <2>3. gen' - generation' = gen - generation
    BY <1>0, <1>2, <2>1
  <2>4. CASE k = pos
    <3>1. gen' - generation' + genlist'[k] = gen + Stride
      BY <1>0, <1>5, <2>3, <2>4
    <3> QED BY <1>4, <2>4, <3>1 DEF h
  <2>5. CASE k # pos
    <3>1. k \in 1 .. pos - 1 /\ k \in 1 .. Len(hashlist)
      BY <1>0, <1>3, <2>1, <2>5
    <3>2. hashlist[k] = totalHash(gen - generation + genlist[k])
      BY <1>0, <3>1 DEF IInv, StackIsHistory
    <3> QED BY <1>4, <1>5, <2>3, <3>1, <3>2
  <2> QED BY <2>4, <2>5
<1>10. Threshold' /\ DepthBelowSecurity' /\ SteadyPopulation'
  BY <1>2 DEF Threshold, DepthBelowSecurity, SteadyPopulation
<1> QED BY <1>0, <1>2, <1>6, <1>7, <1>8, <1>9, <1>10 DEF IInv

\* The steps that leave the stack alone.
LEMMA StackKept ==
  ASSUME IInv, pc' \notin {"sample", "hash"}, UNCHANGED <<universe, hashlist, genlist>>,
         generation' >= generation, generation' \in Nat, TypeOK'
  PROVE  IInv'
<1>0. genlist \in Seq(Nat) /\ generation \in Nat /\ Stamps
  BY DEF IInv, TypeOK
<1>1. \A k \in 1 .. Len(genlist) : genlist[k] \in Nat
  BY <1>0, ElementOfSeq
<1>2. Stamps'
  BY <1>0, <1>1 DEF Stamps
<1> QED BY <1>2 DEF IInv, Threshold, DepthBelowSecurity, SteadyPopulation, StackAscends,
                    StackIsHistory

\* A cycle that is found has at least one stride.
LEMMA MatchStep == ASSUME IInv, Match PROVE IInv'
<1> DEFINE h == totalHash(gen + Stride)  pos == position(h)
<1>0. /\ universe \in Universes /\ gen \in Nat /\ generation \in Nat
      /\ Stride \in Nat \ {0} /\ hashlist \in Seq(Nat) /\ genlist \in Seq(Nat)
      /\ Len(hashlist) = Len(genlist)
  BY LoopsAssumption DEF IInv, TypeOK, StackAscends
<1>1. h \in Nat /\ totalPopulation(gen + Stride) \in Nat
  <2>1. gen + Stride \in Nat
    BY <1>0
  <2> QED BY <1>0, <2>1, OrbitKnown, Zenon
<1>2. /\ pos <= Len(hashlist)
      /\ period' = generation + Stride - genlist[pos]
      /\ prevpop' = totalPopulation(gen + Stride)
      /\ gen' = gen + Stride /\ generation' = generation + Stride
      /\ i' = 0 /\ pc' = "repeat"
      /\ UNCHANGED <<universe, depth, security, steady, hashlist, genlist, result>>
  BY DEF Match, phase1
<1> HIDE DEF h
<1>3. pos \in 1 .. Len(hashlist) + 1
  BY <1>0, <1>1, PositionFound
<1> HIDE DEF pos
<1>4. genlist[pos] \in Nat /\ genlist[pos] <= generation
  BY <1>0, <1>2, <1>3 DEF IInv, Stamps
<1>5. TypeOK'
  BY <1>0, <1>1, <1>2, <1>4 DEF IInv, TypeOK
<1> QED BY <1>0, <1>2, <1>5, StackKept

LEMMA RepeatStep == ASSUME IInv, Repeat PROVE IInv'
<1>1. /\ gen' = gen + period /\ i' = i + 1
      /\ prevpop' \in {prevpop, totalPopulation(gen')}
      /\ pc' \in {"repeat", "done"} /\ result' \in {0, period, Fallback}
      /\ UNCHANGED <<universe, period, depth, security, steady, hashlist, genlist, generation>>
  BY DEF Repeat, phase1, phase2
<1>2. gen' \in Nat /\ totalPopulation(gen') \in Nat /\ Fallback \in Nat
  <2>1. universe \in Universes /\ gen' \in Nat /\ Fallback \in Nat
    BY <1>1, LoopsAssumption DEF IInv, TypeOK
  <2> QED BY <2>1, OrbitKnown
<1>3. TypeOK'
  BY <1>1, <1>2 DEF IInv, TypeOK
<1> QED BY <1>1, <1>3, StackKept DEF IInv, TypeOK

LEMMA NextIInv == IInv /\ [Next]_vars => IInv'
<1> SUFFICES ASSUME IInv, [Next]_vars PROVE IInv'
  OBVIOUS
<1>1. CASE UNCHANGED vars
  <2>1. \A g : totalPopulation(g)' = totalPopulation(g) /\ totalHash(g)' = totalHash(g)
    BY <1>1 DEF vars, totalPopulation, totalHash, Orbit
  <2> QED BY <1>1, <2>1 DEF vars, phase1, phase2, IInv, TypeOK, Threshold, DepthBelowSecurity,
                            SteadyPopulation, StackAscends, StackIsHistory, Stamps
<1> QED BY <1>1, SampleStep, PushStep, MatchStep, RepeatStep DEF Next, Terminated

-----------------------------------------------------------------------------
LEMMA Inductive == Spec => []IInv
  BY InitIInv, NextIInv, PTL DEF Spec

\* Both phases keep their types; a cycle that is found is not empty.
THEOREM TypeCorrect == Spec => []TypeOK
<1>1. IInv => TypeOK
  BY DEF IInv
<1> QED BY <1>1, Inductive, PTL

\* depth never gets past a threshold it is compared with by ==, however the
\* schedule raises it.
THEOREM DepthIsBelow == Spec => []DepthBelowSecurity
<1>1. IInv => DepthBelowSecurity
  BY DEF IInv
<1> QED BY <1>1, Inductive, PTL

\* The samples counted at the present period found the present population.
THEOREM SamplesAgree == Spec => []SteadyPopulation
<1>1. IInv => SteadyPopulation
  BY DEF IInv
<1> QED BY <1>1, Inductive, PTL

\* Both lists of the stack ascend, in every universe.
THEOREM StackIsOrdered == Spec => []StackAscends
<1>1. IInv => StackAscends
  BY DEF IInv
<1> QED BY <1>1, Inductive, PTL

\* The two lists describe one history, though they are popped and pushed apart.
THEOREM StackRemembers == Spec => []StackIsHistory
<1>1. IInv => StackIsHistory
  BY DEF IInv
<1> QED BY <1>1, Inductive, PTL

-----------------------------------------------------------------------------
(* Arithmetic of a lap.                                                    *)

LEMMA Divided ==
  ASSUME NEW a \in Nat, NEW c \in Nat \ {0}
  PROVE  /\ a \div c \in Nat /\ a % c \in Nat /\ a % c < c
         /\ a = c * (a \div c) + (a % c)
  OBVIOUS

\* A multiple with a remainder below c is written in one way only.
LEMMA OneRemainder ==
  ASSUME NEW c \in Nat \ {0}, NEW p \in Int, NEW q \in Int, NEW r \in 0 .. c - 1,
         NEW s \in 0 .. c - 1, c * p + r = c * q + s
  PROVE  p = q /\ r = s
<1>1. ASSUME NEW x \in Int, NEW y \in Int, x < y PROVE c * x + c <= c * y
  <2>1. c * (y - x - 1) >= 0
    <3>1. y - x - 1 \in Nat
      BY <1>1
    <3> QED BY <3>1
  <2> QED BY <2>1, <1>1
<1>2. ~(p < q)
  <2>1. p < q => c * p + c <= c * q
    BY <1>1
  <2> QED BY <2>1
<1>3. ~(q < p)
  <2>1. q < p => c * q + c <= c * p
    BY <1>1
  <2> QED BY <2>1
<1>4. p = q
  BY <1>2, <1>3
<1> QED BY <1>4

LEMMA MultipleLeavesNothing ==
  ASSUME NEW c \in Nat \ {0}, NEW q \in Nat
  PROVE  (c * q) % c = 0
<1> DEFINE a == c * q  p == a \div c  r == a % c
<1>1. a \in Nat
  OBVIOUS
<1>2. p \in Nat /\ r \in Nat /\ r < c /\ a = c * p + r
  BY <1>1, Divided
<1>3. c * p + r = c * q + 0
  BY <1>2
<1> HIDE DEF p, r
<1>4. r = 0
  BY <1>2, <1>3, OneRemainder
<1> QED BY <1>4 DEF r

LEMMA WholeLaps ==
  ASSUME NEW c \in Nat \ {0}, NEW a \in Nat, NEW b \in Nat, b % c = 0
  PROVE  (a + b) % c = a % c
<1> DEFINE q == b \div c  p == a \div c  r == a % c  m == (a + b) \div c  s == (a + b) % c
<1>1. a + b \in Nat
  OBVIOUS
<1>2. q \in Nat /\ b = c * q + 0
  BY Divided
<1>3. p \in Nat /\ r \in Nat /\ r < c /\ a = c * p + r
  BY Divided
<1>4. m \in Nat /\ s \in Nat /\ s < c /\ a + b = c * m + s
  BY <1>1, Divided
<1> HIDE DEF q, p, r, m, s
<1>5. PICK k \in Int : c * k + r = c * m + s
  <2>1. c * (p + q) + r = c * m + s /\ p + q \in Int
    BY <1>2, <1>3, <1>4
  <2> QED BY <2>1, Zenon
<1>6. m \in Int /\ r \in 0 .. c - 1 /\ s \in 0 .. c - 1
  BY <1>2, <1>3, <1>4
<1>7. r = s
  BY <1>5, <1>6, OneRemainder
<1> QED BY <1>7 DEF r, s

LEMMA LapsApart ==
  ASSUME NEW c \in Nat \ {0}, NEW a \in Nat, NEW n \in Nat, (a + n) % c = a % c
  PROVE  n % c = 0
<1> DEFINE p == a \div c  r == a % c  m == (a + n) \div c  q == n \div c  s == n % c
<1>1. a + n \in Nat
  OBVIOUS
<1>2. p \in Nat /\ r \in Nat /\ r < c /\ a = c * p + r
  BY Divided
<1>3. m \in Nat /\ a + n = c * m + r
  BY <1>1, Divided
<1>4. q \in Nat /\ s \in Nat /\ s < c /\ n = c * q + s
  BY Divided
<1> HIDE DEF p, r, m, q, s
<1>5. PICK k \in Int : c * q + s = c * k + 0
  <2>1. c * q + s = c * (m - p) + 0 /\ m - p \in Int
    BY <1>2, <1>3, <1>4
  <2> QED BY <2>1, Zenon
<1>6. q \in Int /\ s \in 0 .. c - 1 /\ 0 \in 0 .. c - 1
  BY <1>2, <1>3, <1>4
<1>7. s = 0
  BY <1>5, <1>6, OneRemainder
<1> QED BY <1>7 DEF s

-----------------------------------------------------------------------------
(* The universe goes round.                                                *)

CycleStart == universe.tail
CycleLength == universe.cycle

LEMMA UniverseKnown ==
  ASSUME universe \in Universes
  PROVE  CycleStart \in Nat /\ CycleLength \in Nat \ {0} /\ DOMAIN universe.hash = 0 .. CycleStart + CycleLength - 1
  BY UniversesAssumption DEF CycleStart, CycleLength

\* Cycle is there: a lap of the universe's own length comes back.
LEMMA CycleIsLeast ==
  ASSUME universe \in Universes
  PROVE  /\ Cycle \in Nat \ {0} /\ (Stride * Cycle) % CycleLength = 0
         /\ \A m \in 1 .. Cycle - 1 : (Stride * m) % CycleLength # 0
<1> DEFINE T == {n \in 1 .. CycleLength : (Stride * n) % CycleLength = 0}
<1>0. CycleLength \in Nat \ {0} /\ Stride \in Nat \ {0}
  BY UniverseKnown, LoopsAssumption
<1>1. CycleLength \in T
  <2>1. (CycleLength * Stride) % CycleLength = 0
    BY <1>0, MultipleLeavesNothing
  <2>2. Stride * CycleLength = CycleLength * Stride
    BY <1>0
  <2>3. CycleLength \in 1 .. CycleLength
    BY <1>0
  <2> QED BY <2>1, <2>2, <2>3, Zenon
<1>2. T \in SUBSET Nat
  BY <1>0
<1>3. PICK x \in T : \A y \in T : x <= y
  <2> HIDE DEF T
  <2> QED BY <1>1, <1>2, LeastOf
<1>4. x \in 1 .. CycleLength /\ (Stride * x) % CycleLength = 0
  OBVIOUS
<1>5. ASSUME NEW m \in 1 .. x - 1 PROVE (Stride * m) % CycleLength # 0
  <2>1. m \in 1 .. CycleLength /\ ~(x <= m)
    BY <1>0, <1>4
  <2> QED BY <1>3, <2>1
<1>6. /\ Cycle \in 1 .. CycleLength /\ (Stride * Cycle) % CycleLength = 0
      /\ \A m \in 1 .. Cycle - 1 : (Stride * m) % CycleLength # 0
  BY <1>4, <1>5, Zenon DEF Cycle, CycleLength
<1> QED BY <1>0, <1>6

\* A cycle later the universe looks the same.
LEMMA RoundAgain ==
  ASSUME universe \in Universes, NEW g \in Nat, g >= CycleStart, NEW n \in Nat, n % CycleLength = 0
  PROVE  Orbit(g + n) = Orbit(g)
<1>0. CycleStart \in Nat /\ CycleLength \in Nat \ {0}
  BY UniverseKnown
<1> DEFINE a == g - CycleStart
<1>1. a \in Nat /\ g + n - CycleStart = a + n /\ g + n >= CycleStart
  BY <1>0
<1>2. (a + n) % CycleLength = a % CycleLength
  <2> HIDE DEF a
  <2> QED BY <1>0, <1>1, WholeLaps
<1>3. Orbit(g + n) = CycleStart + ((g + n - CycleStart) % CycleLength) /\ Orbit(g) = CycleStart + (a % CycleLength)
  BY <1>0, <1>1 DEF Orbit, CycleStart, CycleLength
<1> QED BY <1>1, <1>2, <1>3

\* A state of the universe comes back only on its cycle, whole laps later.
LEMMA BackOnCycle ==
  ASSUME universe \in Universes, NEW g \in Nat, NEW n \in Nat \ {0},
         Orbit(g + n) = Orbit(g)
  PROVE  g >= CycleStart /\ n % CycleLength = 0
<1>0. CycleStart \in Nat /\ CycleLength \in Nat \ {0} /\ g + n \in Nat
  BY UniverseKnown
<1> DEFINE a == g - CycleStart  b == g + n - CycleStart
<1>1. g + n >= CycleStart => Orbit(g + n) = CycleStart + (b % CycleLength)
  BY <1>0 DEF Orbit, CycleStart, CycleLength
<1>2. g >= CycleStart
  <2> SUFFICES ASSUME g < CycleStart PROVE FALSE
    BY <1>0
  <2>1. Orbit(g) = g
    BY <1>0 DEF Orbit, CycleStart
  <2>2. CASE g + n < CycleStart
    <3>1. Orbit(g + n) = g + n
      BY <1>0, <2>2 DEF Orbit, CycleStart
    <3> QED BY <2>1, <3>1
  <2>3. CASE g + n >= CycleStart
    <3>1. b \in Nat /\ b % CycleLength \in Nat
      BY <1>0, <2>3
    <3> QED BY <1>0, <1>1, <2>1, <2>3, <3>1
  <2> QED BY <1>0, <2>2, <2>3
<1>3. Orbit(g) = CycleStart + (a % CycleLength)
  BY <1>0, <1>2 DEF Orbit, CycleStart, CycleLength
<1>4. a \in Nat /\ b = a + n /\ b \in Nat /\ g + n >= CycleStart
  BY <1>0, <1>2
<1>5. a % CycleLength \in Nat /\ b % CycleLength \in Nat
  BY <1>0, <1>4
<1>6. b % CycleLength = a % CycleLength
  BY <1>0, <1>1, <1>3, <1>4, <1>5
<1>7. n % CycleLength = 0
  <2> HIDE DEF a
  <2>1. (a + n) % CycleLength = a % CycleLength
    BY <1>4, <1>6
  <2> QED BY <1>0, <1>4, <2>1, LapsApart
<1> QED BY <1>2, <1>7

\* Hashes that do not collide tell the states of the universe apart.
LEMMA HashTells ==
  ASSUME universe \in Universes, Injective, NEW f \in Nat, NEW g \in Nat,
         totalHash(f) = totalHash(g)
  PROVE  Orbit(f) = Orbit(g)
<1>0. CycleStart \in Nat /\ CycleLength \in Nat \ {0} /\ DOMAIN universe.hash = 0 .. CycleStart + CycleLength - 1
  BY UniverseKnown
<1>1. ASSUME NEW x \in Nat PROVE Orbit(x) \in DOMAIN universe.hash
  <2>1. x >= CycleStart => (x - CycleStart) % CycleLength \in 0 .. CycleLength - 1
    BY <1>0
  <2>2. Orbit(x) = IF x < CycleStart THEN x ELSE CycleStart + ((x - CycleStart) % CycleLength)
    BY DEF Orbit, CycleStart, CycleLength
  <2> QED BY <1>0, <2>1, <2>2
<1> QED BY <1>1 DEF Injective, totalHash

-----------------------------------------------------------------------------
(* What the stack remembers.                                               *)

\* The hash of the j-th pass, as long as passes count strides.
Seen(j) == totalHash(gen - generation + Stride * j)

Clock == pc = "hash" => generation = Stride * i /\ gen >= generation

\* Two passes saw the same hash only if a smaller one in between threw it off.
SeenOnce ==
  pc = "hash" =>
    \A j, l \in 1 .. i :
      j < l /\ Seen(j) = Seen(l) => \E m \in j + 1 .. l - 1 : Seen(m) < Seen(j)

\* What no smaller hash has thrown off is on the stack ...
Remembered ==
  pc = "hash" =>
    \A j \in 1 .. i :
      (\A m \in j + 1 .. i : Seen(j) <= Seen(m)) =>
        \E k \in 1 .. Len(genlist) : genlist[k] = Stride * j

\* ... and what is on the stack was seen, with larger hashes ever since.
Undercut ==
  pc = "hash" =>
    \A k \in 1 .. Len(genlist) :
      \E j \in 1 .. i :
        /\ genlist[k] = Stride * j
        /\ \A m \in j + 1 .. i : Seen(j) < Seen(m)

\* What is repeated is one lap of the universe, begun on its cycle.
Repeating ==
  pc = "repeat" /\ Injective =>
    /\ gen >= universe.tail /\ period = Stride * Cycle
    /\ prevpop = totalPopulation(gen)

LInv == IInv /\ Clock /\ SeenOnce /\ Remembered /\ Undercut /\ Repeating /\ FindsCycle

LEMMA SeenKnown ==
  ASSUME IInv, Clock, pc = "hash"
  PROVE  /\ \A j \in Nat : gen - generation + Stride * j \in Nat /\ Seen(j) \in Nat
         /\ gen - generation + Stride * (i + 1) = gen + Stride
         /\ totalHash(gen + Stride) = Seen(i + 1)
<1>0. /\ universe \in Universes /\ gen \in Nat /\ generation \in Nat /\ Stride \in Nat \ {0}
      /\ i \in Nat /\ generation = Stride * i /\ gen >= generation
  BY LoopsAssumption DEF IInv, TypeOK, Clock
<1>1. ASSUME NEW j \in Nat PROVE gen - generation + Stride * j \in Nat /\ Seen(j) \in Nat
  <2>1. Stride * j \in Nat
    BY <1>0
  <2>2. gen - generation + Stride * j \in Nat
    BY <1>0, <2>1
  <2> QED BY <1>0, <2>2, OrbitKnown, Zenon DEF Seen
<1>2. gen - generation + Stride * (i + 1) = gen + Stride
  BY <1>0
<1> QED BY <1>1, <1>2 DEF Seen

\* A pass on the stack comes with its hash.
LEMMA HashOfPass ==
  ASSUME IInv, pc = "hash", NEW j \in Nat, NEW k \in 1 .. Len(genlist), genlist[k] = Stride * j
  PROVE  k \in 1 .. Len(hashlist) /\ hashlist[k] = Seen(j)
  BY DEF IInv, StackAscends, StackIsHistory, Seen

\* A hash on the stack is where it is looked for.
LEMMA FoundInPlace ==
  ASSUME IInv, NEW k \in 1 .. Len(hashlist), NEW h \in Nat, hashlist[k] = h
  PROVE  position(h) = k
<1>0. hashlist \in Seq(Nat) /\ Len(hashlist) \in Nat
  BY DEF IInv, TypeOK
<1> DEFINE pos == position(h)
<1>1. /\ pos \in 1 .. Len(hashlist) + 1 /\ \A l \in 1 .. pos - 1 : hashlist[l] < h
      /\ pos <= Len(hashlist) => ~(hashlist[pos] < h)
  BY <1>0, PositionFound
<1> HIDE DEF pos
<1>2. ~(k < pos)
  BY <1>0, <1>1
<1>3. ~(pos < k)
  <2> SUFFICES ASSUME pos < k PROVE FALSE
    OBVIOUS
  <2>1. pos \in 1 .. Len(hashlist)
    BY <1>0, <1>1
  <2>2. hashlist[pos] < hashlist[k]
    BY <2>1 DEF IInv, StackAscends
  <2> QED BY <1>1, <2>1, <2>2
<1>4. pos = k
  BY <1>0, <1>1, <1>2, <1>3
<1> QED BY <1>4 DEF pos

\* Push keeps what is smaller than the new hash.
LEMMA PushOnStack ==
  ASSUME IInv, Clock, Push
  PROVE  LET h == Seen(i + 1)  pos == position(h) IN
         /\ pc = "hash" /\ i \in Nat /\ Stride \in Nat \ {0} /\ h \in Nat /\ i' = i + 1
         /\ universe' = universe /\ hashlist \in Seq(Nat)
         /\ generation' = generation + Stride /\ generation = Stride * i
         /\ pc' = "hash" => gen' = gen + Stride
         /\ pc' # "hash" => pc' = "done" /\ i' = Hashes
         /\ pos \in 1 .. Len(genlist) + 1 /\ Len(genlist) \in Nat
         /\ Len(hashlist) = Len(genlist)
         /\ \A k \in 1 .. Len(genlist) : hashlist[k] # h
         /\ \A k \in 1 .. Len(genlist) : hashlist[k] < h <=> k < pos
         /\ genlist' \in Seq(Nat) /\ Len(genlist') = pos
         /\ genlist'[pos] = generation + Stride
         /\ \A k \in 1 .. pos - 1 : genlist'[k] = genlist[k]
<1> DEFINE h == Seen(i + 1)  pos == position(h)
<1>0. /\ pc = "hash" /\ i \in Nat /\ generation \in Nat /\ Stride \in Nat \ {0}
      /\ hashlist \in Seq(Nat) /\ genlist \in Seq(Nat) /\ Len(hashlist) = Len(genlist)
      /\ Len(genlist) \in Nat /\ generation = Stride * i
  BY LoopsAssumption DEF IInv, TypeOK, StackAscends, Push, Clock
<1>1. h \in Nat /\ totalHash(gen + Stride) = h
  BY <1>0, SeenKnown
<1> HIDE DEF h
<1>2. /\ ~(pos <= Len(hashlist) /\ hashlist[pos] = h)
      /\ genlist' = Append(trimmed(genlist, pos), generation + Stride)
      /\ generation' = generation + Stride /\ universe' = universe /\ i' = i + 1
      /\ pc' = "hash" => gen' = gen + Stride
      /\ pc' # "hash" => pc' = "done" /\ i' = Hashes
  BY <1>1 DEF Push, stamp, gensLeft
<1>3. /\ pos \in 1 .. Len(hashlist) + 1 /\ \A l \in 1 .. pos - 1 : hashlist[l] < h
      /\ pos <= Len(hashlist) => ~(hashlist[pos] < h)
  BY <1>0, <1>1, PositionFound
<1>4. \A k \in 1 .. Len(genlist) : hashlist[k] # h
  <2> SUFFICES ASSUME NEW k \in 1 .. Len(genlist), hashlist[k] = h PROVE FALSE
    OBVIOUS
  <2>1. pos = k
    BY <1>0, <1>1, FoundInPlace
  <2> QED BY <1>0, <1>2, <2>1
<1> HIDE DEF pos
<1>5. \A k \in 1 .. Len(genlist) : hashlist[k] < h <=> k < pos
  <2> SUFFICES ASSUME NEW k \in 1 .. Len(genlist), hashlist[k] < h, ~(k < pos) PROVE FALSE
    BY <1>0, <1>3
  <2>1. pos \in 1 .. Len(hashlist)
    BY <1>0, <1>3
  <2>2. pos = k \/ hashlist[pos] < hashlist[k]
    BY <1>0, <1>3, <2>1 DEF IInv, StackAscends
  <2>3. hashlist[pos] \in Nat /\ hashlist[k] \in Nat
    BY <1>0, <2>1
  <2> QED BY <1>1, <1>3, <2>1, <2>2, <2>3
<1>6. /\ genlist' \in Seq(Nat) /\ Len(genlist') = pos /\ genlist'[pos] = generation + Stride
      /\ \A k \in 1 .. pos - 1 : genlist'[k] = genlist[k]
  <2> DEFINE e == generation + Stride  new == Append(trimmed(genlist, pos), e)
  <2>1. genlist \in Seq(Nat) /\ pos \in 1 .. Len(genlist) + 1 /\ e \in Nat
    BY <1>0, <1>3
  <2>2. /\ new \in Seq(Nat) /\ Len(new) = pos /\ new[pos] = e
        /\ \A k \in 1 .. pos - 1 : new[k] = genlist[k]
    BY <2>1, TrimmedAndPushed, ZenonT(30)
  <2>3. genlist' = new
    BY <1>2
  <2> HIDE DEF new
  <2> QED BY <2>2, <2>3
<1> QED BY <1>0, <1>1, <1>2, <1>3, <1>4, <1>5, <1>6 DEF pos, h

\* A pass that no smaller hash has thrown off does not meet its hash again: Push
\* would have found it on the stack.
LEMMA NotUnseen ==
  ASSUME LInv, Push, NEW j \in 1 .. i, \A m \in j + 1 .. i : Seen(j) <= Seen(m)
  PROVE  Seen(j) # Seen(i + 1)
<1>0. pc = "hash"
  BY DEF Push
<1>1. PICK k \in 1 .. Len(genlist) : genlist[k] = Stride * j
  BY <1>0 DEF LInv, Remembered
<1>2. hashlist[k] = Seen(j)
  <2>1. j \in Nat
    BY DEF LInv, IInv, TypeOK
  <2> QED BY <1>0, <1>1, <2>1, HashOfPass DEF LInv
<1>3. hashlist[k] # Seen(i + 1)
  BY PushOnStack DEF LInv
<1> QED BY <1>2, <1>3

LEMMA PushRemembers ==
  ASSUME LInv, Push, pc' = "hash"
  PROVE  Clock' /\ SeenOnce' /\ Remembered' /\ Undercut'
<1> DEFINE h == Seen(i + 1)  pos == position(h)
<1>0. /\ pc = "hash" /\ i \in Nat /\ Stride \in Nat \ {0} /\ h \in Nat /\ i' = i + 1
      /\ universe' = universe /\ hashlist \in Seq(Nat)
      /\ generation' = generation + Stride /\ generation = Stride * i
      /\ gen' = gen + Stride
      /\ pos \in 1 .. Len(genlist) + 1 /\ Len(genlist) \in Nat
      /\ Len(hashlist) = Len(genlist)
      /\ \A k \in 1 .. Len(genlist) : hashlist[k] < h <=> k < pos
      /\ genlist' \in Seq(Nat) /\ Len(genlist') = pos
      /\ genlist'[pos] = generation + Stride
      /\ \A k \in 1 .. pos - 1 : genlist'[k] = genlist[k]
  BY PushOnStack DEF LInv
<1>1. gen \in Nat /\ generation \in Nat /\ gen >= generation
  BY <1>0 DEF LInv, IInv, TypeOK, Clock
<1>2. \A j \in Nat : Seen(j) \in Nat
  BY <1>0, SeenKnown DEF LInv
<1>3. \A j : Seen(j)' = Seen(j)
  <2>1. gen' - generation' = gen - generation
    BY <1>0, <1>1
  <2> QED BY <1>0, <2>1 DEF Seen, totalHash, Orbit
<1>4. Clock'
  BY <1>0, <1>1 DEF Clock
<1>5. ASSUME NEW j \in 1 .. i, \A m \in j + 1 .. i : Seen(j) <= Seen(m)
      PROVE  Seen(j) # h
  BY <1>5, NotUnseen
<1>6. ASSUME NEW j \in Nat, NEW k \in 1 .. Len(genlist), genlist[k] = Stride * j
      PROVE  hashlist[k] = Seen(j)
  BY <1>0, <1>6, HashOfPass DEF LInv
<1>7. SeenOnce'
  <2>1. SUFFICES ASSUME NEW j \in 1 .. i + 1, NEW l \in 1 .. i + 1, j < l, Seen(j) = Seen(l)
                 PROVE  \E m \in j + 1 .. l - 1 : Seen(m) < Seen(j)
    BY <1>0, <1>3 DEF SeenOnce
  <2>2. CASE l <= i
    <3>1. j \in 1 .. i /\ l \in 1 .. i
      BY <1>0, <2>1, <2>2
    <3> QED BY <1>0, <2>1, <3>1 DEF LInv, SeenOnce
  <2>3. CASE l = i + 1
    <3>1. SUFFICES ASSUME ~\E m \in j + 1 .. l - 1 : Seen(m) < Seen(j) PROVE FALSE
      OBVIOUS
    <3>2. j \in 1 .. i /\ j \in Nat
      BY <1>0, <2>1, <2>3
    <3>3. ASSUME NEW m \in j + 1 .. i PROVE Seen(j) <= Seen(m)
      <4>1. m \in Nat /\ m \in j + 1 .. l - 1
        BY <1>0, <2>3, <3>2
      <4> QED BY <1>2, <3>1, <3>2, <4>1
    <3> QED BY <1>5, <2>1, <2>3, <3>2, <3>3
  <2> QED BY <1>0, <2>2, <2>3
<1>8. Remembered'
  <2>1. SUFFICES ASSUME NEW j \in 1 .. i + 1, \A m \in j + 1 .. i + 1 : Seen(j) <= Seen(m)
                 PROVE  \E k \in 1 .. pos : genlist'[k] = Stride * j
    BY <1>0, <1>3 DEF Remembered
  <2>2. CASE j = i + 1
    <3>1. Stride * j = generation + Stride
      BY <1>0, <2>2
    <3>2. pos \in 1 .. pos
      BY <1>0
    <3> HIDE DEF h, pos
    <3> QED BY <1>0, <3>1, <3>2
  <2>3. CASE j # i + 1
    <3>1. j \in 1 .. i /\ j \in Nat
      BY <1>0, <2>3
    <3>2. \A m \in j + 1 .. i : Seen(j) <= Seen(m)
      BY <1>0, <2>1
    <3>3. PICK k \in 1 .. Len(genlist) : genlist[k] = Stride * j
      BY <1>0, <3>1, <3>2 DEF LInv, Remembered
    <3>4. hashlist[k] = Seen(j)
      BY <1>6, <3>1, <3>3
    <3>5. Seen(j) # h /\ Seen(j) <= h
      <4>1. i + 1 \in j + 1 .. i + 1
        BY <1>0, <3>1
      <4> QED BY <1>5, <2>1, <3>1, <3>2, <4>1
    <3>6. Seen(j) < h
      BY <1>0, <1>2, <3>1, <3>5, SMTT(20)
    <3> HIDE DEF h, pos
    <3>7. k < pos
      BY <1>0, <3>4, <3>6
    <3>8. k \in 1 .. pos /\ k \in 1 .. pos - 1
      BY <1>0, <3>7
    <3>9. genlist'[k] = genlist[k]
      BY <1>0, <3>8
    <3> QED BY <3>3, <3>8, <3>9
  <2> QED BY <2>2, <2>3
<1>9. Undercut'
  <2>1. SUFFICES ASSUME NEW k \in 1 .. pos
                 PROVE  \E j \in 1 .. i + 1 :
                          /\ genlist'[k] = Stride * j
                          /\ \A m \in j + 1 .. i + 1 : Seen(j) < Seen(m)
    BY <1>0, <1>3 DEF Undercut
  <2>2. CASE k = pos
    <3>1. genlist'[k] = Stride * (i + 1)
      <4> HIDE DEF h, pos
      <4> QED BY <1>0, <2>2
    <3>2. i + 1 \in 1 .. i + 1 /\ \A m \in (i + 1) + 1 .. i + 1 : Seen(i + 1) < Seen(m)
      BY <1>0
    <3> QED BY <3>1, <3>2
  <2>3. CASE k # pos
    <3> HIDE DEF h, pos
    <3>1. k \in 1 .. pos - 1 /\ k \in 1 .. Len(genlist)
      BY <1>0, <2>3
    <3>2. PICK j \in 1 .. i : /\ genlist[k] = Stride * j
                              /\ \A m \in j + 1 .. i : Seen(j) < Seen(m)
      BY <1>0, <3>1 DEF LInv, Undercut
    <3>3. j \in Nat /\ j \in 1 .. i + 1
      BY <1>0
    <3>4. hashlist[k] = Seen(j) /\ k < pos
      BY <1>0, <1>6, <3>1, <3>2, <3>3
    <3>5. Seen(j) < h
      BY <1>0, <3>1, <3>4
    <3>6. ASSUME NEW m \in j + 1 .. i + 1 PROVE Seen(j) < Seen(m)
      <4>1. m \in j + 1 .. i \/ m = i + 1
        BY <1>0, <3>3
      <4> QED BY <3>2, <3>5, <4>1 DEF h
    <3>7. genlist'[k] = Stride * j
      BY <1>0, <3>1, <3>2
    <3> QED BY <3>3, <3>6, <3>7
  <2> QED BY <2>2, <2>3
<1> QED BY <1>4, <1>7, <1>8, <1>9

\* A pass that comes up again on the stack is the last one at its state of the
\* universe, so it is one Cycle back.
LEMMA OneCycleBack ==
  ASSUME LInv, Injective, pc = "hash", NEW k \in 1 .. Len(genlist),
         hashlist[k] = Seen(i + 1)
  PROVE  gen >= CycleStart /\ generation + Stride - genlist[k] = Stride * Cycle
<1>0. /\ universe \in Universes /\ gen \in Nat /\ generation \in Nat /\ i \in Nat
      /\ Stride \in Nat \ {0} /\ CycleStart \in Nat /\ CycleLength \in Nat \ {0}
      /\ generation = Stride * i /\ gen >= generation
  BY LoopsAssumption, UniverseKnown DEF LInv, IInv, TypeOK, Clock
<1>1. PICK j \in 1 .. i : /\ genlist[k] = Stride * j
                          /\ \A m \in j + 1 .. i : Seen(j) < Seen(m)
  BY DEF LInv, Undercut
<1>2. j \in Nat /\ j <= i
  BY <1>0
<1>3. Seen(j) = Seen(i + 1)
  BY <1>1, <1>2, HashOfPass DEF LInv
<1> DEFINE g == gen - generation + Stride * j  n == i + 1 - j
<1>4. /\ n \in Nat \ {0} /\ g \in Nat /\ g <= gen /\ Stride * n \in Nat \ {0}
      /\ g + Stride * n = gen - generation + Stride * (i + 1)
      /\ generation + Stride - genlist[k] = Stride * n
  <2>1. n \in Nat \ {0} /\ Stride * j \in Nat /\ Stride * j <= Stride * i
    <3>1. Stride * (i - j) \in Nat
      <4>1. i - j \in Nat
        BY <1>0, <1>2
      <4> QED BY <1>0, <4>1
    <3> QED BY <1>0, <1>2, <3>1
  <2>2. Stride * n > 0
    BY <1>0, <2>1
  <2> QED BY <1>0, <1>1, <1>2, <2>1, <2>2
<1>5. totalHash(g) = Seen(j) /\ totalHash(g + Stride * n) = Seen(i + 1)
  BY <1>4 DEF Seen
<1>6. \A m \in Nat : g + Stride * m = gen - generation + Stride * (j + m)
  BY <1>0, <1>2
<1> HIDE DEF g
<1>7. g >= CycleStart /\ (Stride * n) % CycleLength = 0
  <2>1. Orbit(g + Stride * n) = Orbit(g)
    <3>1. g + Stride * n \in Nat
      BY <1>4
    <3> QED BY <1>0, <1>3, <1>4, <1>5, <3>1, HashTells
  <2> QED BY <1>0, <1>4, <2>1, BackOnCycle
<1>8. /\ Cycle \in Nat \ {0} /\ (Stride * Cycle) % CycleLength = 0
      /\ \A m \in 1 .. Cycle - 1 : (Stride * m) % CycleLength # 0
  BY <1>0, CycleIsLeast
<1> DEFINE c == Cycle
<1> HIDE DEF c
<1>9. /\ c \in Nat \ {0} /\ (Stride * c) % CycleLength = 0
      /\ \A m \in 1 .. c - 1 : (Stride * m) % CycleLength # 0
  BY <1>8 DEF c
<1>10. ~(n < c)
  BY <1>4, <1>7, <1>9
<1>11. ~(c < n)
  <2> SUFFICES ASSUME c < n PROVE FALSE
    OBVIOUS
  <2>1. j + c \in j + 1 .. i /\ j + c \in Nat /\ Stride * c \in Nat
    BY <1>0, <1>2, <1>9
  <2>2. Orbit(g + Stride * c) = Orbit(g)
    BY <1>0, <1>4, <1>7, <1>9, <2>1, RoundAgain
  <2>3. totalHash(g + Stride * c) = totalHash(g)
    BY <2>2 DEF totalHash
  <2>4. Seen(j + c) = totalHash(g + Stride * c)
    BY <1>6, <1>9 DEF Seen
  <2>5. Seen(j + c) = Seen(j)
    BY <1>5, <2>3, <2>4
  <2>6. Seen(j) < Seen(j + c) /\ Seen(j) \in Nat
    BY <1>1, <1>2, <2>1, SeenKnown DEF LInv
  <2> QED BY <2>5, <2>6
<1>12. n = c
  BY <1>4, <1>9, <1>10, <1>11
<1>13. gen >= CycleStart
  BY <1>0, <1>4, <1>7
<1> QED BY <1>4, <1>12, <1>13 DEF c

\* Nothing before the second phase or after it is said about the stack.
LEMMA NoStack ==
  ASSUME pc' # "hash" \/ (pc' = "hash" /\ genlist' = <<>> /\ i' = 0 /\ generation' = 0 /\ gen' \in Nat)
  PROVE  Clock' /\ SeenOnce' /\ Remembered' /\ Undercut'
<1>1. CASE pc' # "hash"
  BY <1>1 DEF Clock, SeenOnce, Remembered, Undercut
<1>2. CASE pc' = "hash" /\ genlist' = <<>> /\ i' = 0 /\ generation' = 0 /\ gen' \in Nat
  <2>1. Clock'
    BY <1>2, LoopsAssumption DEF Clock
  <2>2. Undercut'
    BY <1>2 DEF Undercut
  <2>3. SeenOnce' /\ Remembered'
    <3>1. \A j \in 1 .. 0 : FALSE
      OBVIOUS
    <3>2. i' = 0
      BY <1>2
    <3> QED BY <3>1, <3>2 DEF SeenOnce, Remembered
  <2> QED BY <2>1, <2>2, <2>3
<1> QED BY <1>1, <1>2

LEMMA SampleL == ASSUME LInv, Sample PROVE LInv'
<1>1. IInv'
  BY SampleStep DEF LInv
<1>2. /\ genlist' = <<>> /\ generation' = 0 /\ gen' \in Nat /\ i \in Nat
      /\ pc' \in {"sample", "hash", "done"}
      /\ pc' = "hash" => i' = 0
  <2>1. gen' \in Nat /\ i \in Nat /\ Samples \in Nat \ {0}
    BY <1>1, LoopsAssumption DEF LInv, IInv, TypeOK
  <2>2. genlist' = <<>> /\ generation' = 0
    BY DEF Sample, phase2, LInv, IInv, Stamps
  <2>3. pc' \in {"sample", "hash", "done"} /\ (pc' = "hash" => i' = 0)
    BY <2>1 DEF Sample
  <2> QED BY <2>1, <2>2, <2>3
<1>3. Clock' /\ SeenOnce' /\ Remembered' /\ Undercut'
  BY <1>2, NoStack
<1>4. Repeating' /\ FindsCycle'
  BY <1>2 DEF Repeating, FindsCycle
<1> QED BY <1>1, <1>3, <1>4 DEF LInv

LEMMA PushL == ASSUME LInv, Push PROVE LInv'
<1>1. IInv'
  BY PushStep DEF LInv
<1>2. i \in Nat /\ i' = i + 1 /\ pc' \in {"hash", "done"} /\ (pc' = "done" => i' = Hashes)
  BY DEF Push, LInv, IInv, TypeOK
<1>3. Clock' /\ SeenOnce' /\ Remembered' /\ Undercut'
  BY <1>2, PushRemembers, NoStack
<1>4. Repeating' /\ FindsCycle'
  BY <1>2, LoopsAssumption DEF Repeating, FindsCycle
<1> QED BY <1>1, <1>3, <1>4 DEF LInv

LEMMA MatchL == ASSUME LInv, Match PROVE LInv'
<1> DEFINE h == Seen(i + 1)  pos == position(h)
<1>1. IInv'
  BY MatchStep DEF LInv
<1>2. /\ gen \in Nat /\ generation \in Nat /\ i \in Nat /\ pc = "hash"
      /\ Stride \in Nat \ {0} /\ hashlist \in Seq(Nat) /\ Len(hashlist) = Len(genlist)
      /\ universe \in Universes
  BY LoopsAssumption DEF LInv, IInv, TypeOK, StackAscends, Match
<1>3. h \in Nat /\ totalHash(gen + Stride) = h
  BY <1>2, SeenKnown DEF LInv
<1> HIDE DEF h
<1>4. /\ pos <= Len(hashlist) /\ hashlist[pos] = h
      /\ period' = generation + Stride - genlist[pos]
      /\ prevpop' = totalPopulation(gen + Stride)
      /\ gen' = gen + Stride /\ i' = 0 /\ pc' = "repeat" /\ universe' = universe
  BY <1>3 DEF Match
<1>5. pos \in 1 .. Len(hashlist) + 1
  BY <1>2, <1>3, PositionFound
<1> HIDE DEF pos
<1>6. pos \in 1 .. Len(genlist)
  BY <1>2, <1>4, <1>5
<1>7. Injective => gen >= CycleStart /\ period' = Stride * Cycle
  BY <1>2, <1>4, <1>6, OneCycleBack DEF h
<1>8. /\ Injective' = Injective /\ Cycle' = Cycle
      /\ \A g : totalPopulation(g)' = totalPopulation(g)
  BY <1>4 DEF Injective, Cycle, totalPopulation, Orbit
<1>9. Repeating'
  <2>1. SUFFICES ASSUME Injective
                 PROVE  /\ gen' >= universe'.tail /\ period' = Stride * Cycle
                        /\ prevpop' = totalPopulation(gen')
    BY <1>4, <1>8 DEF Repeating
  <2>2. gen + Stride >= CycleStart
    BY <1>2, <1>7, <2>1, UniverseKnown
  <2> QED BY <1>4, <1>7, <2>1, <2>2 DEF CycleStart
<1>10. FindsCycle'
  BY <1>4, <1>7, <1>8 DEF FindsCycle
<1> QED BY <1>1, <1>4, <1>9, <1>10, NoStack DEF LInv

\* On its cycle the universe agrees with itself a period later.
LEMMA RepeatL == ASSUME LInv, Repeat PROVE LInv'
<1>1. IInv'
  BY RepeatStep DEF LInv
<1>2. /\ gen \in Nat /\ universe \in Universes /\ Stride \in Nat \ {0} /\ pc = "repeat"
      /\ period \in Nat
  BY LoopsAssumption DEF LInv, IInv, TypeOK, Repeat
<1>3. /\ gen' = gen + period /\ i' = i + 1 /\ universe' = universe /\ period' = period
      /\ pc' \in {"repeat", "done"}
      /\ genlist' = genlist
  BY DEF Repeat, phase2
<1>4. /\ Injective' = Injective /\ Cycle' = Cycle
      /\ \A g : totalPopulation(g)' = totalPopulation(g)
  BY <1>3 DEF Injective, Cycle, totalPopulation, Orbit
<1>5. ASSUME Injective
      PROVE  /\ gen >= CycleStart /\ period = Stride * Cycle /\ prevpop = totalPopulation(gen)
             /\ totalPopulation(gen + period) = totalPopulation(gen) /\ gen + period >= CycleStart
  <2>1. gen >= CycleStart /\ period = Stride * Cycle /\ prevpop = totalPopulation(gen)
    BY <1>2, <1>5 DEF LInv, Repeating, CycleStart
  <2>2. period % CycleLength = 0
    BY <1>2, <2>1, CycleIsLeast
  <2>3. Orbit(gen + period) = Orbit(gen)
    BY <1>2, <2>1, <2>2, RoundAgain
  <2>4. gen + period >= CycleStart
    BY <1>2, <2>1, UniverseKnown
  <2> QED BY <2>1, <2>3, <2>4 DEF totalPopulation
<1>6. ASSUME Injective
      PROVE  prevpop' = totalPopulation(gen + period)
             /\ (pc' = "done" => result' = period)
  <2>1. totalPopulation(gen') = prevpop
    BY <1>3, <1>5, <1>6
  <2> QED BY <1>3, <1>4, <2>1 DEF Repeat
<1>7. Repeating'
  <2>1. SUFFICES ASSUME Injective
                 PROVE  /\ gen' >= universe'.tail /\ period' = Stride * Cycle
                        /\ prevpop' = totalPopulation(gen')
    BY <1>4 DEF Repeating
  <2> QED BY <1>3, <1>5, <1>6, <2>1 DEF CycleStart
<1>8. FindsCycle'
  <2>1. SUFFICES ASSUME Injective
                 PROVE  period' = Stride * Cycle /\ (pc' = "done" => result' = period')
    BY <1>4 DEF FindsCycle
  <2> QED BY <1>3, <1>5, <1>6, <2>1
<1>9. Clock' /\ SeenOnce' /\ Remembered' /\ Undercut'
  BY <1>3, NoStack
<1> QED BY <1>1, <1>7, <1>8, <1>9 DEF LInv

LEMMA InitL == Init => LInv
<1> SUFFICES ASSUME Init PROVE LInv
  OBVIOUS
<1>1. pc = "sample" /\ genlist = <<>>
  BY DEF Init
<1> QED BY <1>1, InitIInv DEF LInv, Clock, SeenOnce, Remembered, Undercut, Repeating, FindsCycle

LEMMA NextL == LInv /\ [Next]_vars => LInv'
<1> SUFFICES ASSUME LInv, [Next]_vars PROVE LInv'
  OBVIOUS
<1>1. CASE UNCHANGED vars
  <2>1. IInv'
    BY <1>1, NextIInv DEF LInv
  <2>2. UNCHANGED <<universe, gen, pc, i, prevpop, period, hashlist, genlist, generation, result>>
    BY <1>1 DEF vars, phase2
  <2>3. /\ Injective' = Injective /\ Cycle' = Cycle
        /\ \A g : totalPopulation(g)' = totalPopulation(g) /\ Seen(g)' = Seen(g)
    BY <2>2 DEF Injective, Cycle, totalPopulation, totalHash, Orbit, Seen
  <2>4. Clock' /\ Repeating' /\ FindsCycle'
    BY <2>2, <2>3 DEF LInv, Clock, Repeating, FindsCycle
  <2>5. SeenOnce'
    BY <2>2, <2>3 DEF LInv, SeenOnce
  <2>6. Remembered' /\ Undercut'
    BY <2>2, <2>3 DEF LInv, Remembered, Undercut
  <2> QED BY <2>1, <2>4, <2>5, <2>6 DEF LInv
<1> QED BY <1>1, SampleL, PushL, MatchL, RepeatL DEF Next, Terminated

LEMMA InductiveL == Spec => []LInv
  BY InitL, NextL, PTL DEF Spec

\* Two laps on the cycle cannot both be seen: the least hash of the first would
\* have come up again with no smaller one in between.
LEMMA TwoLaps == LInv => FoundBySecondLap
<1> SUFFICES ASSUME LInv, pc = "hash", NEW k \in SeenOnCycle, ~(i - k + 1 < 2 * Cycle)
             PROVE  FALSE
  BY DEF FoundBySecondLap
<1>0. /\ universe \in Universes /\ gen \in Nat /\ generation \in Nat /\ i \in Nat
      /\ Stride \in Nat \ {0} /\ CycleStart \in Nat /\ CycleLength \in Nat \ {0}
      /\ generation = Stride * i /\ gen >= generation
  BY LoopsAssumption, UniverseKnown DEF LInv, IInv, TypeOK, Clock
<1>1. Cycle \in Nat \ {0} /\ (Stride * Cycle) % CycleLength = 0
  BY <1>0, CycleIsLeast
<1> DEFINE c == Cycle
<1> HIDE DEF c
<1>2. c \in Nat \ {0} /\ (Stride * c) % CycleLength = 0
  BY <1>1 DEF c
<1>3. k \in 1 .. i /\ gen - Stride * (i - k) >= CycleStart /\ k + c + c - 1 <= i
  <2>1. k \in 1 .. i /\ gen - Stride * (i - k) >= CycleStart
    BY DEF SeenOnCycle, CycleStart
  <2>2. ~(i - k + 1 < 2 * c)
    BY DEF c
  <2> QED BY <1>0, <1>2, <2>1, <2>2
<1>4. ASSUME NEW m \in k .. i, m + c <= i PROVE Seen(m + c) = Seen(m)
  <2> DEFINE g == gen - generation + Stride * m
  <2>1. g \in Nat /\ g >= CycleStart /\ Stride * c \in Nat
    <3>1. m - k \in Nat /\ m \in Nat
      BY <1>0, <1>3
    <3>2. Stride * (m - k) \in Nat /\ Stride * c \in Nat /\ Stride * m \in Nat
      BY <1>0, <1>2, <3>1
    <3>3. g = gen - Stride * (i - k) + Stride * (m - k)
      BY <1>0, <1>3, <3>1
    <3> QED BY <1>0, <1>3, <3>2, <3>3
  <2>2. gen - generation + Stride * (m + c) = g + Stride * c
    BY <1>0, <1>2, <1>3
  <2>3. totalHash(g) = Seen(m) /\ totalHash(g + Stride * c) = Seen(m + c)
    BY <2>2 DEF Seen
  <2> HIDE DEF g
  <2>4. Orbit(g + Stride * c) = Orbit(g)
    BY <1>0, <1>2, <2>1, RoundAgain
  <2> QED BY <2>3, <2>4 DEF totalHash
<1>5. \A m \in Nat : Seen(m) \in Nat
  BY SeenKnown DEF LInv
<1>6. PICK j \in k .. k + c - 1 : \A m \in k .. k + c - 1 : Seen(j) <= Seen(m)
  <2> DEFINE T == {Seen(m) : m \in k .. k + c - 1}
  <2>1. T \in SUBSET Nat /\ T # {}
    <3>1. k \in k .. k + c - 1 /\ \A m \in k .. k + c - 1 : m \in Nat
      BY <1>0, <1>2, <1>3
    <3> QED BY <1>5, <3>1
  <2>2. PICK x \in T : \A y \in T : x <= y
    <3> HIDE DEF T
    <3> QED BY <2>1, LeastOf
  <2> QED BY <2>2
<1>7. /\ j \in Nat /\ j \in k .. i /\ j \in 1 .. i /\ j + c \in 1 .. i /\ j < j + c /\ j + c <= i
  BY <1>0, <1>2, <1>3
<1>8. Seen(j + c) = Seen(j)
  BY <1>4, <1>7
<1>9. PICK m \in j + 1 .. j + c - 1 : Seen(m) < Seen(j)
  <2>1. PICK l \in 1 .. i : l = j + c
    BY <1>7
  <2>2. j < l /\ Seen(j) = Seen(l)
    BY <1>7, <1>8, <2>1
  <2>3. \E m \in j + 1 .. l - 1 : Seen(m) < Seen(j)
    BY <1>7, <2>2 DEF LInv, SeenOnce
  <2> QED BY <1>2, <1>7, <2>1, <2>3
<1>10. m \in Nat /\ m \in k .. i
  BY <1>0, <1>2, <1>3, <1>7
<1>11. CASE m <= k + c - 1
  <2>1. Seen(j) <= Seen(m)
    BY <1>6, <1>10, <1>11, <1>3, <1>2
  <2> QED BY <1>5, <1>7, <1>9, <1>10, <2>1
<1>12. CASE k + c <= m
  <2>1. m - c \in k .. k + c - 1 /\ m - c \in k .. i /\ (m - c) + c = m /\ (m - c) + c <= i
    BY <1>0, <1>2, <1>3, <1>7, <1>12
  <2>2. PICK w \in k .. k + c - 1 : w \in k .. i /\ w + c = m /\ w + c <= i
    BY <2>1
  <2>3. Seen(m) = Seen(w)
    BY <1>4, <2>2
  <2>4. Seen(j) <= Seen(m)
    BY <1>6, <2>2, <2>3
  <2> QED BY <1>5, <1>7, <1>9, <1>10, <2>4
<1> QED BY <1>0, <1>2, <1>3, <1>10, <1>11, <1>12

\* Whatever the universe and however hashes collide, the stack finds a cycle
\* before its second lap is over.
THEOREM FoundInTime == Spec => []FoundBySecondLap
  BY InductiveL, TwoLaps, PTL

\* Unless hashes collide, the period reported is the shortest one a stride can
\* see, and no repetition contradicts it.
THEOREM ShortestCycle == Spec => []FindsCycle
<1>1. LInv => FindsCycle
  BY DEF LInv
<1> QED BY <1>1, InductiveL, PTL
=============================================================================
