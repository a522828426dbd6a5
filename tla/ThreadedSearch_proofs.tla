----------------------- MODULE ThreadedSearch_proofs -----------------------
(***************************************************************************)
(* Proofs about ThreadedSearch for every number of threads, epoch size,    *)
(* haul size and set of surviving soups.                                   *)
(***************************************************************************)
EXTENDS ThreadedSearch, FiniteSetTheorems, TLAPS

InRound == pc \in {"pump", "join", "tally"}

Busy(w) == wpc[w] \in {"census", "count"}

BusyWorkers == {w \in Workers : Busy(w)}

\* Where the threads can be, and what has been aggregated.
Threads ==
  /\ pc \notin {"pump", "join"} => \A w \in Workers : wpc[w] = "done"
  /\ pc = "pump" => joined = 0
  /\ pc = "tally" => joined = numThreads
  /\ InRound => \A w \in 1 .. joined : wpc[w] = "done" /\ local[w] \subseteq census
  /\ ~InRound => \A w \in Workers : local[w] = {}

\* What a worker holds was handed to it alone.
Holding ==
  /\ \A w \in Workers : Busy(w) => held[w] \in idx
  /\ \A w \in Workers : wpc[w] = "census" => held[w] \notin Searched
  /\ \A v, w \in Workers : Busy(v) /\ Busy(w) /\ v # w => held[v] # held[w]
  /\ Searched \cap nvec \subseteq idx

\* ts trails idx by the soups in the workers' hands.
Counting ==
  /\ IsFiniteSet(vec) /\ IsFiniteSet(nvec)
  /\ ts + Cardinality(BusyWorkers) = Cardinality(idx)

\* lb separates what has been searched from what will be.
Bounds ==
  /\ \A x \in Searched \cup nvec : x < lb
  /\ InRound =>
       /\ soupsCompletedSinceStart <= newi /\ newi <= maxcount
       /\ lb <= NextBoundary(newi)
       /\ \A x \in vec : x < NextBoundary(newi)
  /\ ~InRound /\ running =>
       /\ soupsCompletedSinceStart <= maxcount
       /\ lb <= NextBoundary(soupsCompletedSinceStart)
       /\ \A x \in vec : x < NextBoundary(soupsCompletedSinceStart)

IInv == TypeOK /\ Threads /\ Holding /\ Counting /\ Bounds
-----------------------------------------------------------------------------
(* The arithmetic of epochs.                                               *)

\* The epoch of soup i starts at or below it.
LEMMA EpochFacts ==
  ASSUME NEW i \in Nat
  PROVE  /\ i \div epoch_size \in Nat
         /\ (i \div epoch_size) * epoch_size \in Nat
         /\ (i \div epoch_size) * epoch_size <= i
         /\ (i \div epoch_size) * epoch_size + epoch_size = NextBoundary(i)
         /\ i < NextBoundary(i)
<1> DEFINE k == i \div epoch_size
<1>1. epoch_size \in Nat \ {0} /\ k \in Nat
  BY SizesAssumption
<1>2. /\ k * epoch_size <= i /\ i < (k + 1) * epoch_size
      /\ (k + 1) * epoch_size = k * epoch_size + epoch_size
      /\ k * epoch_size \in Nat
  BY <1>1
<1> QED BY <1>1, <1>2 DEF NextBoundary

\* NextBoundary(i) is the first multiple of epoch_size above i.
LEMMA BoundaryFacts ==
  ASSUME NEW i \in Nat
  PROVE  /\ NextBoundary(i) \in Nat
         /\ i < NextBoundary(i)
         /\ NextBoundary(NextBoundary(i)) = NextBoundary(i) + epoch_size
<1> DEFINE k == i \div epoch_size
<1>1. epoch_size \in Nat \ {0} /\ k \in Nat
  BY SizesAssumption
<1>2. (k + 1) * epoch_size \in Nat
  BY <1>1
<1>3. ((k + 1) * epoch_size) \div epoch_size = k + 1
  BY <1>1
<1>4. (k + 1 + 1) * epoch_size = (k + 1) * epoch_size + epoch_size
  BY <1>1
<1> QED BY <1>2, <1>3, <1>4, EpochFacts DEF NextBoundary

\* Boundaries do not decrease.
LEMMA BoundaryMonotone ==
  ASSUME NEW i \in Nat, NEW j \in Nat, i <= j
  PROVE  NextBoundary(i) <= NextBoundary(j)
<1>1. epoch_size \in Nat \ {0} BY SizesAssumption
<1>2. i \div epoch_size \in Nat /\ j \div epoch_size \in Nat
      /\ i \div epoch_size <= j \div epoch_size
  BY <1>1
<1>3. \A a, b \in Nat : a <= b => (a + 1) * epoch_size <= (b + 1) * epoch_size
  BY <1>1
<1> QED BY <1>2, <1>3 DEF NextBoundary

\* What pump appends for the epoch of soup i lies below the boundary after i,
\* and not below the epoch's first soup.
LEMMA PumpFacts ==
  ASSUME NEW i \in Nat
  PROVE  /\ pump(i \div epoch_size) \subseteq Nat
         /\ IsFiniteSet(pump(i \div epoch_size))
         /\ \A x \in pump(i \div epoch_size) :
              (i \div epoch_size) * epoch_size <= x /\ x < NextBoundary(i)
<1> DEFINE k == i \div epoch_size
<1>1. /\ k \in Nat /\ epoch_size \in Nat \ {0} /\ k * epoch_size \in Nat
      /\ k * epoch_size + epoch_size = NextBoundary(i)
  BY SizesAssumption, EpochFacts
<1> HIDE DEF k
<1>2. Epoch(k) \subseteq Nat /\ pump(k) \subseteq Epoch(k)
  BY <1>1 DEF Epoch, pump
<1>3. IsFiniteSet(Epoch(k))
  BY <1>1, FS_Interval DEF Epoch
<1>4. IsFiniteSet(pump(k))
  BY <1>2, <1>3, FS_Subset
<1>5. \A x \in Epoch(k) : k * epoch_size <= x /\ x < NextBoundary(i)
  BY <1>1 DEF Epoch
<1> QED BY <1>2, <1>4, <1>5 DEF k

\* The first epoch.
LEMMA FirstPump ==
  pump(0) \subseteq Nat /\ IsFiniteSet(pump(0)) /\ \A x \in pump(0) : x < NextBoundary(0)
<1>1. 0 \div epoch_size = 0 BY SizesAssumption
<1> QED BY <1>1, PumpFacts
-----------------------------------------------------------------------------
(* The inductive invariant.                                                *)

\* There are finitely many workers.
LEMMA WorkersFinite == IsFiniteSet(Workers)
<1>1. numThreads \in Int BY ThreadsAssumption
<1> QED BY <1>1, FS_Interval DEF Workers

\* So the workers that have censused a soup they have not counted are a number.
LEMMA BusyFinite == IsFiniteSet(BusyWorkers) /\ Cardinality(BusyWorkers) \in Nat
<1>1. BusyWorkers \subseteq Workers BY DEF BusyWorkers
<1>2. IsFiniteSet(BusyWorkers) BY <1>1, WorkersFinite, FS_Subset
<1> QED BY <1>2, FS_CardinalityType

\* The soups searched are numbers.
LEMMA SearchedNat == TypeOK => Searched \subseteq Nat
<1> SUFFICES ASSUME TypeOK PROVE Searched \subseteq Nat
  OBVIOUS
<1>1. \A w \in Workers : \A x \in local[w] : x \in Nat
  BY DEF TypeOK
<1>2. \A x \in census : x \in Nat
  BY DEF TypeOK
<1> QED BY <1>1, <1>2 DEF Searched

\* The invariant holds at the start.
LEMMA InitIInv == Init => IInv
<1> SUFFICES ASSUME Init PROVE IInv
  OBVIOUS
<1> USE DEF Init
<1>1. pump(0) \subseteq Nat /\ IsFiniteSet(pump(0))
      /\ \A x \in pump(0) : x < NextBoundary(0)
  BY FirstPump
<1>2. TypeOK
  BY <1>1, ThreadsAssumption, SizesAssumption DEF TypeOK, NoHaul
<1>3. Searched = {} /\ BusyWorkers = {}
  BY DEF Searched, BusyWorkers, Busy
<1>4. Threads /\ Holding
  BY <1>3 DEF Threads, Holding, InRound, Busy
<1>5. Counting
  BY <1>1, <1>3, FS_EmptySet DEF Counting
<1>6. Bounds
  BY <1>1, <1>3, SizesAssumption, BoundaryFacts DEF Bounds, InRound
<1> QED BY <1>2, <1>4, <1>5, <1>6 DEF IInv

\* What a round adds is a natural number, and all of it when the search was
\* not stopped.
LEMMA RoundCountNat ==
  ASSUME TypeOK, Counting, pc = "tally", soupsCompletedSinceStart <= newi
  PROVE  RoundCount \in Nat
<1>1. newi - soupsCompletedSinceStart \in Nat
  BY DEF TypeOK
<1>2. Cardinality(nvec) \in Nat
  BY FS_CardinalityType DEF Counting
<1>3. CASE ts = Cardinality(nvec)
  BY <1>1, <1>3 DEF RoundCount
<1>4. CASE ts # Cardinality(nvec)
  <2>1. Cardinality(nvec) # 0
    <3> SUFFICES ASSUME Cardinality(nvec) = 0 PROVE FALSE
      OBVIOUS
    <3>1. idx = {}
      BY FS_EmptySet DEF Counting, TypeOK
    <3>2. Cardinality(idx) = 0
      BY <3>1, FS_EmptySet
    <3>3. ts + Cardinality(BusyWorkers) = 0 /\ ts \in Nat
      BY <3>2 DEF Counting, TypeOK
    <3>4. ts = 0
      BY <3>3, BusyFinite
    <3> QED BY <1>4, <3>4
  <2> DEFINE prod == (newi - soupsCompletedSinceStart) * ts
  <2>2. prod \in Nat
    BY <1>1 DEF TypeOK
  <2>3. prod \div Cardinality(nvec) \in Nat
    BY <2>1, <2>2, <1>2
  <2> QED BY <1>1, <2>3 DEF RoundCount
<1> QED BY <1>3, <1>4

\* Every step keeps the types.
LEMMA TypeStep == IInv /\ [Next]_vars => TypeOK'
<1> SUFFICES ASSUME IInv, [Next]_vars PROVE TypeOK'
  OBVIOUS
<1> USE DEF TypeOK, mainVars, workerVars
<1>0. TypeOK /\ Counting /\ epoch_size \in Nat \ {0} /\ soupsPerHaul \in Nat
      /\ numThreads \in Nat
  BY SizesAssumption, ThreadsAssumption DEF IInv
<1>1. CASE StartRound
  <2>1. lb' \in Nat
    BY <1>0, <1>1, BoundaryFacts DEF StartRound
  <2>2. nvec' \subseteq Nat
    BY <1>0, <1>1 DEF StartRound, narrow
  <2> QED BY <1>0, <1>1, <2>1, <2>2 DEF StartRound
<1>2. CASE ExitLoop
  BY <1>0, <1>2 DEF ExitLoop
<1>3. CASE PumpEpoch
  <2>1. NextBoundary(newi) \in Nat
    BY <1>0, BoundaryFacts
  <2>2. pump(NextBoundary(newi) \div epoch_size) \subseteq Nat
    BY <2>1, PumpFacts
  <2> QED BY <1>0, <1>3, <2>1, <2>2 DEF PumpEpoch
<1>4. CASE JoinThread
  <2>1. joined + 1 \in Workers
    BY <1>0, <1>4 DEF JoinThread, Aggregated, Workers
  <2>2. local[joined + 1] \subseteq Nat
    BY <1>0, <2>1
  <2>3. joined' \in 0 .. numThreads
    BY <1>0, <1>4 DEF JoinThread, Aggregated
  <2>4. pc' \in {"tally", "join"}
    BY <1>4 DEF JoinThread, Aggregated
  <2> QED BY <1>0, <1>4, <2>2, <2>3, <2>4 DEF JoinThread, Aggregated
<1>5. CASE Tally
  <2>1. RoundCount \in Nat
    BY <1>5, RoundCountNat DEF Tally, IInv, Bounds, InRound
  <2> QED BY <1>0, <1>5, <2>1 DEF Tally
<1>6. CASE Report
  BY <1>0, <1>6 DEF Report
<1>7. CASE Retry
  <2>1. pump(soupsCompletedSinceStart \div epoch_size) \subseteq Nat
    BY <1>0, PumpFacts
  <2>2. vec' \subseteq Nat /\ maxcount' \in Nat
    <3>1. CASE running
      BY <1>0, <1>7, <2>1, <3>1 DEF Retry
    <3>2. CASE ~running
      BY <1>0, <1>7, <3>2 DEF Retry
    <3> QED BY <3>1, <3>2
  <2> QED BY <1>0, <1>7, <2>2 DEF Retry
<1>8. CASE QuitKey
  BY <1>0, <1>8 DEF QuitKey
<1>9. ASSUME NEW ok \in BOOLEAN, Submit(ok) PROVE TypeOK'
  BY <1>0, <1>9 DEF Submit
<1>10. ASSUME NEW w \in Workers, Worker(w) PROVE TypeOK'
  <2>1. CASE Poll(w)
    BY <1>0, <2>1 DEF Poll
  <2>2. CASE Claim(w)
    <3>1. /\ idx' \subseteq nvec
          /\ held' \in [Workers -> Nat]
          /\ wpc' \in [Workers -> {"poll", "claim", "census", "count", "done"}]
      <4>1. CASE \E x \in nvec \ idx :
                   /\ idx' = idx \cup {x}
                   /\ held' = [held EXCEPT ![w] = x]
                   /\ wpc' = [wpc EXCEPT ![w] = "census"]
        BY <1>0, <4>1
      <4>2. CASE /\ wpc' = [wpc EXCEPT ![w] = "done"]
                 /\ UNCHANGED <<idx, held>>
        BY <1>0, <4>2
      <4> QED BY <2>2, <4>1, <4>2 DEF Claim
    <3> QED BY <1>0, <2>2, <3>1 DEF Claim
  <2>3. CASE CensusSoup(w)
    BY <1>0, <2>3 DEF CensusSoup
  <2>4. CASE Count(w)
    BY <1>0, <2>4 DEF Count
  <2> QED BY <1>10, <2>1, <2>2, <2>3, <2>4 DEF Worker
<1>11. CASE Signal
  BY <1>0, <1>11 DEF Signal
<1>12. CASE UNCHANGED vars
  BY <1>0, <1>12 DEF vars
<1> QED BY <1>1, <1>2, <1>3, <1>4, <1>5, <1>6, <1>7, <1>8, <1>9, <1>10, <1>11,
           <1>12 DEF Next, SearchStep, Terminated

\* Only CensusSoup changes what has been searched, and by one soup: handing
\* the local censuses over to globalSoup loses and repeats nothing.
LEMMA SearchedStep ==
  ASSUME IInv, [Next]_vars
  PROVE  \/ Searched' = Searched
         \/ \E w \in Workers : CensusSoup(w) /\ Searched' = Searched \cup {held[w]}
<1> USE DEF mainVars, workerVars
<1>0. TypeOK /\ Threads
  BY DEF IInv
<1>1. CASE StartRound
  <2>1. Searched = census
    BY <1>0, <1>1 DEF StartRound, Threads, InRound, Searched
  <2>2. Searched' = census
    BY <1>1 DEF StartRound, Searched
  <2> QED BY <2>1, <2>2
<1>2. CASE JoinThread
  <2>1. joined + 1 \in Workers
    BY <1>0, <1>2, ThreadsAssumption DEF JoinThread, Aggregated, Workers, TypeOK
  <2>2. census' = census \cup local[joined + 1] /\ local' = local
    BY <1>2 DEF JoinThread, Aggregated
  <2> QED BY <2>1, <2>2 DEF Searched
<1>3. CASE Tally
  <2>1. \A w \in Workers : local[w] \subseteq census
    BY <1>0, <1>3 DEF Tally, Threads, InRound, Workers
  <2>2. census' = census /\ \A w \in Workers : local'[w] = {}
    BY <1>3 DEF Tally
  <2> QED BY <2>1, <2>2 DEF Searched
<1>4. ASSUME NEW w \in Workers, Worker(w)
      PROVE  \/ Searched' = Searched
             \/ CensusSoup(w) /\ Searched' = Searched \cup {held[w]}
  <2>1. CASE CensusSoup(w)
    <3>1. census' = census /\ local'[w] = local[w] \cup {held[w]}
          /\ \A v \in Workers \ {w} : local'[v] = local[v]
      BY <1>0, <2>1 DEF CensusSoup, TypeOK
    <3> QED BY <2>1, <3>1 DEF Searched
  <2>2. CASE Poll(w) \/ Claim(w) \/ Count(w)
    <3>1. census' = census /\ local' = local
      BY <2>2 DEF Poll, Claim, Count
    <3> QED BY <3>1 DEF Searched
  <2> QED BY <1>4, <2>1, <2>2 DEF Worker
<1>5. CASE \/ ExitLoop \/ PumpEpoch \/ Report \/ Retry \/ QuitKey \/ Signal
           \/ (\E ok \in BOOLEAN : Submit(ok)) \/ UNCHANGED vars
  <2>1. census' = census /\ local' = local
    BY <1>5 DEF ExitLoop, PumpEpoch, Report, Retry, QuitKey, Signal, Submit, vars
  <2> QED BY <2>1 DEF Searched
<1> QED BY <1>1, <1>2, <1>3, <1>4, <1>5 DEF Next, SearchStep, Terminated

\* Every step keeps the relation between the two sides of the threads.
LEMMA ThreadsStep == IInv /\ [Next]_vars => Threads'
<1> SUFFICES ASSUME IInv, [Next]_vars PROVE Threads'
  OBVIOUS
<1> USE DEF Threads, InRound, mainVars, workerVars
<1>0. TypeOK /\ Threads /\ numThreads \in Nat \ {0}
  BY ThreadsAssumption DEF IInv
<1>1. CASE StartRound
  BY <1>0, <1>1 DEF StartRound
<1>2. CASE PumpEpoch
  <2>1. pc' \in {"pump", "join"}
    BY <1>2 DEF PumpEpoch
  <2> QED BY <1>0, <1>2, <2>1 DEF PumpEpoch
<1>3. CASE JoinThread
  <2>1. /\ joined' = joined + 1 /\ joined + 1 \in Workers
        /\ wpc' = wpc /\ local' = local
        /\ census' = census \cup local[joined + 1]
        /\ pc = "join" /\ pc' \in {"join", "tally"}
        /\ wpc[joined + 1] = "done"
        /\ pc' = "tally" <=> joined + 1 = numThreads
    BY <1>0, <1>3 DEF JoinThread, Aggregated, TypeOK, Workers
  <2>2. \A w \in 1 .. joined' : w \in 1 .. joined \/ w = joined + 1
    BY <1>0, <2>1 DEF TypeOK
  <2>3. \A w \in 1 .. joined' : wpc'[w] = "done" /\ local'[w] \subseteq census'
    BY <1>0, <2>1, <2>2
  <2>4. pc' = "tally" => \A w \in Workers : wpc'[w] = "done"
    BY <2>1, <2>3 DEF Workers
  <2> QED BY <2>1, <2>3, <2>4
<1>4. CASE Tally
  BY <1>0, <1>4 DEF Tally
<1>5. CASE ExitLoop \/ Report \/ Retry
  BY <1>0, <1>5 DEF ExitLoop, Report, Retry
<1>6. CASE QuitKey
  BY <1>0, <1>6 DEF QuitKey
<1>7. CASE \E ok \in BOOLEAN : Submit(ok)
  BY <1>0, <1>7 DEF Submit
<1>8. ASSUME NEW w \in Workers, Worker(w) PROVE Threads'
  <2>1. /\ wpc[w] # "done" /\ pc' = pc /\ joined' = joined /\ census' = census
        /\ \A v \in Workers \ {w} : wpc'[v] = wpc[v] /\ local'[v] = local[v]
    BY <1>0, <1>8 DEF Worker, Poll, Claim, CensusSoup, Count, TypeOK
  <2>2. pc \in {"pump", "join"} /\ w \notin 1 .. joined
    BY <1>0, <2>1
  <2>3. 1 .. joined \subseteq Workers \ {w}
    BY <1>0, <2>2 DEF Workers, TypeOK
  <2> QED BY <1>0, <2>1, <2>2, <2>3
<1>9. CASE Signal \/ UNCHANGED vars
  BY <1>0, <1>9 DEF Signal, vars
<1> QED BY <1>1, <1>2, <1>3, <1>4, <1>5, <1>6, <1>7, <1>8, <1>9
        DEF Next, SearchStep, Terminated

\* Every step keeps what is known of the soups in the workers' hands.
LEMMA HoldingStep == IInv /\ [Next]_vars => Holding'
<1> SUFFICES ASSUME IInv, [Next]_vars PROVE Holding'
  OBVIOUS
<1> USE DEF Busy, mainVars, workerVars
<1>0. TypeOK /\ Threads /\ Holding /\ Bounds
  BY DEF IInv
<1>1. CASE StartRound
  <2>1. \A w \in Workers : wpc'[w] = "poll"
    BY <1>1 DEF StartRound
  <2>2. Searched' = Searched
    BY <1>1, SearchedStep DEF StartRound, CensusSoup
  <2>3. \A x \in nvec' : lb <= x /\ x \in Nat
    BY <1>0, <1>1 DEF StartRound, narrow, TypeOK
  <2>4. \A x \in Searched : x < lb
    BY <1>0 DEF Bounds
  <2>5. Searched \subseteq Nat
    BY <1>0, SearchedNat
  <2>6. lb \in Nat
    BY <1>0 DEF TypeOK
  <2>7. Searched \cap nvec' = {}
    BY <2>3, <2>4, <2>5, <2>6
  <2> QED BY <2>1, <2>2, <2>7 DEF Holding
<1>2. ASSUME NEW w \in Workers, Worker(w) PROVE Holding'
  <2>0. nvec' = nvec /\ idx \subseteq nvec
    BY <1>0, <1>2 DEF Worker, Poll, Claim, CensusSoup, Count, TypeOK
  <2>1. CASE Poll(w)
    <3>1. Searched' = Searched
      BY <2>1, SearchedStep DEF Poll, CensusSoup, TypeOK, Searched
    <3>2. /\ idx' = idx /\ held' = held
          /\ \A v \in Workers : ~Busy(v) => ~Busy(v)'
          /\ \A v \in Workers : wpc'[v] = "census" => wpc[v] = "census"
      BY <1>0, <2>1 DEF Poll, TypeOK
    <3> QED BY <1>0, <2>0, <3>1, <3>2 DEF Holding
  <2>2. CASE Claim(w)
    <3>1. Searched' = Searched
      BY <2>2 DEF Claim, Searched
    <3>2. CASE nvec \subseteq idx /\ wpc' = [wpc EXCEPT ![w] = "done"]
               /\ UNCHANGED <<idx, held>>
      <4>1. \A v \in Workers : (Busy(v)' => Busy(v)) /\
               (wpc'[v] = "census" => wpc[v] = "census")
        BY <1>0, <3>2 DEF TypeOK
      <4> QED BY <1>0, <2>0, <3>1, <3>2, <4>1 DEF Holding
    <3>3. ASSUME NEW x \in nvec \ idx, idx' = idx \cup {x},
                 held' = [held EXCEPT ![w] = x],
                 wpc' = [wpc EXCEPT ![w] = "census"]
          PROVE  Holding'
      <4>1. held'[w] = x /\ wpc'[w] = "census" /\ wpc[w] = "claim"
        BY <1>0, <2>2, <3>3 DEF Claim, TypeOK
      <4>2. \A v \in Workers \ {w} : held'[v] = held[v] /\ wpc'[v] = wpc[v]
        BY <1>0, <3>3 DEF TypeOK
      <4>3. x \notin Searched
        BY <1>0, <3>3 DEF Holding
      <4>4. \A v \in Workers \ {w} : Busy(v) => held[v] # x /\ held[v] \in idx
        BY <1>0, <3>3 DEF Holding
      <4> QED BY <1>0, <2>0, <3>1, <3>3, <4>1, <4>2, <4>3, <4>4 DEF Holding
    <3> QED BY <2>2, <3>2, <3>3 DEF Claim
  <2>3. CASE CensusSoup(w)
    <3>1. \/ Searched' = Searched
          \/ Searched' = Searched \cup {held[w]}
      <4>1. local' = [local EXCEPT ![w] = @ \cup {held[w]}] /\ census' = census
        BY <2>3 DEF CensusSoup
      <4>2. \A v \in Workers :
              local'[v] = IF v = w THEN local[w] \cup {held[w]} ELSE local[v]
        BY <1>0, <4>1 DEF TypeOK
      <4> QED BY <4>1, <4>2 DEF Searched
    <3>2. /\ idx' = idx /\ held' = held /\ wpc[w] = "census" /\ wpc'[w] = "count"
          /\ \A v \in Workers \ {w} : wpc'[v] = wpc[v]
      BY <1>0, <2>3 DEF CensusSoup, TypeOK
    <3>3. held[w] \in idx
      BY <1>0, <3>2 DEF Holding
    <3>4. \A v \in Workers \ {w} : Busy(v) => held[v] # held[w]
      BY <1>0, <3>2 DEF Holding
    <3> QED BY <1>0, <2>0, <3>1, <3>2, <3>3, <3>4 DEF Holding
  <2>4. CASE Count(w)
    <3>1. Searched' = Searched
      BY <2>4 DEF Count, Searched
    <3>2. /\ idx' = idx /\ held' = held
          /\ \A v \in Workers : ~Busy(v) => ~Busy(v)'
          /\ \A v \in Workers : wpc'[v] = "census" => wpc[v] = "census"
      BY <1>0, <2>4 DEF Count, TypeOK
    <3> QED BY <1>0, <2>0, <3>1, <3>2 DEF Holding
  <2> QED BY <1>2, <2>1, <2>2, <2>3, <2>4 DEF Worker
<1>3. CASE \/ ExitLoop \/ PumpEpoch \/ JoinThread \/ Tally \/ Report \/ Retry
           \/ QuitKey \/ Signal \/ (\E ok \in BOOLEAN : Submit(ok)) \/ UNCHANGED vars
  <2>1. UNCHANGED <<wpc, held, idx, nvec>>
    BY <1>3 DEF ExitLoop, PumpEpoch, JoinThread, Aggregated, Tally, Report, Retry, QuitKey,
                Signal, Submit, vars
  <2>2. CASE Searched' = Searched
    BY <1>0, <2>1, <2>2 DEF Holding
  <2>3. CASE \E w \in Workers : CensusSoup(w)
    <3>1. PICK w \in Workers : wpc[w] = "census" /\ wpc' = [wpc EXCEPT ![w] = "count"]
      BY <2>3 DEF CensusSoup
    <3> QED BY <1>0, <2>1, <3>1 DEF TypeOK
  <2> QED BY <2>2, <2>3, SearchedStep
<1> QED BY <1>1, <1>2, <1>3 DEF Next, SearchStep, Terminated

\* idx, the soups handed out, is finite, and one more than before a claim.
LEMMA CountingStep == IInv /\ [Next]_vars => Counting'
<1> SUFFICES ASSUME IInv, [Next]_vars PROVE Counting'
  OBVIOUS
<1> USE DEF mainVars, workerVars
<1>0. TypeOK /\ Threads /\ Holding /\ Counting
  BY DEF IInv
<1>a. IsFiniteSet(idx) /\ Cardinality(idx) \in Nat
  BY <1>0, FS_Subset, FS_CardinalityType DEF Counting, TypeOK
<1>1. CASE StartRound
  <2>1. nvec' \subseteq vec /\ vec' = {} /\ idx' = {} /\ ts' = 0
    BY <1>1 DEF StartRound, narrow
  <2>2. IsFiniteSet(nvec') /\ IsFiniteSet(vec')
    BY <1>0, <2>1, FS_Subset, FS_EmptySet DEF Counting
  <2>3. BusyWorkers' = {}
    BY <1>1 DEF StartRound, BusyWorkers, Busy
  <2> QED BY <2>1, <2>2, <2>3, FS_EmptySet DEF Counting
<1>2. CASE PumpEpoch \/ Retry
  <2>1. UNCHANGED <<nvec, ts, wpc, idx>>
    BY <1>2 DEF PumpEpoch, Retry
  <2>2. BusyWorkers' = BusyWorkers
    BY <2>1 DEF BusyWorkers, Busy
  <2>3. IsFiniteSet(vec')
    <3>1. CASE PumpEpoch
      <4> DEFINE P == pump(NextBoundary(newi) \div epoch_size)
      <4>1. IsFiniteSet(P)
        BY <1>0, BoundaryFacts, PumpFacts DEF TypeOK
      <4>2. IsFiniteSet(vec \cup P)
        BY <1>0, <4>1, FS_Union DEF Counting
      <4> QED BY <1>0, <3>1, <4>2 DEF PumpEpoch, Counting
    <3>2. CASE Retry
      <4>1. IsFiniteSet(pump(soupsCompletedSinceStart \div epoch_size))
        BY <1>0, PumpFacts DEF TypeOK
      <4> QED BY <1>0, <3>2, <4>1 DEF Retry, Counting
    <3> QED BY <1>2, <3>1, <3>2
  <2> QED BY <1>0, <2>1, <2>2, <2>3 DEF Counting
<1>3. ASSUME NEW w \in Workers, Worker(w) PROVE Counting'
  <2>0. UNCHANGED <<vec, nvec>>
    BY <1>3 DEF Worker, Poll, Claim, CensusSoup, Count
  <2>1. CASE Poll(w) \/ CensusSoup(w)
    <3>1. UNCHANGED <<ts, idx>>
      BY <2>1 DEF Poll, CensusSoup
    <3>2. \A v \in Workers : Busy(v)' <=> Busy(v)
      BY <1>0, <2>1 DEF Poll, CensusSoup, TypeOK, Busy
    <3>3. BusyWorkers' = BusyWorkers
      BY <3>2 DEF BusyWorkers
    <3> QED BY <1>0, <2>0, <3>1, <3>3 DEF Counting
  <2>2. CASE Claim(w)
    <3>0. w \notin BusyWorkers /\ ts' = ts
      BY <2>2 DEF Claim, BusyWorkers, Busy
    <3>1. CASE wpc' = [wpc EXCEPT ![w] = "done"] /\ UNCHANGED <<idx, held>>
      <4>1. BusyWorkers' = BusyWorkers
        BY <1>0, <3>0, <3>1 DEF BusyWorkers, Busy, TypeOK
      <4> QED BY <1>0, <2>0, <3>0, <3>1, <4>1 DEF Counting
    <3>2. ASSUME NEW x \in nvec \ idx, idx' = idx \cup {x},
                 wpc' = [wpc EXCEPT ![w] = "census"]
          PROVE  Counting'
      <4>1. BusyWorkers' = BusyWorkers \cup {w}
        BY <1>0, <3>2 DEF BusyWorkers, Busy, TypeOK
      <4>2. Cardinality(BusyWorkers') = Cardinality(BusyWorkers) + 1
        BY <3>0, <4>1, BusyFinite, FS_AddElement
      <4>3. Cardinality(idx') = Cardinality(idx) + 1
        BY <1>a, <3>2, FS_AddElement
      <4> QED BY <1>0, <1>a, <2>0, <3>0, <4>2, <4>3, BusyFinite DEF Counting, TypeOK
    <3> QED BY <2>2, <3>1, <3>2 DEF Claim
  <2>3. CASE Count(w)
    <3>1. w \in BusyWorkers /\ ts' = ts + 1 /\ idx' = idx
      BY <2>3 DEF Count, BusyWorkers, Busy
    <3>2. BusyWorkers' = BusyWorkers \ {w}
      BY <1>0, <2>3 DEF Count, BusyWorkers, Busy, TypeOK
    <3>3. Cardinality(BusyWorkers') = Cardinality(BusyWorkers) - 1
      BY <3>1, <3>2, BusyFinite, FS_RemoveElement
    <3> QED BY <1>0, <1>a, <2>0, <3>1, <3>3, BusyFinite DEF Counting, TypeOK
  <2> QED BY <1>3, <2>1, <2>2, <2>3 DEF Worker
<1>4. CASE \/ ExitLoop \/ JoinThread \/ Tally \/ Report \/ QuitKey \/ Signal
           \/ (\E ok \in BOOLEAN : Submit(ok)) \/ UNCHANGED vars
  <2>1. UNCHANGED <<vec, nvec, ts, wpc, idx>>
    BY <1>4 DEF ExitLoop, JoinThread, Tally, Report, QuitKey, Signal, Submit, vars
  <2>2. BusyWorkers' = BusyWorkers
    BY <2>1 DEF BusyWorkers, Busy
  <2> QED BY <1>0, <2>1, <2>2 DEF Counting
<1> QED BY <1>1, <1>2, <1>3, <1>4 DEF Next, SearchStep, Terminated

\* Every step keeps the bounds between censuses, vectors and counters.
LEMMA BoundsStep == IInv /\ [Next]_vars => Bounds'
<1> SUFFICES ASSUME IInv, [Next]_vars PROVE Bounds'
  OBVIOUS
<1> USE DEF InRound, mainVars, workerVars
<1> DEFINE S == soupsCompletedSinceStart
<1>0. TypeOK /\ Threads /\ Holding /\ Bounds /\ Counting
  BY DEF IInv
<1>a. /\ S \in Nat /\ newi \in Nat /\ maxcount \in Nat /\ lb \in Nat
      /\ vec \subseteq Nat /\ nvec \subseteq Nat /\ Searched \subseteq Nat
      /\ idx \subseteq nvec
  BY <1>0, SearchedNat DEF TypeOK
<1>b. /\ NextBoundary(S) \in Nat /\ NextBoundary(newi) \in Nat
      /\ newi < NextBoundary(newi)
  BY <1>a, BoundaryFacts
\* The soups already searched or of this round stay below lb.
<1>c. lb' = lb /\ nvec' = nvec
        => \A x \in (Searched \cup nvec)' : x < lb'
  <2> SUFFICES ASSUME lb' = lb, nvec' = nvec
               PROVE  \A x \in Searched' \cup nvec : x < lb
    OBVIOUS
  <2>1. \A w \in Workers : CensusSoup(w) => held[w] \in nvec
    BY <1>0, <1>a DEF CensusSoup, Holding, Busy
  <2> QED BY <1>0, <2>1, SearchedStep DEF Bounds
<1>1. CASE StartRound
  <2>1. /\ lb' = NextBoundary(S) /\ newi' = S /\ vec' = {} /\ S' = S
        /\ nvec' \subseteq vec /\ maxcount' = maxcount /\ pc' = "pump"
        /\ pc = "top" /\ running
    BY <1>1 DEF StartRound, narrow
  <2>2. Searched' = Searched
    BY <2>1, SearchedStep DEF CensusSoup
  <2>3. /\ S <= maxcount /\ lb <= NextBoundary(S)
        /\ \A x \in vec : x < NextBoundary(S)
        /\ \A x \in Searched : x < lb
    BY <1>0, <2>1 DEF Bounds
  <2>4. \A x \in Searched' \cup nvec' : x < lb'
    BY <1>a, <1>b, <2>1, <2>2, <2>3
  <2>5. newi' = S /\ NextBoundary(newi)' = NextBoundary(S)
    BY <2>1 DEF NextBoundary
  <2> QED BY <1>a, <1>b, <2>1, <2>3, <2>4, <2>5 DEF Bounds
<1>2. CASE PumpEpoch
  <2> DEFINE b == NextBoundary(newi)
  <2>1. /\ S <= newi /\ newi <= maxcount /\ lb <= b
        /\ \A x \in vec : x < b
    BY <1>0, <1>2 DEF PumpEpoch, Bounds
  <2>2. /\ newi' = IF b < maxcount THEN b ELSE maxcount
        /\ vec' = IF b < maxcount THEN vec \cup pump(b \div epoch_size) ELSE vec
        /\ lb' = lb /\ nvec' = nvec /\ S' = S /\ maxcount' = maxcount
        /\ pc' \in {"pump", "join"}
    BY <1>2 DEF PumpEpoch
  <2>3. /\ newi' \in Nat /\ newi <= newi' /\ newi' <= maxcount
    BY <1>a, <1>b, <2>1, <2>2
  <2>4. NextBoundary(newi)' = NextBoundary(newi')
    BY DEF NextBoundary
  <2>5. NextBoundary(newi') \in Nat /\ b <= NextBoundary(newi')
    BY <1>a, <2>3, BoundaryFacts, BoundaryMonotone
  <2>6. \A x \in vec' : x < NextBoundary(newi')
    <3>1. CASE b < maxcount
      <4>1. \A x \in pump(b \div epoch_size) : x < NextBoundary(b)
        BY <1>b, PumpFacts
      <4> QED BY <1>a, <1>b, <2>1, <2>2, <2>5, <3>1, <4>1
    <3>2. CASE ~(b < maxcount)
      BY <1>a, <1>b, <2>1, <2>2, <2>5, <3>2
    <3> QED BY <3>1, <3>2
  <2> QED BY <1>a, <1>b, <1>c, <2>1, <2>2, <2>3, <2>4, <2>5, <2>6 DEF Bounds
<1>3. CASE Tally
  <2>1. /\ S' = S + RoundCount /\ pc' = "report" /\ pc = "tally"
        /\ UNCHANGED <<lb, nvec, vec, maxcount, newi, running>>
    BY <1>3 DEF Tally
  <2>2. /\ S <= newi /\ newi <= maxcount /\ lb <= NextBoundary(newi)
        /\ \A x \in vec : x < NextBoundary(newi)
    BY <1>0, <2>1 DEF Bounds
  <2>3. running => RoundCount = newi - S
    BY DEF RoundCount
  <2>4. running => S' = newi
    BY <1>a, <2>1, <2>3
  <2>5. running => NextBoundary(S)' = NextBoundary(newi)
    BY <2>4 DEF NextBoundary
  <2> QED BY <1>c, <2>1, <2>2, <2>4, <2>5 DEF Bounds
<1>4. CASE Retry
  <2>1. /\ UNCHANGED <<lb, nvec, soupsCompletedSinceStart, running>>
        /\ pc = "retry" /\ pc' = "top"
    BY <1>4 DEF Retry
  <2>2. running => /\ S <= maxcount' /\ vec' = pump(S \div epoch_size)
                   /\ lb <= NextBoundary(S)
    BY <1>0, <1>a, <1>4, SizesAssumption DEF Retry, Bounds
  <2>3. running => \A x \in vec' : x < NextBoundary(S)
    BY <1>a, <2>2, PumpFacts
  <2>4. NextBoundary(S)' = NextBoundary(S)
    BY <2>1 DEF NextBoundary
  <2> QED BY <1>c, <2>1, <2>2, <2>3, <2>4 DEF Bounds
<1>5. CASE \/ ExitLoop \/ JoinThread \/ Report \/ QuitKey \/ Signal
           \/ (\E ok \in BOOLEAN : Submit(ok))
           \/ (\E w \in Workers : Worker(w)) \/ UNCHANGED vars
  <2>1. /\ UNCHANGED <<vec, nvec, lb, maxcount, newi, soupsCompletedSinceStart>>
        /\ InRound' <=> InRound
        /\ running' => running
    BY <1>5 DEF ExitLoop, JoinThread, Report, QuitKey, Signal, Submit, Worker,
                Poll, Claim, CensusSoup, Count, vars
  <2>2. NextBoundary(S)' = NextBoundary(S) /\ NextBoundary(newi)' = NextBoundary(newi)
    BY <2>1 DEF NextBoundary
  <2> QED BY <1>0, <1>c, <2>1, <2>2 DEF Bounds
<1> QED BY <1>1, <1>2, <1>3, <1>4, <1>5 DEF Next, SearchStep, Terminated

\* IInv holds throughout.
LEMMA Inductive == Spec => []IInv
<1>1. Init => IInv
  BY InitIInv
<1>2. IInv /\ [Next]_vars => IInv'
  BY TypeStep, ThreadsStep, HoldingStep, CountingStep, BoundsStep DEF IInv
<1> QED BY <1>1, <1>2, PTL DEF Spec

\* The program's variables keep their types, for every instance.
THEOREM TypeCorrect == Spec => []TypeOK
<1>1. IInv => TypeOK
  BY DEF IInv
<1> QED BY <1>1, Inductive, PTL

\* No soup is censused twice: for every number of threads, epoch and haul
\* size, on both builds, over stops and failed uploads.
THEOREM EachSoupOnce == Spec => []NoSoupTwice
<1>1. IInv => NoSoupTwice
  BY DEF IInv, Holding, Busy, NoSoupTwice
<1> QED BY <1>1, Inductive, PTL

-----------------------------------------------------------------------------
(* CPU searches of whole epochs: what is submitted is exactly what is      *)
(* reported.                                                               *)

CpuAligned == ~Gpu /\ soupsPerHaul % epoch_size = 0

EpochFrom(n) == n .. n + epoch_size - 1

Aligned(n) == (n \div epoch_size) * epoch_size = n

\* A round searches the epoch that starts at soupsCompletedSinceStart and
\* pumps the following one, unless the haul ends before it.
RoundShape ==
  /\ Aligned(soupsCompletedSinceStart)
  /\ soupsCompletedSinceStart + epoch_size <= maxcount
  /\ nvec = EpochFrom(soupsCompletedSinceStart)
  /\ lb <= soupsCompletedSinceStart + epoch_size
  /\ IF pc = "pump"
     THEN newi = soupsCompletedSinceStart /\ vec = {}
     ELSE /\ newi = soupsCompletedSinceStart + epoch_size
          /\ vec = IF newi < maxcount THEN EpochFrom(newi) ELSE {}

\* Soups are handed out in order; the searched ones are those handed out that
\* no worker still has to census.
RoundProgress ==
  /\ idx = soupsCompletedSinceStart .. soupsCompletedSinceStart + Cardinality(idx) - 1
  /\ Searched = (0 .. soupsCompletedSinceStart - 1)
                  \cup {x \in idx : \A w \in Workers : wpc[w] = "census" => held[w] # x}
  /\ running => \A w \in Workers : wpc[w] = "done" => nvec \subseteq idx

BetweenRounds ==
  /\ Searched = 0 .. soupsCompletedSinceStart - 1
  /\ running /\ pc # "done" =>
       /\ Aligned(soupsCompletedSinceStart)
       /\ lb <= soupsCompletedSinceStart
       /\ pc \in {"top", "report"} =>
            vec = IF soupsCompletedSinceStart < maxcount
                  THEN EpochFrom(soupsCompletedSinceStart) ELSE {}
       /\ pc = "top" => soupsCompletedSinceStart < maxcount
       /\ pc \in {"submit", "retry"} => soupsCompletedSinceStart = maxcount

EInv ==
  /\ Aligned(maxcount)
  /\ InRound => RoundShape /\ RoundProgress
  /\ ~InRound => BetweenRounds
  /\ haul.acked => pc = "done"

\* The boundary after a whole number of epochs is one epoch on.
LEMMA AlignedNext ==
  ASSUME NEW n \in Nat, Aligned(n)
  PROVE  /\ NextBoundary(n) = n + epoch_size
         /\ Aligned(n + epoch_size)
         /\ \A m \in Nat : Aligned(m) /\ n < m => n + epoch_size <= m
<1> DEFINE k == n \div epoch_size
<1>1. /\ epoch_size \in Nat \ {0} /\ k \in Nat /\ k * epoch_size = n
      /\ (k + 1) * epoch_size = k * epoch_size + epoch_size
  BY SizesAssumption DEF Aligned
<1>2. ((k + 1) * epoch_size) \div epoch_size = k + 1
  BY <1>1
<1>3. \A i \in Nat : k * epoch_size < i * epoch_size
                      => k * epoch_size + epoch_size <= i * epoch_size
  <2> SUFFICES ASSUME NEW i \in Nat, k * epoch_size < i * epoch_size
               PROVE  k * epoch_size + epoch_size <= i * epoch_size
    OBVIOUS
  <2>1. k < i
    BY <1>1
  <2> QED BY <1>1, <2>1
<1>4. \A m \in Nat : m \div epoch_size \in Nat
  BY <1>1
<1> QED BY <1>1, <1>2, <1>3, <1>4 DEF Aligned, NextBoundary

\* Whole epochs add up to whole epochs.
LEMMA AlignedSum ==
  ASSUME NEW m \in Nat, NEW n \in Nat, Aligned(m), Aligned(n)
  PROVE  Aligned(m + n)
<1> DEFINE i == m \div epoch_size
           k == n \div epoch_size
<1>1. /\ epoch_size \in Nat \ {0} /\ i \in Nat /\ k \in Nat
      /\ i * epoch_size = m /\ k * epoch_size = n
  BY SizesAssumption DEF Aligned
<1>2. (i + k) * epoch_size = m + n
  BY <1>1
<1>3. ((i + k) * epoch_size) \div epoch_size = i + k
  BY <1>1
<1> QED BY <1>1, <1>2, <1>3 DEF Aligned

\* A haul of a CPU search in whole epochs ends at a boundary.
LEMMA AlignedHaul == CpuAligned => Aligned(0) /\ Aligned(soupsPerHaul)
<1>1. epoch_size \in Nat \ {0} /\ soupsPerHaul \in Nat
  BY SizesAssumption
<1>2. 0 \div epoch_size = 0 /\ 0 * epoch_size = 0
  BY <1>1
<1>3. soupsPerHaul % epoch_size = 0
        => (soupsPerHaul \div epoch_size) * epoch_size = soupsPerHaul
  BY <1>1
<1> QED BY <1>2, <1>3 DEF Aligned, CpuAligned

\* An epoch pumped at a boundary starts there.
LEMMA AlignedPump ==
  ASSUME CpuAligned, NEW n \in Nat, Aligned(n)
  PROVE  /\ pump(n \div epoch_size) = EpochFrom(n)
         /\ IsFiniteSet(EpochFrom(n)) /\ Cardinality(EpochFrom(n)) = epoch_size
         /\ Cardinality(EpochFrom(n)) >= PumpTarget
<1>1. epoch_size \in Nat \ {0} /\ (n \div epoch_size) * epoch_size = n
      /\ epoch_size >= PumpTarget
  BY SizesAssumption, BuildAssumption DEF Aligned, CpuAligned
<1>2. pump(n \div epoch_size) = EpochFrom(n)
  BY <1>1 DEF pump, Epoch, CpuAligned, EpochFrom
<1>3. n + epoch_size - 1 \in Int /\ n <= n + epoch_size - 1
      /\ (n + epoch_size - 1) - n + 1 = epoch_size
  BY <1>1
<1>4. IsFiniteSet(EpochFrom(n)) /\ Cardinality(EpochFrom(n)) = epoch_size
  BY <1>3, FS_Interval DEF EpochFrom
<1> QED BY <1>1, <1>2, <1>4

\* The stronger invariant of whole epochs holds at the start.
LEMMA InitExact == CpuAligned /\ Init => EInv
<1> SUFFICES ASSUME CpuAligned, Init PROVE EInv
  OBVIOUS
<1> USE DEF Init
<1>1. /\ Aligned(0) /\ Aligned(soupsPerHaul)
      /\ epoch_size \in Nat \ {0} /\ soupsPerHaul \in Nat \ {0}
  BY AlignedHaul, SizesAssumption
<1>2. pump(0) = EpochFrom(0)
  <2>1. 0 \div epoch_size = 0
    BY <1>1
  <2> QED BY <1>1, <2>1, AlignedPump
<1>3. Searched = {} /\ 0 .. 0 - 1 = {}
  BY DEF Searched
<1> QED BY <1>1, <1>2, <1>3 DEF EInv, InRound, BetweenRounds, NoHaul

\* The steps that only move control, or only stop the search, or only aggregate.
LEMMA ExactQuietStep ==
  ASSUME CpuAligned, IInv, EInv,
         \/ ExitLoop \/ Report \/ QuitKey \/ Signal \/ JoinThread
         \/ (\E ok \in BOOLEAN : Submit(ok)) \/ UNCHANGED vars
  PROVE  EInv'
<1> USE DEF mainVars, workerVars, InRound
<1>0. TypeOK /\ Threads
  BY DEF IInv
<1>1. /\ UNCHANGED <<vec, nvec, lb, maxcount, newi, soupsCompletedSinceStart>>
      /\ UNCHANGED <<wpc, held, idx>>
      /\ InRound' <=> InRound
      /\ running' => running
  BY DEF ExitLoop, Report, QuitKey, Signal, JoinThread, Submit, vars
<1>2. Searched' = Searched
  <2>1. \A w \in Workers : wpc[w] = "census" => ~CensusSoup(w)
    BY <1>0, <1>1 DEF CensusSoup, TypeOK
  <2>2. [Next]_vars
    BY DEF Next, SearchStep
  <2> QED BY <2>1, <2>2, SearchedStep DEF CensusSoup
<1>3. Aligned(maxcount)'
  BY <1>1 DEF EInv, Aligned
<1>4. ASSUME InRound' PROVE RoundShape' /\ RoundProgress'
  <2>1. pc' = "pump" <=> pc = "pump"
    BY <1>0, <1>1, <1>4 DEF ExitLoop, Report, QuitKey, Signal, JoinThread, Submit, vars
  <2>2. RoundShape'
    BY <1>1, <1>4, <2>1 DEF EInv, RoundShape, Aligned, EpochFrom
  <2>3. RoundProgress'
    BY <1>1, <1>2, <1>4 DEF EInv, RoundProgress
  <2> QED BY <2>2, <2>3
<1>5. ASSUME ~InRound' PROVE BetweenRounds'
  <2>1. BetweenRounds
    BY <1>1, <1>5 DEF EInv
  <2>2. Searched' = 0 .. soupsCompletedSinceStart' - 1
    BY <1>1, <1>2, <2>1 DEF BetweenRounds
  <2>3. ASSUME running', pc' # "done"
        PROVE  /\ Aligned(soupsCompletedSinceStart)
               /\ lb <= soupsCompletedSinceStart
               /\ pc' \in {"top", "report"} =>
                    vec = IF soupsCompletedSinceStart < maxcount
                          THEN EpochFrom(soupsCompletedSinceStart) ELSE {}
               /\ pc' = "top" => soupsCompletedSinceStart < maxcount
               /\ pc' \in {"submit", "retry"} => soupsCompletedSinceStart = maxcount
    <3>1. running /\ (pc # "done" \/ UNCHANGED vars)
      BY <1>1, <2>3 DEF ExitLoop, Report, QuitKey, Signal, JoinThread, Submit
    <3>2. CASE Report
      <4>1. pc = "report" /\ soupsCompletedSinceStart <= maxcount
        BY <1>0, <3>1, <3>2 DEF Report, IInv, Bounds
      <4>2. soupsCompletedSinceStart < maxcount => vec # {}
        <5> SUFFICES ASSUME soupsCompletedSinceStart < maxcount PROVE vec # {}
          OBVIOUS
        <5>1. vec = EpochFrom(soupsCompletedSinceStart)
          BY <2>1, <3>1, <4>1 DEF BetweenRounds
        <5>2. soupsCompletedSinceStart \in EpochFrom(soupsCompletedSinceStart)
          BY <1>0, SizesAssumption DEF EpochFrom, TypeOK
        <5> QED BY <5>1, <5>2
      <4>3. pc' = "top" => soupsCompletedSinceStart < maxcount
        <5> SUFFICES ASSUME pc' = "top" PROVE soupsCompletedSinceStart < maxcount
          OBVIOUS
        <5>1. ~(soupsCompletedSinceStart = maxcount /\ vec = {})
          BY <3>2 DEF Report, Finished
        <5>2. vec = IF soupsCompletedSinceStart < maxcount
                    THEN EpochFrom(soupsCompletedSinceStart) ELSE {}
          BY <2>1, <3>1, <4>1 DEF BetweenRounds
        <5> QED BY <1>0, <4>1, <5>1, <5>2 DEF TypeOK
      <4>4. pc' \in {"top", "submit"}
            /\ (pc' = "submit" => soupsCompletedSinceStart = maxcount)
        BY <3>1, <3>2 DEF Report, Finished
      <4> QED BY <2>1, <3>1, <4>1, <4>3, <4>4 DEF BetweenRounds
    <3>3. CASE \E ok \in BOOLEAN : Submit(ok)
      BY <2>1, <2>3, <3>1, <3>3 DEF Submit, BetweenRounds
    <3>4. CASE UNCHANGED vars
      BY <2>1, <2>3, <3>1, <3>4 DEF vars, BetweenRounds
    <3>5. CASE ExitLoop \/ QuitKey \/ Signal
      BY <2>3, <3>5 DEF ExitLoop, QuitKey, Signal
    <3>6. CASE JoinThread
      BY <1>1, <1>5, <3>6 DEF JoinThread, Aggregated
    <3> QED BY <3>2, <3>3, <3>4, <3>5, <3>6
  <2> QED BY <1>1, <2>2, <2>3 DEF BetweenRounds, Aligned, EpochFrom
<1>6. haul'.acked => pc' = "done"
  BY <1>0 DEF EInv, ExitLoop, Report, QuitKey, Signal, JoinThread, Submit, vars, TypeOK
<1> QED BY <1>3, <1>4, <1>5, <1>6 DEF EInv

\* StartRound keeps it.
LEMMA ExactStartRound ==
  ASSUME CpuAligned, IInv, EInv, StartRound
  PROVE  EInv'
<1> DEFINE S == soupsCompletedSinceStart
<1>0. /\ S \in Nat /\ maxcount \in Nat /\ lb \in Nat
      /\ epoch_size \in Nat \ {0}
  BY SizesAssumption DEF IInv, TypeOK
<1>1. /\ pc = "top" /\ running /\ pc' = "pump" /\ running'
      /\ nvec' = narrow(vec, lb, maxcount) /\ vec' = {} /\ idx' = {}
      /\ lb' = NextBoundary(S) /\ newi' = S /\ S' = S /\ maxcount' = maxcount
      /\ haul' = haul /\ wpc' = [w \in Workers |-> "poll"]
  BY DEF StartRound
<1>2. /\ Aligned(maxcount) /\ Aligned(S) /\ lb <= S /\ S < maxcount
      /\ vec = EpochFrom(S) /\ Searched = 0 .. S - 1
  BY <1>1 DEF EInv, BetweenRounds, InRound
<1>3. S + epoch_size <= maxcount /\ lb' = S + epoch_size
  BY <1>0, <1>1, <1>2, AlignedNext
<1>4. nvec' = EpochFrom(S)
  BY <1>0, <1>1, <1>2, <1>3 DEF narrow, EpochFrom
<1>5. Searched' = Searched
  <2>1. [Next]_vars
    BY DEF Next, SearchStep
  <2> QED BY <1>1, <2>1, SearchedStep DEF CensusSoup, StartRound
<1>6. RoundShape'
  BY <1>0, <1>1, <1>2, <1>3, <1>4 DEF RoundShape, Aligned, EpochFrom
<1>7. RoundProgress'
  <2>1. idx' = {} /\ Cardinality(idx') = 0 /\ S .. S + 0 - 1 = {}
    BY <1>0, <1>1, FS_EmptySet
  <2> QED BY <1>0, <1>1, <1>2, <1>5, <2>1 DEF RoundProgress
<1> QED BY <1>1, <1>2, <1>6, <1>7 DEF EInv, InRound, Aligned

\* PumpEpoch keeps it.
LEMMA ExactPumpEpoch ==
  ASSUME CpuAligned, IInv, EInv, PumpEpoch
  PROVE  EInv'
<1> USE DEF mainVars, workerVars
<1> DEFINE S == soupsCompletedSinceStart
<1>0. /\ S \in Nat /\ maxcount \in Nat /\ epoch_size \in Nat \ {0}
      /\ PumpTarget \in Nat
  BY SizesAssumption DEF IInv, TypeOK
<1>1. /\ pc = "pump" /\ RoundShape /\ RoundProgress /\ Aligned(maxcount)
      /\ Aligned(S) /\ S + epoch_size <= maxcount /\ newi = S /\ vec = {}
  BY DEF PumpEpoch, EInv, InRound, RoundShape
<1>2. /\ NextBoundary(newi) = S + epoch_size
      /\ Aligned(S + epoch_size) /\ S + epoch_size \in Nat
  BY <1>0, <1>1, AlignedNext
<1>3. /\ pump((S + epoch_size) \div epoch_size) = EpochFrom(S + epoch_size)
      /\ Cardinality(EpochFrom(S + epoch_size)) >= PumpTarget
      /\ Cardinality(EpochFrom(S + epoch_size)) = epoch_size
  BY <1>2, AlignedPump
<1>4. /\ newi' = S + epoch_size
      /\ vec' = IF S + epoch_size < maxcount THEN EpochFrom(S + epoch_size) ELSE {}
  BY <1>0, <1>1, <1>2, <1>3 DEF PumpEpoch
<1>5. ~KeepPumping(newi', vec')
  BY <1>0, <1>2, <1>3, <1>4 DEF KeepPumping
<1>6. /\ pc' = "join"
      /\ UNCHANGED <<running, nvec, lb, maxcount, soupsCompletedSinceStart, idx,
                     wpc, held, local, census, haul>>
  BY <1>5 DEF PumpEpoch
<1>7. Searched' = Searched
  BY <1>6 DEF Searched
<1>8. RoundShape'
  BY <1>1, <1>4, <1>6 DEF RoundShape, Aligned, EpochFrom
<1>9. RoundProgress'
  BY <1>1, <1>6, <1>7 DEF RoundProgress
<1>10. haul'.acked => pc' = "done"
  BY <1>1, <1>6 DEF EInv
<1> QED BY <1>1, <1>6, <1>8, <1>9, <1>10 DEF EInv, InRound, Aligned

\* Retry keeps it.
LEMMA ExactRetry ==
  ASSUME CpuAligned, IInv, EInv, Retry
  PROVE  EInv'
<1> USE DEF mainVars, workerVars
<1> DEFINE S == soupsCompletedSinceStart
<1>0. /\ S \in Nat /\ maxcount \in Nat /\ epoch_size \in Nat \ {0}
      /\ soupsPerHaul \in Nat \ {0}
  BY SizesAssumption DEF IInv, TypeOK
<1>1. /\ pc = "retry" /\ pc' = "top"
      /\ UNCHANGED <<running, lb, soupsCompletedSinceStart, local, census, haul>>
  BY DEF Retry
<1>2. BetweenRounds /\ Aligned(maxcount) /\ ~haul.acked
  BY <1>1 DEF EInv, InRound
<1>3. Searched' = Searched
  BY <1>1 DEF Searched
<1>4. CASE running
  <2>1. /\ Aligned(S) /\ lb <= S /\ S = maxcount
    BY <1>1, <1>2, <1>4 DEF BetweenRounds
  <2>2. vec' = EpochFrom(S) /\ maxcount' = maxcount + soupsPerHaul
    BY <1>0, <1>4, <2>1, AlignedPump DEF Retry
  <2>3. Aligned(maxcount + soupsPerHaul)
    BY <1>0, <1>2, AlignedHaul, AlignedSum
  <2>4. S < maxcount'
    BY <1>0, <2>1, <2>2
  <2> QED BY <1>1, <1>2, <1>3, <1>4, <2>1, <2>2, <2>3, <2>4
          DEF EInv, InRound, BetweenRounds, Aligned, EpochFrom
<1>5. CASE ~running
  <2>1. maxcount' = maxcount
    BY <1>5 DEF Retry
  <2> QED BY <1>1, <1>2, <1>3, <1>5, <2>1 DEF EInv, InRound, BetweenRounds, Aligned
<1> QED BY <1>4, <1>5

\* Tally keeps it: the estimate of a round cut short is exact.
LEMMA ExactTally ==
  ASSUME CpuAligned, IInv, EInv, Tally
  PROVE  EInv'
<1> USE DEF mainVars, workerVars
<1> DEFINE S == soupsCompletedSinceStart
           c == Cardinality(idx)
<1>0. /\ S \in Nat /\ maxcount \in Nat /\ epoch_size \in Nat \ {0} /\ lb \in Nat
      /\ ts \in Nat
  BY SizesAssumption DEF IInv, TypeOK
<1>1. /\ pc = "tally" /\ pc' = "report" /\ S' = S + RoundCount
      /\ UNCHANGED <<running, vec, lb, maxcount, newi, haul>>
  BY DEF Tally
<1>2. /\ RoundShape /\ RoundProgress /\ Aligned(maxcount) /\ ~haul.acked
  BY <1>1 DEF EInv, InRound
<1>3. /\ Aligned(S) /\ S + epoch_size <= maxcount /\ nvec = EpochFrom(S)
      /\ lb <= S + epoch_size /\ newi = S + epoch_size
      /\ vec = IF newi < maxcount THEN EpochFrom(newi) ELSE {}
  BY <1>1, <1>2 DEF RoundShape
<1>4. \A w \in Workers : wpc[w] = "done"
  BY <1>1 DEF IInv, Threads
<1>5. BusyWorkers = {} /\ Cardinality(BusyWorkers) = 0
  BY <1>4, FS_EmptySet DEF BusyWorkers, Busy
<1>6. ts = c /\ c \in Nat
  BY <1>0, <1>5, FS_CardinalityType, FS_Subset DEF IInv, Counting, TypeOK
<1>7. Searched = (0 .. S - 1) \cup idx /\ idx = S .. S + c - 1
  BY <1>2, <1>4 DEF RoundProgress
<1>8. Searched = 0 .. S + c - 1
  BY <1>0, <1>6, <1>7
<1>9. Cardinality(nvec) = epoch_size
  BY <1>0, <1>3, AlignedPump
<1>10. RoundCount = c
  <2>1. CASE running
    <3>1. idx = nvec
      <4>1. 1 \in Workers
        BY ThreadsAssumption DEF Workers
      <4> QED BY <1>2, <1>4, <2>1, <4>1 DEF RoundProgress, IInv, TypeOK
    <3>2. c = epoch_size
      BY <1>9, <3>1
    <3> QED BY <1>0, <1>3, <2>1, <3>2 DEF RoundCount
  <2>2. CASE ~running /\ ts = Cardinality(nvec)
    BY <1>0, <1>3, <1>6, <1>9, <2>2 DEF RoundCount
  <2>3. CASE ~running /\ ts # Cardinality(nvec)
    <3>1. newi - S = epoch_size
      BY <1>0, <1>3
    <3>2. RoundCount = (epoch_size * ts) \div epoch_size
      BY <1>9, <2>3, <3>1 DEF RoundCount
    <3>3. (ts * epoch_size) \div epoch_size = ts /\ epoch_size * ts = ts * epoch_size
      BY <1>0
    <3> QED BY <1>6, <3>2, <3>3
  <2> QED BY <2>1, <2>2, <2>3
<1>11. Searched' = 0 .. S' - 1
  <2>1. Searched' = Searched
    <3>1. [Next]_vars
      BY DEF Next, SearchStep
    <3> QED BY <1>4, <3>1, SearchedStep DEF CensusSoup
  <2>2. S' - 1 = S + c - 1
    BY <1>0, <1>1, <1>6, <1>10
  <2> QED BY <1>8, <2>1, <2>2
<1>12. ASSUME running
       PROVE  S' = S + epoch_size
  BY <1>0, <1>1, <1>3, <1>12 DEF RoundCount
<1>13. Aligned(S + epoch_size) /\ S + epoch_size \in Nat
  BY <1>0, <1>3, AlignedNext
<1>14. BetweenRounds'
  BY <1>1, <1>3, <1>11, <1>12, <1>13 DEF BetweenRounds, Aligned, EpochFrom
<1> QED BY <1>1, <1>2, <1>14 DEF EInv, InRound, Aligned

\* The soup handed out is the one after those handed out before.
LEMMA ExactClaim ==
  ASSUME CpuAligned, IInv, EInv, InRound, NEW w \in Workers, wpc[w] = "claim",
         NEW x \in nvec \ idx, \A y \in nvec \ idx : x <= y,
         idx' = idx \cup {x},
         held' = [held EXCEPT ![w] = x],
         wpc' = [wpc EXCEPT ![w] = "census"],
         Searched' = Searched,
         UNCHANGED <<running, nvec, soupsCompletedSinceStart>>
  PROVE  RoundProgress'
<1> DEFINE S == soupsCompletedSinceStart
           c == Cardinality(idx)
<1>0. /\ S \in Nat /\ epoch_size \in Nat \ {0} /\ TypeOK /\ Holding
      /\ RoundShape /\ RoundProgress
  BY SizesAssumption DEF IInv, TypeOK, EInv
<1>1. IsFiniteSet(idx) /\ c \in Nat /\ Cardinality(idx') = c + 1
  BY <1>0, FS_Subset, FS_CardinalityType, FS_AddElement DEF IInv, Counting, TypeOK
<1>2. nvec = S .. S + epoch_size - 1 /\ idx = S .. S + c - 1
  BY <1>0 DEF RoundShape, RoundProgress, EpochFrom
<1>3. x = S + c
  <2>1. x \in Nat /\ x >= S + c /\ x <= S + epoch_size - 1
    BY <1>0, <1>1, <1>2
  <2>2. S + c \in nvec \ idx
    BY <1>0, <1>1, <1>2, <2>1
  <2> QED BY <1>0, <1>1, <2>1, <2>2
<1>4. idx' = S .. S + (c + 1) - 1
  BY <1>0, <1>1, <1>2, <1>3
<1>5. /\ held'[w] = x /\ wpc'[w] = "census"
      /\ \A v \in Workers \ {w} : held'[v] = held[v] /\ wpc'[v] = wpc[v]
  BY <1>0 DEF TypeOK
<1>6. \A v \in Workers : wpc[v] = "census" => held[v] # x
  BY <1>0 DEF Holding, Busy
<1>7. {y \in idx' : \A v \in Workers : wpc'[v] = "census" => held'[v] # y}
        = {y \in idx : \A v \in Workers : wpc[v] = "census" => held[v] # y}
  BY <1>5, <1>6
<1>8. running' => \A v \in Workers : wpc'[v] = "done" => nvec' \subseteq idx'
  BY <1>0, <1>5 DEF RoundProgress
<1> QED BY <1>0, <1>1, <1>4, <1>7, <1>8 DEF RoundProgress

\* A step of a worker keeps it.
LEMMA ExactWorker ==
  ASSUME CpuAligned, IInv, EInv, NEW w \in Workers, Worker(w)
  PROVE  EInv'
<1> USE DEF mainVars, workerVars
<1>0. TypeOK /\ Threads /\ Holding
  BY DEF IInv
<1>1. /\ UNCHANGED <<running, pc, vec, nvec, lb, maxcount, newi,
                     soupsCompletedSinceStart, haul>>
      /\ wpc[w] # "done"
  BY DEF Worker, Poll, Claim, CensusSoup, Count
<1>2. InRound
  BY <1>0, <1>1 DEF Threads, InRound
<1>3. RoundShape /\ RoundProgress /\ Aligned(maxcount)
  BY <1>2 DEF EInv
<1>4. RoundShape'
  BY <1>1, <1>3 DEF RoundShape, Aligned, EpochFrom
<1>5. RoundProgress'
  <2>1. CASE Poll(w)
    <3>1. UNCHANGED <<idx, held>> /\ Searched' = Searched
      BY <2>1 DEF Poll, Searched
    <3>2. \A v \in Workers : wpc'[v] = "census" <=> wpc[v] = "census"
      BY <1>0, <2>1 DEF Poll, TypeOK
    <3>3. running => \A v \in Workers : wpc'[v] = "done" => wpc[v] = "done"
      BY <1>0, <2>1 DEF Poll, TypeOK
    <3> QED BY <1>1, <1>3, <3>1, <3>2, <3>3 DEF RoundProgress
  <2>2. CASE Claim(w)
    <3>0. Searched' = Searched /\ wpc[w] = "claim"
      BY <2>2 DEF Claim, Searched
    <3>1. CASE /\ nvec \subseteq idx
               /\ wpc' = [wpc EXCEPT ![w] = "done"]
               /\ UNCHANGED <<idx, held>>
      <4>1. \A v \in Workers : wpc'[v] = "census" <=> wpc[v] = "census"
        BY <1>0, <3>0, <3>1 DEF TypeOK
      <4> QED BY <1>1, <1>3, <3>0, <3>1, <4>1 DEF RoundProgress
    <3>2. CASE \E x \in nvec \ idx :
                 /\ \A y \in nvec \ idx : x <= y
                 /\ idx' = idx \cup {x}
                 /\ held' = [held EXCEPT ![w] = x]
                 /\ wpc' = [wpc EXCEPT ![w] = "census"]
      BY <1>1, <1>2, <3>0, <3>2, ExactClaim
    <3> QED BY <2>2, <3>1, <3>2 DEF Claim
  <2>3. CASE CensusSoup(w)
    <3>1. /\ UNCHANGED <<idx, held>> /\ wpc[w] = "census" /\ wpc'[w] = "count"
          /\ \A v \in Workers \ {w} : wpc'[v] = wpc[v]
      BY <1>0, <2>3 DEF CensusSoup, TypeOK
    <3>2. Searched' = Searched \cup {held[w]}
      <4>1. /\ census' = census /\ local'[w] = local[w] \cup {held[w]}
            /\ \A v \in Workers \ {w} : local'[v] = local[v]
        BY <1>0, <2>3 DEF CensusSoup, TypeOK
      <4> QED BY <4>1 DEF Searched
    <3>3. held[w] \in idx
      BY <1>0, <3>1 DEF Holding, Busy
    <3>4. \A v \in Workers \ {w} : wpc[v] = "census" => held[v] # held[w]
      BY <1>0, <3>1 DEF Holding, Busy
    <3>5. {y \in idx' : \A v \in Workers : wpc'[v] = "census" => held'[v] # y}
            = {y \in idx : \A v \in Workers : wpc[v] = "census" => held[v] # y}
                \cup {held[w]}
      BY <3>1, <3>3, <3>4
    <3> QED BY <1>1, <1>3, <3>1, <3>2, <3>5 DEF RoundProgress
  <2>4. CASE Count(w)
    <3>1. UNCHANGED <<idx, held>> /\ Searched' = Searched
      BY <2>4 DEF Count, Searched
    <3>2. \A v \in Workers : /\ wpc'[v] = "census" <=> wpc[v] = "census"
                             /\ wpc'[v] = "done" <=> wpc[v] = "done"
      BY <1>0, <2>4 DEF Count, TypeOK
    <3> QED BY <1>1, <1>3, <3>1, <3>2 DEF RoundProgress
  <2> QED BY <2>1, <2>2, <2>3, <2>4 DEF Worker
<1> QED BY <1>1, <1>2, <1>3, <1>4, <1>5 DEF EInv, InRound, Aligned

\* It holds in every reachable state.
LEMMA ExactInductive == CpuAligned => (Spec => []EInv)
<1> SUFFICES ASSUME CpuAligned PROVE Spec => []EInv
  OBVIOUS
<1>1. Init => EInv
  BY InitExact
<1>2. IInv /\ EInv /\ [Next]_vars => EInv'
  BY ExactQuietStep, ExactStartRound, ExactPumpEpoch, ExactRetry, ExactTally,
     ExactWorker DEF Next, SearchStep, Terminated
<1> QED BY <1>1, <1>2, Inductive, PTL DEF Spec

\* A CPU search of whole epochs submits exactly the soups it reports, stopped
\* or not, after any number of failed uploads, with any number of threads.
THEOREM ExactHaul == CpuAligned => (Spec => []HaulExact)
<1> SUFFICES ASSUME CpuAligned PROVE Spec => []HaulExact
  OBVIOUS
<1>1. IInv /\ EInv => HaulExact
  <2> SUFFICES ASSUME IInv, EInv, pc = "submit"
               PROVE  census = 0 .. soupsCompletedSinceStart - 1
    BY DEF HaulExact
  <2>1. \A w \in Workers : local[w] = {}
    BY DEF IInv, Threads, InRound
  <2>2. Searched = census
    BY <2>1 DEF Searched
  <2> QED BY <2>2 DEF EInv, InRound, BetweenRounds
<1> QED BY <1>1, Inductive, ExactInductive, PTL

\* Such a search implements HaulSpec.
THEOREM ImplementsHaulSpec == CpuAligned => (Spec => HaulSafety)
<1> SUFFICES ASSUME CpuAligned PROVE Spec => HaulSafety
  OBVIOUS
<1>1. Init => Haul!Init
  <2> SUFFICES ASSUME Init PROVE Haul!Init
    OBVIOUS
  <2>1. Searched = {}
    BY DEF Init, Searched
  <2> QED BY <2>1 DEF Init, NoHaul, Haul!Init
<1>2. IInv /\ EInv /\ [Next]_vars => [Haul!Next]_<<Searched, haul>>
  <2> SUFFICES ASSUME IInv, EInv, [Next]_vars
               PROVE  Haul!Next \/ UNCHANGED <<Searched, haul>>
    OBVIOUS
  <2>1. CASE \E w \in Workers : CensusSoup(w) /\ Searched' = Searched \cup {held[w]}
    <3>1. PICK w \in Workers : CensusSoup(w) /\ Searched' = Searched \cup {held[w]}
      BY <2>1
    <3>2. held[w] \notin Searched /\ haul' = haul /\ wpc[w] = "census"
      BY <3>1 DEF CensusSoup, IInv, Holding
    <3>3. ~haul.acked
      BY <3>2 DEF IInv, Threads, EInv
    <3> QED BY <3>1, <3>2, <3>3 DEF Haul!Next, Haul!Search
  <2>2. CASE \E ok \in BOOLEAN : Submit(ok)
    <3>1. PICK ok \in BOOLEAN : Submit(ok)
      BY <2>2
    <3> DEFINE S == soupsCompletedSinceStart
    <3>2. /\ pc = "submit" /\ haul' = [num |-> S, soups |-> census, acked |-> ok]
          /\ census' = census /\ local' = local
      BY <3>1 DEF Submit, workerVars
    <3>3. Searched = census /\ Searched' = Searched
      <4>1. \A w \in Workers : local[w] = {}
        BY <3>2 DEF IInv, Threads, InRound
      <4> QED BY <3>2, <4>1 DEF Searched
    <3>4. Searched = 0 .. S - 1 /\ ~haul.acked /\ S \in Nat
      BY <3>2 DEF EInv, InRound, BetweenRounds, IInv, TypeOK
    <3>5. Haul!Submit
      BY <3>2, <3>3, <3>4 DEF Haul!Submit
    <3> QED BY <3>5 DEF Haul!Next
  <2>3. CASE Searched' = Searched /\ ~(\E ok \in BOOLEAN : Submit(ok))
    <3>1. haul' = haul
      BY <2>3 DEF Next, SearchStep, StartRound, ExitLoop, PumpEpoch, JoinThread,
                  Tally, Report, Retry, QuitKey, Signal, Worker, Poll, Claim,
                  CensusSoup, Count, Terminated, vars, mainVars, workerVars
    <3> QED BY <2>3, <3>1
  <2> QED BY <2>1, <2>2, <2>3, SearchedStep
<1> QED BY <1>1, <1>2, Inductive, ExactInductive, PTL DEF Spec, HaulSafety, Haul!Spec

\* No epoch is pumped while vec still holds soups of it.
THEOREM FreshPumping == Spec => []PumpedFresh
<1>1. IInv => PumpedFresh
  <2> SUFFICES ASSUME IInv, pc = "pump"
               PROVE  vec \cap Epoch(NextBoundary(newi) \div epoch_size) = {}
    BY DEF PumpedFresh
  <2> DEFINE b == NextBoundary(newi)
             e == (b \div epoch_size) * epoch_size
  <2>1. newi \in Nat /\ epoch_size \in Nat \ {0} /\ vec \subseteq Nat
    BY SizesAssumption DEF IInv, TypeOK
  <2>2. b \in Nat /\ NextBoundary(b) = b + epoch_size
    BY <2>1, BoundaryFacts
  <2>3. e \in Nat /\ e + epoch_size = b + epoch_size
    BY <2>2, EpochFacts
  <2>4. e = b
    BY <2>1, <2>2, <2>3
  <2>5. \A x \in vec : x < b
    BY DEF IInv, Bounds, InRound
  <2>6. Epoch(b \div epoch_size) = b .. b + (epoch_size - 1)
    BY <2>4 DEF Epoch
  <2> HIDE DEF b
  <2> QED BY <2>1, <2>2, <2>5, <2>6 DEF b
<1> QED BY <1>1, Inductive, PTL
-----------------------------------------------------------------------------
(* CPU searches of any haul size: what is reported is never less than what *)
(* has been censused, though hauls end inside epochs and are retried there. *)

\* lb is the boundary above the soups completed, or right there.
LowerBound ==
  \/ lb = NextBoundary(soupsCompletedSinceStart)
  \/ lb = soupsCompletedSinceStart /\ Aligned(soupsCompletedSinceStart)

\* Where pumping and the soups of a round end.
RoundEnd == IF NextBoundary(soupsCompletedSinceStart) < maxcount
            THEN NextBoundary(soupsCompletedSinceStart) ELSE maxcount

\* A round has no soups, all of them dropped by narrow, or those up to its end.
RoundWithin ==
  /\ soupsCompletedSinceStart < maxcount
  /\ lb = NextBoundary(soupsCompletedSinceStart)
  /\ nvec = {} \/ nvec = soupsCompletedSinceStart .. RoundEnd - 1
  /\ IF pc = "pump"
     THEN newi = soupsCompletedSinceStart /\ vec = {}
     ELSE /\ newi = RoundEnd
          /\ vec = IF newi < maxcount THEN EpochFrom(newi) ELSE {}

CensusWithin ==
  /\ idx = soupsCompletedSinceStart .. soupsCompletedSinceStart + Cardinality(idx) - 1
  /\ Searched \subseteq 0 .. soupsCompletedSinceStart + Cardinality(idx) - 1

BetweenWithin ==
  /\ Searched \subseteq 0 .. soupsCompletedSinceStart - 1
  /\ running /\ pc # "done" =>
       /\ LowerBound
       /\ pc = "top" =>
            /\ soupsCompletedSinceStart < maxcount
            /\ lb = soupsCompletedSinceStart => vec = EpochFrom(soupsCompletedSinceStart)
       /\ pc = "report" =>
            IF soupsCompletedSinceStart < maxcount
            THEN lb = soupsCompletedSinceStart /\ vec = EpochFrom(soupsCompletedSinceStart)
            ELSE vec = {}
       /\ pc \in {"submit", "retry"} => soupsCompletedSinceStart = maxcount

WInv == IF InRound THEN RoundWithin /\ CensusWithin ELSE BetweenWithin

\* A CPU epoch pumped at a boundary starts there and stops the pumping.
LEMMA CpuPump ==
  ASSUME ~Gpu, NEW n \in Nat, Aligned(n)
  PROVE  /\ pump(n \div epoch_size) = EpochFrom(n)
         /\ IsFiniteSet(EpochFrom(n)) /\ Cardinality(EpochFrom(n)) = epoch_size
         /\ Cardinality(EpochFrom(n)) >= PumpTarget
<1>1. epoch_size \in Nat \ {0} /\ (n \div epoch_size) * epoch_size = n
      /\ epoch_size >= PumpTarget
  BY SizesAssumption, BuildAssumption DEF Aligned
<1>2. pump(n \div epoch_size) = EpochFrom(n)
  BY <1>1 DEF pump, Epoch, EpochFrom
<1>3. n + epoch_size - 1 \in Int /\ n <= n + epoch_size - 1
      /\ (n + epoch_size - 1) - n + 1 = epoch_size
  BY <1>1
<1>4. IsFiniteSet(EpochFrom(n)) /\ Cardinality(EpochFrom(n)) = epoch_size
  BY <1>3, FS_Interval DEF EpochFrom
<1> QED BY <1>1, <1>2, <1>4

\* Boundaries are whole numbers of epochs, and the same for all soups of one.
LEMMA BoundaryAligned ==
  ASSUME NEW n \in Nat
  PROVE  /\ Aligned(NextBoundary(n))
         /\ \A m \in n .. NextBoundary(n) - 1 : NextBoundary(m) = NextBoundary(n)
<1> DEFINE k == n \div epoch_size
<1>1. /\ epoch_size \in Nat \ {0} /\ k \in Nat
      /\ k * epoch_size <= n /\ NextBoundary(n) = (k + 1) * epoch_size
      /\ (k + 1) * epoch_size = k * epoch_size + epoch_size
      /\ k * epoch_size \in Nat
  BY SizesAssumption, EpochFacts DEF NextBoundary
<1>2. ((k + 1) * epoch_size) \div epoch_size = k + 1
  BY <1>1
<1>3. Aligned(NextBoundary(n))
  BY <1>1, <1>2 DEF Aligned
<1>4. ASSUME NEW m \in n .. NextBoundary(n) - 1 PROVE NextBoundary(m) = NextBoundary(n)
  <2> HIDE DEF k
  <2>1. m \in Nat /\ k * epoch_size <= m /\ m < k * epoch_size + epoch_size
    BY <1>1
  <2>2. PICK r \in 0 .. epoch_size - 1 : m = k * epoch_size + r
    <3>1. m - k * epoch_size \in 0 .. epoch_size - 1
      BY <1>1, <2>1
    <3> QED BY <1>1, <2>1, <3>1
  <2>3. m \div epoch_size = k
    BY <1>1, <2>2
  <2> QED BY <1>1, <2>3 DEF NextBoundary
<1> QED BY <1>3, <1>4

\* The boundary after a whole number of epochs is one epoch on.
LEMMA AlignedBoundary ==
  ASSUME NEW n \in Nat, Aligned(n)
  PROVE  NextBoundary(n) = n + epoch_size
  BY AlignedNext

\* The invariant of CPU searches holds at the start.
LEMMA InitWithin == ~Gpu /\ Init => WInv
<1> SUFFICES ASSUME ~Gpu, Init PROVE WInv
  OBVIOUS
<1>1. epoch_size \in Nat \ {0} /\ soupsPerHaul \in Nat \ {0}
  BY SizesAssumption
<1>2. 0 \div epoch_size = 0 /\ 0 * epoch_size = 0
  BY <1>1
<1>3. Aligned(0) /\ pump(0) = EpochFrom(0)
  BY <1>1, <1>2, CpuPump DEF Aligned
<1>4. Searched = {}
  BY DEF Init, Searched
<1> QED BY <1>1, <1>3, <1>4 DEF Init, WInv, InRound, BetweenWithin, LowerBound

\* The steps that only move control, or only stop the search, or only aggregate.
LEMMA WithinQuietStep ==
  ASSUME ~Gpu, IInv, WInv,
         \/ ExitLoop \/ Report \/ Signal \/ QuitKey \/ JoinThread
         \/ (\E ok \in BOOLEAN : Submit(ok)) \/ UNCHANGED vars
  PROVE  WInv'
<1> USE DEF mainVars, workerVars, InRound
<1>0. TypeOK /\ Threads /\ Bounds
  BY DEF IInv
<1>1. /\ UNCHANGED <<vec, nvec, lb, maxcount, newi, soupsCompletedSinceStart, idx>>
      /\ UNCHANGED wpc
      /\ InRound' <=> InRound
      /\ running' => running
  BY DEF ExitLoop, Report, QuitKey, Signal, JoinThread, Submit, vars
<1>2. Searched' = Searched
  <2>1. \A w \in Workers : wpc[w] = "census" => ~CensusSoup(w)
    BY <1>0, <1>1 DEF CensusSoup, TypeOK
  <2>2. [Next]_vars
    BY DEF Next, SearchStep
  <2> QED BY <2>1, <2>2, SearchedStep DEF CensusSoup
<1>3. UNCHANGED <<RoundEnd, LowerBound, EpochFrom(soupsCompletedSinceStart),
                  NextBoundary(soupsCompletedSinceStart), EpochFrom(newi)>>
  BY <1>1 DEF RoundEnd, LowerBound, EpochFrom, NextBoundary, Aligned
<1>4. ASSUME InRound' PROVE RoundWithin' /\ CensusWithin'
  <2>1. pc' = "pump" <=> pc = "pump"
    BY <1>0, <1>1, <1>4 DEF ExitLoop, Report, QuitKey, Signal, JoinThread, Submit, vars
  <2> QED BY <1>1, <1>2, <1>3, <1>4, <2>1 DEF WInv, RoundWithin, CensusWithin
<1>5. ASSUME ~InRound' PROVE BetweenWithin'
  <2>1. BetweenWithin
    BY <1>1, <1>5 DEF WInv
  <2>2. CASE ~(running' /\ pc' # "done")
    BY <1>1, <1>2, <2>1, <2>2 DEF BetweenWithin
  <2>3. CASE running' /\ pc' # "done"
    <3>1. running /\ pc # "done"
      BY <1>1, <2>3 DEF ExitLoop, Report, QuitKey, Signal, JoinThread, Submit, vars
    <3>2. CASE Report
      <4>1. /\ pc = "report" /\ soupsCompletedSinceStart <= maxcount
            /\ pc' = IF soupsCompletedSinceStart = maxcount /\ vec = {} THEN "submit" ELSE "top"
        BY <1>0, <3>1, <3>2 DEF Report, Finished, Bounds
      <4>2. soupsCompletedSinceStart \in EpochFrom(soupsCompletedSinceStart)
        BY <1>0, SizesAssumption DEF EpochFrom, TypeOK
      <4>3. soupsCompletedSinceStart < maxcount <=> vec # {}
        BY <2>1, <3>1, <4>1, <4>2 DEF BetweenWithin
      <4>4. soupsCompletedSinceStart \in Nat /\ maxcount \in Nat
        BY <1>0 DEF TypeOK
      <4>5. soupsCompletedSinceStart < maxcount \/ soupsCompletedSinceStart = maxcount
        BY <4>1, <4>4
      <4> QED BY <1>1, <1>2, <1>3, <2>1, <3>1, <4>1, <4>3, <4>5 DEF BetweenWithin
    <3>3. CASE \E ok \in BOOLEAN : Submit(ok)
      <4>1. pc = "submit" /\ pc' = "retry"
        BY <2>3, <3>3 DEF Submit
      <4> QED BY <1>1, <1>2, <1>3, <2>1, <3>1, <4>1 DEF BetweenWithin
    <3>4. CASE UNCHANGED vars
      <4>1. pc' = pc
        BY <3>4 DEF vars
      <4> QED BY <1>1, <1>2, <1>3, <2>1, <3>1, <4>1 DEF BetweenWithin
    <3>5. CASE ExitLoop \/ QuitKey \/ Signal \/ JoinThread
      BY <1>1, <1>5, <2>3, <3>5 DEF ExitLoop, QuitKey, Signal, JoinThread
    <3> QED BY <3>2, <3>3, <3>4, <3>5
  <2> QED BY <2>2, <2>3
<1> QED BY <1>4, <1>5 DEF WInv

\* narrow leaves a round the soups up to its end, or none.
LEMMA WithinStartRound ==
  ASSUME ~Gpu, IInv, WInv, StartRound
  PROVE  WInv'
<1> DEFINE S == soupsCompletedSinceStart
<1>0. /\ S \in Nat /\ maxcount \in Nat /\ lb \in Nat
      /\ epoch_size \in Nat \ {0}
  BY SizesAssumption DEF IInv, TypeOK
<1>1. /\ pc = "top" /\ running /\ pc' = "pump"
      /\ nvec' = narrow(vec, lb, maxcount) /\ vec' = {} /\ idx' = {}
      /\ lb' = NextBoundary(S) /\ newi' = S /\ S' = S /\ maxcount' = maxcount
  BY DEF StartRound
<1>2. /\ S < maxcount /\ LowerBound /\ Searched \subseteq 0 .. S - 1
      /\ lb = S => vec = EpochFrom(S)
      /\ \A x \in vec : x \in Nat /\ x < NextBoundary(S)
      /\ NextBoundary(S) \in Nat /\ S < NextBoundary(S)
  BY <1>0, <1>1, BoundaryFacts DEF WInv, InRound, BetweenWithin, IInv, Bounds, TypeOK
<1>3. nvec' = {} \/ nvec' = S .. RoundEnd - 1
  <2>1. CASE lb = NextBoundary(S)
    BY <1>1, <1>2, <2>1 DEF narrow
  <2>2. CASE lb = S /\ Aligned(S)
    <3>1. vec = EpochFrom(S) /\ NextBoundary(S) = S + epoch_size
      BY <1>0, <1>2, <2>2, AlignedBoundary
    <3> QED BY <1>0, <1>1, <2>2, <3>1 DEF narrow, EpochFrom, RoundEnd
  <2> QED BY <1>2, <2>1, <2>2 DEF LowerBound
<1>4. Searched' = Searched
  <2>1. [Next]_vars
    BY DEF Next, SearchStep
  <2> QED BY <1>1, <2>1, SearchedStep DEF CensusSoup, StartRound
<1>5. RoundEnd' = RoundEnd /\ NextBoundary(S)' = NextBoundary(S)
  BY <1>1 DEF RoundEnd, NextBoundary
<1>6. RoundWithin'
  BY <1>1, <1>2, <1>3, <1>5 DEF RoundWithin
<1>7. CensusWithin'
  <2>1. Cardinality(idx') = 0 /\ S .. S + 0 - 1 = {} /\ S + 0 - 1 = S - 1
    BY <1>0, <1>1, FS_EmptySet
  <2> QED BY <1>1, <1>2, <1>4, <2>1 DEF CensusWithin
<1> QED BY <1>1, <1>6, <1>7 DEF WInv, InRound

\* One epoch is pumped, or none when the haul ends before it.
LEMMA WithinPumpEpoch ==
  ASSUME ~Gpu, IInv, WInv, PumpEpoch
  PROVE  WInv'
<1> USE DEF mainVars, workerVars
<1> DEFINE S == soupsCompletedSinceStart
           b == NextBoundary(S)
<1>0. /\ S \in Nat /\ maxcount \in Nat /\ epoch_size \in Nat \ {0}
      /\ PumpTarget \in Nat
  BY SizesAssumption DEF IInv, TypeOK
<1>1. /\ pc = "pump" /\ RoundWithin /\ CensusWithin /\ newi = S /\ vec = {}
  BY DEF PumpEpoch, WInv, InRound, RoundWithin
<1>2. b \in Nat /\ Aligned(b)
  BY <1>0, BoundaryFacts, BoundaryAligned
<1>3. /\ pump(b \div epoch_size) = EpochFrom(b)
      /\ Cardinality(EpochFrom(b)) >= PumpTarget
      /\ Cardinality(EpochFrom(b)) = epoch_size
  BY <1>2, CpuPump
<1>4. /\ newi' = RoundEnd
      /\ vec' = IF b < maxcount THEN EpochFrom(b) ELSE {}
  BY <1>1, <1>3 DEF PumpEpoch, RoundEnd
<1>5. ~KeepPumping(newi', vec')
  BY <1>0, <1>2, <1>3, <1>4 DEF KeepPumping, RoundEnd
<1>6. /\ pc' = "join"
      /\ UNCHANGED <<nvec, lb, maxcount, soupsCompletedSinceStart, idx, local, census>>
  BY <1>5 DEF PumpEpoch
<1>7. Searched' = Searched /\ RoundEnd' = RoundEnd /\ b' = b
  BY <1>6 DEF Searched, RoundEnd, NextBoundary
<1>8. newi' < maxcount <=> b < maxcount
  BY <1>0, <1>2, <1>4 DEF RoundEnd
<1>9. b < maxcount => newi' = b
  BY <1>4 DEF RoundEnd
<1>10. vec' = IF newi' < maxcount' THEN EpochFrom(newi)' ELSE {}
  BY <1>4, <1>6, <1>8, <1>9 DEF EpochFrom
<1>11. RoundWithin'
  BY <1>1, <1>4, <1>6, <1>7, <1>10 DEF RoundWithin
<1>12. CensusWithin'
  BY <1>1, <1>6, <1>7 DEF CensusWithin
<1> QED BY <1>6, <1>11, <1>12 DEF WInv, InRound

\* The next haul begins where the last one ended, in an epoch that lb drops
\* unless it begins there.
LEMMA WithinRetry ==
  ASSUME ~Gpu, IInv, WInv, Retry
  PROVE  WInv'
<1> USE DEF mainVars, workerVars
<1> DEFINE S == soupsCompletedSinceStart
<1>0. /\ S \in Nat /\ maxcount \in Nat /\ epoch_size \in Nat \ {0}
      /\ soupsPerHaul \in Nat \ {0} /\ NextBoundary(S) > S
  BY SizesAssumption, BoundaryFacts DEF IInv, TypeOK
<1>1. /\ pc = "retry" /\ pc' = "top"
      /\ UNCHANGED <<running, lb, soupsCompletedSinceStart, local, census>>
  BY DEF Retry
<1>2. BetweenWithin
  BY <1>1 DEF WInv, InRound
<1>3. Searched' = Searched /\ LowerBound' = LowerBound /\ EpochFrom(S)' = EpochFrom(S)
  BY <1>1 DEF Searched, LowerBound, NextBoundary, Aligned, EpochFrom
<1>4. CASE running
  <2>1. LowerBound /\ S = maxcount
    BY <1>1, <1>2, <1>4 DEF BetweenWithin
  <2>2. vec' = pump(S \div epoch_size) /\ maxcount' = maxcount + soupsPerHaul
    BY <1>4 DEF Retry
  <2>3. lb = S => vec' = EpochFrom(S)
    BY <1>0, <2>1, <2>2, CpuPump DEF LowerBound
  <2>4. S < maxcount'
    BY <1>0, <2>1, <2>2
  <2> QED BY <1>1, <1>2, <1>3, <1>4, <2>1, <2>3, <2>4 DEF WInv, InRound, BetweenWithin
<1>5. CASE ~running
  BY <1>1, <1>2, <1>3, <1>5 DEF WInv, InRound, BetweenWithin
<1> QED BY <1>4, <1>5

\* The estimate of a round cut short is the number of soups it censused.
LEMMA WithinTally ==
  ASSUME ~Gpu, IInv, WInv, Tally
  PROVE  WInv'
<1> USE DEF mainVars, workerVars
<1> DEFINE S == soupsCompletedSinceStart
           c == Cardinality(idx)
<1>0. /\ S \in Nat /\ maxcount \in Nat /\ epoch_size \in Nat \ {0} /\ lb \in Nat
      /\ ts \in Nat /\ NextBoundary(S) \in Nat /\ S < NextBoundary(S) /\ idx \subseteq nvec
  BY SizesAssumption, BoundaryFacts DEF IInv, TypeOK
<1>1. /\ pc = "tally" /\ pc' = "report" /\ S' = S + RoundCount
      /\ UNCHANGED <<running, vec, lb, maxcount, newi>>
  BY DEF Tally
<1>2. /\ RoundWithin /\ CensusWithin
  BY <1>1 DEF WInv, InRound
<1>3. /\ S < maxcount /\ lb = NextBoundary(S) /\ newi = RoundEnd
      /\ nvec = {} \/ nvec = S .. RoundEnd - 1
      /\ vec = IF newi < maxcount THEN EpochFrom(newi) ELSE {}
  BY <1>1, <1>2 DEF RoundWithin
<1>4. RoundEnd \in Nat /\ S < RoundEnd /\ RoundEnd <= maxcount
  BY <1>0, <1>3 DEF RoundEnd
<1>5. \A w \in Workers : wpc[w] = "done"
  BY <1>1 DEF IInv, Threads
<1>6. ts = c /\ c \in Nat
  <2>1. BusyWorkers = {} /\ Cardinality(BusyWorkers) = 0
    BY <1>5, FS_EmptySet DEF BusyWorkers, Busy
  <2> QED BY <1>0, <2>1, FS_CardinalityType, FS_Subset DEF IInv, Counting, TypeOK
<1>7. Searched \subseteq 0 .. S + c - 1 /\ idx = S .. S + c - 1
  BY <1>2 DEF CensusWithin
<1>8. S + c <= RoundEnd
  <2>1. CASE nvec = {}
    <3>1. c = 0
      BY <1>0, <2>1, FS_EmptySet
    <3> QED BY <1>0, <1>4, <3>1
  <2>2. CASE nvec = S .. RoundEnd - 1
    <3>1. c > 0 => S + c - 1 \in idx
      BY <1>0, <1>6, <1>7
    <3> HIDE DEF c
    <3>2. c > 0 => S + c - 1 \in S .. RoundEnd - 1
      BY <1>0, <2>2, <3>1
    <3> QED BY <1>0, <1>4, <1>6, <3>2
  <2> QED BY <1>3, <2>1, <2>2
<1>9. RoundCount \in Nat /\ c <= RoundCount /\ (running => RoundCount = RoundEnd - S)
  <2>1. CASE running \/ ts = Cardinality(nvec)
    <3>1. RoundCount = RoundEnd - S
      BY <1>3, <2>1 DEF RoundCount
    <3> QED BY <1>0, <1>4, <1>6, <1>8, <3>1
  <2>2. CASE ~(running \/ ts = Cardinality(nvec))
    <3>1. nvec = S .. RoundEnd - 1
      <4>1. nvec = {} => c = 0 /\ Cardinality(nvec) = 0
        BY <1>0, FS_EmptySet
      <4> QED BY <1>3, <1>6, <2>2, <4>1
    <3> DEFINE d == RoundEnd - S
    <3>2. Cardinality(nvec) = d /\ d \in Nat \ {0}
      <4>1. RoundEnd - 1 \in Int /\ S \in Int /\ S <= RoundEnd - 1
        BY <1>0, <1>4
      <4>2. Cardinality(S .. RoundEnd - 1) = (RoundEnd - 1) - S + 1
        BY <4>1, FS_Interval
      <4> QED BY <1>0, <1>4, <3>1, <4>2
    <3>3. RoundCount = (d * ts) \div d
      BY <1>3, <2>2, <3>2 DEF RoundCount
    <3> HIDE DEF d
    <3>4. (ts * d) \div d = ts /\ d * ts = ts * d
      BY <1>0, <3>2
    <3> QED BY <1>0, <1>6, <2>2, <3>3, <3>4
  <2> QED BY <2>1, <2>2
<1>10. Searched' \subseteq 0 .. S' - 1
  <2>1. Searched' = Searched
    <3>1. [Next]_vars
      BY DEF Next, SearchStep
    <3> QED BY <1>5, <3>1, SearchedStep DEF CensusSoup
  <2>2. S' \in Nat /\ S + c - 1 <= S' - 1
    BY <1>0, <1>1, <1>6, <1>9
  <2>3. 0 .. S + c - 1 \subseteq 0 .. S' - 1
    BY <1>0, <1>6, <2>2
  <2> QED BY <1>7, <2>1, <2>3
<1>11. ASSUME running
       PROVE  /\ LowerBound'
              /\ IF S' < maxcount' THEN lb' = S' /\ vec' = EpochFrom(S)' ELSE vec' = {}
  <2>1. S' = RoundEnd /\ S' \in Nat
    BY <1>0, <1>1, <1>4, <1>9, <1>11
  <2>2. vec' = IF S' < maxcount' THEN EpochFrom(S)' ELSE {}
    BY <1>1, <1>3, <2>1 DEF EpochFrom
  <2>3. CASE NextBoundary(S) <= maxcount
    <3>1. S' = NextBoundary(S)
      BY <1>0, <2>1, <2>3 DEF RoundEnd
    <3>2. Aligned(S)'
      BY <1>0, <3>1, BoundaryAligned DEF Aligned
    <3> QED BY <1>1, <1>3, <2>2, <3>1, <3>2 DEF LowerBound
  <2>4. CASE maxcount < NextBoundary(S)
    <3>1. S' = maxcount /\ ~(S' < maxcount')
      BY <1>0, <1>1, <2>1, <2>4 DEF RoundEnd
    <3>2. S' \in S .. NextBoundary(S) - 1
      BY <1>0, <1>3, <2>4, <3>1
    <3>3. NextBoundary(S') = NextBoundary(S)
      BY <1>0, <3>2, BoundaryAligned
    <3>4. NextBoundary(S)' = lb'
      BY <1>1, <1>3, <3>3 DEF NextBoundary
    <3> QED BY <2>2, <3>1, <3>4 DEF LowerBound
  <2> QED BY <1>0, <2>3, <2>4
<1>12. BetweenWithin'
  BY <1>1, <1>10, <1>11 DEF BetweenWithin
<1> QED BY <1>1, <1>12 DEF WInv, InRound

\* The soup handed out next follows those handed out before.
LEMMA NextOfInterval ==
  ASSUME NEW n \in Nat, NEW c \in Nat, NEW m \in Int, NEW x \in n .. m,
         x \notin n .. n + c - 1,
         \A y \in n .. m : y \notin n .. n + c - 1 => x <= y
  PROVE  x = n + c /\ (n .. n + c - 1) \cup {x} = n .. n + (c + 1) - 1
<1>1. x \in Int /\ x >= n + c /\ x <= m
  OBVIOUS
<1>2. n + c \in n .. m /\ n + c \notin n .. n + c - 1
  BY <1>1
<1>3. x = n + c
  BY <1>1, <1>2
<1> QED BY <1>3

\* A step of a worker keeps it.
LEMMA WithinWorker ==
  ASSUME ~Gpu, IInv, WInv, NEW w \in Workers, Worker(w)
  PROVE  WInv'
<1> USE DEF mainVars, workerVars
<1> DEFINE S == soupsCompletedSinceStart
           c == Cardinality(idx)
<1>0. TypeOK /\ Threads /\ Holding /\ S \in Nat
  BY DEF IInv, TypeOK
<1>1. /\ UNCHANGED <<pc, vec, nvec, lb, maxcount, newi, soupsCompletedSinceStart>>
      /\ wpc[w] # "done"
  BY DEF Worker, Poll, Claim, CensusSoup, Count
<1>2. InRound
  BY <1>0, <1>1 DEF Threads, InRound
<1>3. RoundWithin /\ CensusWithin
  BY <1>2 DEF WInv
<1>4. RoundWithin'
  BY <1>1, <1>3 DEF RoundWithin, RoundEnd, NextBoundary, EpochFrom
<1>5. IsFiniteSet(idx) /\ c \in Nat
  BY <1>0, FS_Subset, FS_CardinalityType DEF IInv, Counting, TypeOK
<1>6. CensusWithin'
  <2>1. CASE UNCHANGED idx
    <3>1. Searched' \subseteq Searched \cup idx
      <4>1. [Next]_vars
        BY DEF Next
      <4>2. \A v \in Workers : CensusSoup(v) => held[v] \in idx
        BY <1>0 DEF CensusSoup, Holding, Busy
      <4> QED BY <4>1, <4>2, SearchedStep
    <3>2. idx \subseteq 0 .. S + c - 1
      <4>1. idx = S .. S + c - 1
        BY <1>3, Zenon DEF CensusWithin
      <4> HIDE DEF c
      <4> QED BY <1>0, <1>5, <4>1
    <3> QED BY <1>1, <1>3, <2>1, <3>1, <3>2 DEF CensusWithin
  <2>2. ASSUME NEW x \in nvec \ idx, \A y \in nvec \ idx : x <= y, idx' = idx \cup {x},
               Claim(w)
        PROVE  CensusWithin'
    <3>1. Searched' = Searched
      BY <2>2 DEF Claim, Searched
    <3>2. Cardinality(idx') = c + 1
      BY <1>5, <2>2, FS_AddElement
    <3>3. nvec = S .. RoundEnd - 1 /\ idx = S .. S + c - 1 /\ RoundEnd - 1 \in Int
      <4>1. nvec = S .. RoundEnd - 1
        BY <1>3, <2>2 DEF RoundWithin
      <4>2. idx = S .. S + c - 1
        BY <1>3, Zenon DEF CensusWithin
      <4>3. RoundEnd \in Nat
        BY <1>0, BoundaryFacts DEF RoundEnd, TypeOK
      <4> HIDE DEF c
      <4> QED BY <4>1, <4>2, <4>3
    <3>4. idx' = S .. S + (c + 1) - 1
      <4>1. /\ x \in S .. RoundEnd - 1 /\ x \notin S .. S + c - 1
            /\ \A y \in S .. RoundEnd - 1 : y \notin S .. S + c - 1 => x <= y
            /\ idx' = (S .. S + c - 1) \cup {x}
        BY <2>2, <3>3
      <4> HIDE DEF c
      <4> QED BY <1>0, <1>5, <3>3, <4>1, NextOfInterval
    <3>5. Searched \subseteq 0 .. S + (c + 1) - 1
      <4>1. 0 .. S + c - 1 \subseteq 0 .. S + (c + 1) - 1
        BY <1>0, <1>5
      <4> QED BY <1>3, <4>1 DEF CensusWithin
    <3> QED BY <1>1, <3>1, <3>2, <3>4, <3>5 DEF CensusWithin
  <2> QED BY <2>1, <2>2 DEF Worker, Poll, Claim, CensusSoup, Count
<1> QED BY <1>1, <1>2, <1>4, <1>6 DEF WInv, InRound

\* It holds in every reachable state.
LEMMA WithinInductive == ~Gpu => (Spec => []WInv)
<1> SUFFICES ASSUME ~Gpu PROVE Spec => []WInv
  OBVIOUS
<1>1. Init => WInv
  BY InitWithin
<1>2. IInv /\ WInv /\ [Next]_vars => WInv'
  BY WithinQuietStep, WithinStartRound, WithinPumpEpoch, WithinRetry, WithinTally,
     WithinWorker DEF Next, SearchStep, Terminated
<1> QED BY <1>1, <1>2, Inductive, PTL DEF Spec

\* A CPU search of any haul size, stopped or not, after any number of failed
\* uploads, reports at least the soups its census holds.
THEOREM NeverUnder == ~Gpu => (Spec => []NeverUnderReports)
<1> SUFFICES ASSUME ~Gpu PROVE Spec => []NeverUnderReports
  OBVIOUS
<1>1. IInv /\ WInv => NeverUnderReports
  BY DEF WInv, InRound, BetweenWithin, NeverUnderReports, Searched
<1> QED BY <1>1, Inductive, WithinInductive, PTL
-----------------------------------------------------------------------------
(* Either build, any haul size: a haul that nothing interrupts misses no   *)
(* soup that is due.                                                       *)

\* The soups the pump lets through, and those of this haul from a up to b.
Eligible == {x \in Nat : Gpu => x \in survivors}

Part(a, b) == {x \in Eligible : a <= x /\ x < b /\ x < maxcount}

\* vec holds the soups from lb up to where pumping has got to.
Waiting(i) == {x \in vec : x < maxcount} = Part(lb, NextBoundary(i))

\* A soup handed out is censused or in a worker's hands, and a worker leaves
\* when all are handed out.
RoundCovers ==
  /\ Waiting(newi)
  /\ nvec \cup Searched = Part(0, lb)
  /\ \A x \in idx : \/ x \in Searched
                    \/ \E w \in Workers : wpc[w] = "census" /\ held[w] = x
  /\ \A w \in Workers : wpc[w] = "done" => nvec \subseteq idx

BetweenCovers ==
  /\ Waiting(soupsCompletedSinceStart)
  /\ Searched = Part(0, lb)
  /\ pc = "submit" => soupsCompletedSinceStart = maxcount /\ vec = {}

Uninterrupted == running /\ failures = 0 /\ pc # "done"

CInv == /\ pc = "retry" => failures # 0
        /\ Uninterrupted => IF InRound THEN RoundCovers ELSE BetweenCovers

\* pump appends the soups let through of one epoch.
LEMMA PumpIsPart ==
  ASSUME NEW i \in Nat
  PROVE  pump(i \div epoch_size) =
           {x \in Eligible : (i \div epoch_size) * epoch_size <= x /\ x < NextBoundary(i)}
<1> DEFINE k == i \div epoch_size
           a == k * epoch_size
<1>1. /\ epoch_size \in Nat \ {0} /\ a \in Nat /\ a + epoch_size = NextBoundary(i)
      /\ NextBoundary(i) \in Nat
  BY SizesAssumption, EpochFacts, BoundaryFacts
<1>2. pump(k) = {x \in a .. a + (epoch_size - 1) : Gpu => x \in survivors}
  BY DEF pump, Epoch
<1> HIDE DEF a
<1>3. \A x : x \in a .. a + (epoch_size - 1) <=> x \in Nat /\ a <= x /\ x < a + epoch_size
  BY <1>1
<1> QED BY <1>1, <1>2, <1>3 DEF Eligible, a

\* The soups due are the soups let through.
LEMMA DueIsEligible ==
  ASSUME NEW n \in Nat
  PROVE  Due(n) = {x \in Eligible : x < n}
<1>1. epoch_size \in Nat \ {0}
  BY SizesAssumption
<1>2. \A x \in Due(n) : x \in Eligible /\ x < n
  <2> SUFFICES ASSUME NEW x \in Due(n) PROVE x \in Eligible /\ x < n
    OBVIOUS
  <2>1. PICK k \in 0 .. n \div epoch_size : x \in pump(k)
    BY DEF Due
  <2>2. k \in Nat /\ k * epoch_size \in Nat
    BY <1>1
  <2>3. x \in Nat /\ (Gpu => x \in survivors)
    BY <1>1, <2>1, <2>2 DEF pump, Epoch
  <2> QED BY <2>3 DEF Due, Eligible
<1>3. ASSUME NEW x \in Eligible, x < n PROVE x \in Due(n)
  <2> DEFINE k == x \div epoch_size
  <2>1. x \in Nat
    BY DEF Eligible
  <2>2. k \in 0 .. n \div epoch_size
    BY <1>1, <1>3, <2>1
  <2>3. x \in pump(k)
    BY <2>1, PumpIsPart, EpochFacts
  <2> QED BY <1>3, <2>2, <2>3 DEF Due
<1> QED BY <1>2, <1>3

\* The invariant holds at the start.
LEMMA InitCovers == Init => CInv
<1> SUFFICES ASSUME Init PROVE CInv
  OBVIOUS
<1>1. 0 \div epoch_size = 0 /\ 0 * epoch_size = 0 /\ soupsPerHaul \in Nat
  BY SizesAssumption
<1>2. vec = {x \in Eligible : 0 <= x /\ x < NextBoundary(0)}
  BY <1>1, PumpIsPart DEF Init
<1>3. Waiting(0)
  BY <1>2 DEF Waiting, Part, Init
<1>4. Searched = {} /\ Part(0, 0) = {}
  BY DEF Searched, Init, Part, Eligible
<1> QED BY <1>3, <1>4 DEF Init, CInv, InRound, BetweenCovers

\* narrow leaves the round the soups from the old lower bound to the new one.
LEMMA CoversStartRound ==
  ASSUME IInv, CInv, StartRound
  PROVE  CInv'
<1> DEFINE S == soupsCompletedSinceStart
<1>0. /\ S \in Nat /\ maxcount \in Nat /\ lb \in Nat /\ vec \subseteq Nat
      /\ NextBoundary(S) \in Nat
  BY BoundaryFacts DEF IInv, TypeOK
<1>1. /\ pc = "top" /\ running /\ pc' = "pump"
      /\ nvec' = narrow(vec, lb, maxcount) /\ vec' = {} /\ idx' = {}
      /\ lb' = NextBoundary(S) /\ newi' = S
      /\ wpc' = [w \in Workers |-> "poll"]
      /\ UNCHANGED <<running, maxcount, soupsCompletedSinceStart, survivors, failures>>
  BY DEF StartRound
<1> SUFFICES ASSUME Uninterrupted' PROVE RoundCovers'
  BY <1>1 DEF CInv, InRound
<1>2. /\ Waiting(S) /\ Searched = Part(0, lb) /\ lb <= NextBoundary(S)
  BY <1>1 DEF CInv, InRound, BetweenCovers, Uninterrupted, IInv, Bounds
<1>3. Searched' = Searched
  <2>1. [Next]_vars
    BY DEF Next, SearchStep
  <2> QED BY <1>1, <2>1, SearchedStep DEF CensusSoup, StartRound
<1>5. nvec' = Part(lb, NextBoundary(S))
  BY <1>0, <1>1, <1>2 DEF Waiting, Part, narrow, Eligible
<1>6. nvec' \cup Searched' = Part(0, NextBoundary(S))
  BY <1>0, <1>2, <1>3, <1>5 DEF Part, Eligible
<1>7. Part(NextBoundary(S), NextBoundary(S)) = {}
  BY <1>0 DEF Part, Eligible
<1>8. Waiting(newi)'
  BY <1>1, <1>7 DEF Waiting, Part, Eligible, NextBoundary
<1>9. (nvec \cup Searched = Part(0, lb))'
  BY <1>1, <1>6 DEF Part, Eligible
<1> QED BY <1>1, <1>8, <1>9 DEF RoundCovers

\* Each epoch pumped is the one after the soups waiting.
LEMMA CoversPumpEpoch ==
  ASSUME IInv, CInv, PumpEpoch
  PROVE  CInv'
<1> USE DEF mainVars, workerVars
<1> DEFINE b == NextBoundary(newi)
<1>0. /\ newi \in Nat /\ maxcount \in Nat /\ lb \in Nat /\ vec \subseteq Nat
      /\ b \in Nat /\ newi < b /\ NextBoundary(b) = b + epoch_size
      /\ epoch_size \in Nat \ {0}
  BY BoundaryFacts, SizesAssumption DEF IInv, TypeOK
<1>1. /\ pc = "pump" /\ pc' \in {"pump", "join"}
      /\ newi' = IF b < maxcount THEN b ELSE maxcount
      /\ vec' = IF b < maxcount THEN vec \cup pump(b \div epoch_size) ELSE vec
      /\ UNCHANGED <<running, nvec, lb, maxcount, idx, wpc, held, local, census,
                     survivors, failures>>
  BY DEF PumpEpoch
<1> SUFFICES ASSUME Uninterrupted' PROVE RoundCovers'
  BY <1>1 DEF CInv, InRound
<1>2. RoundCovers /\ lb <= b
  BY <1>1 DEF CInv, InRound, Uninterrupted, IInv, Bounds
<1>3. {x \in vec : x < maxcount} = Part(lb, b)
  BY <1>2 DEF RoundCovers, Waiting
<1>4. {x \in vec' : x < maxcount} = Part(lb, NextBoundary(newi'))
  <2>1. CASE b < maxcount
    <3> DEFINE p == pump(b \div epoch_size)
    <3>1. (b \div epoch_size) * epoch_size = b
      BY <1>0, BoundaryAligned DEF Aligned
    <3>2. p = {x \in Eligible : b <= x /\ x < NextBoundary(b)}
      BY <1>0, <3>1, PumpIsPart
    <3>3. newi' = b /\ vec' = vec \cup p
      BY <1>1, <2>1
    <3> HIDE DEF p, b
    <3>4. {x \in p : x < maxcount} = Part(b, NextBoundary(b))
      BY <3>2 DEF Part
    <3>5. Part(lb, b) \cup Part(b, NextBoundary(b)) = Part(lb, NextBoundary(b))
      BY <1>0, <1>2 DEF Part, Eligible
    <3>6. {x \in vec' : x < maxcount} = {x \in vec : x < maxcount} \cup {x \in p : x < maxcount}
      BY <3>3
    <3> QED BY <1>3, <3>3, <3>4, <3>5, <3>6
  <2>2. CASE ~(b < maxcount)
    <3>1. newi' = maxcount /\ vec' = vec
      BY <1>1, <2>2
    <3>2. maxcount < NextBoundary(maxcount) /\ NextBoundary(maxcount) \in Nat
      BY <1>0, BoundaryFacts
    <3> HIDE DEF b
    <3>3. Part(lb, b) = Part(lb, NextBoundary(maxcount))
      BY <1>0, <2>2, <3>2 DEF Part, Eligible
    <3> QED BY <1>3, <3>1, <3>3
  <2> QED BY <2>1, <2>2
<1>5. Waiting(newi)'
  BY <1>1, <1>4 DEF Waiting, Part, Eligible, NextBoundary
<1>6. Searched' = Searched
  BY <1>1 DEF Searched
<1>7. (nvec \cup Searched = Part(0, lb))'
  BY <1>1, <1>2, <1>6 DEF RoundCovers, Part, Eligible
<1> QED BY <1>1, <1>2, <1>5, <1>6, <1>7 DEF RoundCovers

\* When the workers of a round not cut short are done, all of it is searched.
LEMMA CoversTally ==
  ASSUME IInv, CInv, Tally
  PROVE  CInv'
<1> DEFINE S == soupsCompletedSinceStart
<1>0. S \in Nat /\ newi \in Nat /\ idx \subseteq nvec
  BY DEF IInv, TypeOK
<1>1. /\ pc = "tally" /\ pc' = "report" /\ S' = S + RoundCount
      /\ UNCHANGED <<running, vec, lb, maxcount, newi, survivors, failures>>
  BY DEF Tally
<1> SUFFICES ASSUME Uninterrupted' PROVE BetweenCovers'
  BY <1>1 DEF CInv, InRound
<1>2. RoundCovers /\ running
  BY <1>1 DEF CInv, InRound, Uninterrupted
<1>3. S' = newi
  BY <1>0, <1>1, <1>2 DEF RoundCount
<1>4. \A w \in Workers : wpc[w] = "done"
  BY <1>1 DEF IInv, Threads
<1>5. nvec \subseteq Searched
  <2>1. 1 \in Workers
    BY ThreadsAssumption DEF Workers
  <2> QED BY <1>2, <1>4, <2>1 DEF RoundCovers
<1>6. Searched' = Searched
  <2>1. [Next]_vars
    BY DEF Next, SearchStep
  <2> QED BY <1>4, <2>1, SearchedStep DEF CensusSoup
<1>7. (Searched = Part(0, lb))'
  BY <1>1, <1>2, <1>5, <1>6 DEF RoundCovers, Part, Eligible
<1>8. Waiting(S)'
  BY <1>1, <1>2, <1>3 DEF RoundCovers, Waiting, Part, Eligible, NextBoundary
<1> QED BY <1>1, <1>7, <1>8 DEF BetweenCovers

\* A step of a worker keeps it.
LEMMA CoversWorker ==
  ASSUME IInv, CInv, NEW w \in Workers, Worker(w)
  PROVE  CInv'
<1> USE DEF mainVars, workerVars
<1>0. TypeOK /\ Threads /\ Holding
  BY DEF IInv
<1>1. /\ UNCHANGED <<running, pc, vec, nvec, lb, maxcount, newi, survivors, failures>>
      /\ wpc[w] # "done"
  BY DEF Worker, Poll, Claim, CensusSoup, Count
<1>2. InRound
  BY <1>0, <1>1 DEF Threads, InRound
<1> SUFFICES ASSUME Uninterrupted' PROVE RoundCovers'
  BY <1>1, <1>2 DEF CInv, InRound
<1>3. RoundCovers /\ running
  BY <1>1, <1>2 DEF CInv, Uninterrupted
<1>4. Waiting(newi)' /\ UNCHANGED Part(0, lb)
  BY <1>1, <1>3 DEF RoundCovers, Waiting, Part, Eligible, NextBoundary
<1>5. CASE Poll(w)
  <2>1. UNCHANGED <<idx, held>> /\ Searched' = Searched
    BY <1>5 DEF Poll, Searched
  <2>2. \A v \in Workers : /\ wpc[v] = "census" <=> wpc'[v] = "census"
                           /\ wpc'[v] = "done" => wpc[v] = "done"
    BY <1>0, <1>3, <1>5 DEF Poll, TypeOK
  <2> QED BY <1>1, <1>3, <1>4, <2>1, <2>2 DEF RoundCovers
<1>6. CASE Claim(w)
  <2>1. Searched' = Searched /\ wpc[w] = "claim"
    BY <1>6 DEF Claim, Searched
  <2>2. CASE nvec \subseteq idx /\ wpc' = [wpc EXCEPT ![w] = "done"]
             /\ UNCHANGED <<idx, held>>
    <3>1. \A v \in Workers : wpc[v] = "census" <=> wpc'[v] = "census"
      BY <1>0, <2>1, <2>2 DEF TypeOK
    <3> QED BY <1>1, <1>3, <1>4, <2>1, <2>2, <3>1 DEF RoundCovers
  <2>3. ASSUME NEW x \in nvec \ idx, idx' = idx \cup {x},
               held' = [held EXCEPT ![w] = x],
               wpc' = [wpc EXCEPT ![w] = "census"]
        PROVE  RoundCovers'
    <3>1. /\ held'[w] = x /\ wpc'[w] = "census"
          /\ \A v \in Workers \ {w} : held'[v] = held[v] /\ wpc'[v] = wpc[v]
      BY <1>0, <2>3 DEF TypeOK
    <3>2. \A y \in idx' : \/ y \in Searched'
                          \/ \E v \in Workers : wpc'[v] = "census" /\ held'[v] = y
      <4> SUFFICES ASSUME NEW y \in idx', y \notin Searched
                   PROVE  \E v \in Workers : wpc'[v] = "census" /\ held'[v] = y
        BY <2>1
      <4>1. CASE y = x
        BY <3>1, <4>1
      <4>2. CASE y # x
        <5>1. PICK v \in Workers : wpc[v] = "census" /\ held[v] = y
          BY <1>3, <2>3, <4>2 DEF RoundCovers
        <5>2. v # w
          BY <2>1, <5>1
        <5> QED BY <3>1, <5>1, <5>2
      <4> QED BY <4>1, <4>2
    <3>3. \A v \in Workers : wpc'[v] = "done" => nvec' \subseteq idx'
      BY <1>1, <1>3, <2>3, <3>1 DEF RoundCovers
    <3> QED BY <1>1, <1>3, <1>4, <2>1, <3>2, <3>3 DEF RoundCovers
  <2> QED BY <1>6, <2>2, <2>3 DEF Claim
<1>7. CASE CensusSoup(w)
  <2>1. /\ UNCHANGED <<idx, held>> /\ wpc[w] = "census" /\ wpc'[w] = "count"
        /\ \A v \in Workers \ {w} : wpc'[v] = wpc[v]
    BY <1>0, <1>7 DEF CensusSoup, TypeOK
  <2>2. Searched' = Searched \cup {held[w]}
    <3>1. /\ census' = census /\ local'[w] = local[w] \cup {held[w]}
          /\ \A v \in Workers \ {w} : local'[v] = local[v]
      BY <1>0, <1>7 DEF CensusSoup, TypeOK
    <3> QED BY <3>1 DEF Searched
  <2>3. held[w] \in nvec
    BY <1>0, <2>1 DEF Holding, Busy, TypeOK
  <2>4. nvec' \cup Searched' = nvec \cup Searched
    BY <1>1, <2>2, <2>3
  <2>5. \A y \in idx' : \/ y \in Searched'
                        \/ \E v \in Workers : wpc'[v] = "census" /\ held'[v] = y
    <3> SUFFICES ASSUME NEW y \in idx, y \notin Searched'
                 PROVE  \E v \in Workers : wpc'[v] = "census" /\ held'[v] = y
      BY <2>1
    <3>1. PICK v \in Workers : wpc[v] = "census" /\ held[v] = y
      BY <1>3, <2>2 DEF RoundCovers
    <3>2. v # w
      BY <2>2, <3>1
    <3> QED BY <2>1, <3>1, <3>2
  <2>6. \A v \in Workers : wpc'[v] = "done" => wpc[v] = "done"
    BY <2>1
  <2> QED BY <1>1, <1>3, <1>4, <2>1, <2>4, <2>5, <2>6 DEF RoundCovers
<1>8. CASE Count(w)
  <2>1. UNCHANGED <<idx, held>> /\ Searched' = Searched
    BY <1>8 DEF Count, Searched
  <2>2. \A v \in Workers : /\ wpc[v] = "census" <=> wpc'[v] = "census"
                           /\ wpc'[v] = "done" => wpc[v] = "done"
    BY <1>0, <1>8 DEF Count, TypeOK
  <2> QED BY <1>1, <1>3, <1>4, <2>1, <2>2 DEF RoundCovers
<1> QED BY <1>5, <1>6, <1>7, <1>8 DEF Worker

\* The steps that only move control, or only stop the search, or only aggregate.
LEMMA CoversQuietStep ==
  ASSUME IInv, CInv,
         \/ ExitLoop \/ Report \/ Signal \/ QuitKey \/ JoinThread \/ Retry
         \/ (\E ok \in BOOLEAN : Submit(ok)) \/ UNCHANGED vars
  PROVE  CInv'
<1> USE DEF mainVars, workerVars, InRound
<1>0. TypeOK /\ Threads
  BY DEF IInv
<1>1. pc' = "retry" => failures' # 0
  BY <1>0 DEF ExitLoop, Report, Signal, QuitKey, JoinThread, Retry, Submit, vars,
              CInv, TypeOK
<1> SUFFICES ASSUME Uninterrupted' PROVE IF InRound' THEN RoundCovers' ELSE BetweenCovers'
  BY <1>1 DEF CInv
<1>2. running /\ failures = 0 /\ pc # "done"
      /\ (Report \/ JoinThread \/ UNCHANGED vars)
  <2>1. ASSUME NEW ok \in BOOLEAN, Submit(ok) PROVE FALSE
    BY <1>0, <2>1 DEF Uninterrupted, Submit, TypeOK
  <2>2. CASE Retry
    BY <2>2 DEF Uninterrupted, Retry, CInv
  <2>3. CASE ExitLoop \/ Signal \/ QuitKey
    BY <2>3 DEF Uninterrupted, ExitLoop, Signal, QuitKey
  <2>4. CASE Report \/ JoinThread \/ UNCHANGED vars
    BY <1>0, <2>4 DEF Uninterrupted, Report, JoinThread, vars
  <2> QED BY <2>1, <2>2, <2>3, <2>4
<1>3. /\ UNCHANGED <<vec, nvec, lb, maxcount, newi, soupsCompletedSinceStart, idx,
                     wpc, held, survivors>>
      /\ InRound' <=> InRound
  BY <1>0, <1>2 DEF Report, JoinThread, vars
<1>4. Searched' = Searched
  <2>1. \A w \in Workers : wpc[w] = "census" => ~CensusSoup(w)
    BY <1>0, <1>3 DEF CensusSoup, TypeOK
  <2>2. [Next]_vars
    BY <1>2 DEF Next, SearchStep
  <2> QED BY <2>1, <2>2, SearchedStep DEF CensusSoup
<1>5. UNCHANGED <<Waiting(newi), Waiting(soupsCompletedSinceStart), Part(0, lb)>>
  BY <1>3 DEF Waiting, Part, Eligible, NextBoundary
<1>6. pc' = "submit" /\ pc # "submit" => soupsCompletedSinceStart = maxcount /\ vec = {}
  BY <1>2 DEF Report, Finished, JoinThread, vars
<1>7. IF InRound THEN RoundCovers ELSE BetweenCovers
  BY <1>2 DEF CInv, Uninterrupted
<1>8. CASE InRound
  BY <1>3, <1>4, <1>5, <1>7, <1>8 DEF RoundCovers
<1>9. CASE ~InRound
  BY <1>3, <1>4, <1>5, <1>6, <1>7, <1>9 DEF BetweenCovers
<1> QED BY <1>8, <1>9

\* It holds in every reachable state.
LEMMA CoversInductive == Spec => []CInv
<1>1. Init => CInv
  BY InitCovers
<1>2. IInv /\ CInv /\ [Next]_vars => CInv'
  BY CoversQuietStep, CoversStartRound, CoversPumpEpoch, CoversTally, CoversWorker
     DEF Next, SearchStep, Terminated
<1> QED BY <1>1, <1>2, Inductive, PTL DEF Spec

\* A haul neither stopped nor retried holds every soup due and no other, on
\* both builds, whatever the haul size, the survivors and the threads.
THEOREM HaulComplete == Spec => []UninterruptedHaulCovers
<1>1. IInv /\ CInv => UninterruptedHaulCovers
  <2> SUFFICES ASSUME IInv, CInv, pc = "submit", running, failures = 0
               PROVE  soupsCompletedSinceStart = maxcount /\ census = Due(maxcount)
    BY DEF UninterruptedHaulCovers
  <2>1. BetweenCovers /\ soupsCompletedSinceStart = maxcount /\ vec = {}
    BY DEF CInv, Uninterrupted, InRound, BetweenCovers
  <2>2. Searched = census
    <3>1. \A w \in Workers : local[w] = {}
      BY DEF IInv, Threads, InRound
    <3> QED BY <3>1 DEF Searched
  <2>3. /\ maxcount \in Nat /\ lb \in Nat /\ maxcount < NextBoundary(maxcount)
        /\ NextBoundary(maxcount) \in Nat
    BY BoundaryFacts DEF IInv, TypeOK
  <2>4. Part(lb, NextBoundary(maxcount)) = {}
    BY <2>1 DEF BetweenCovers, Waiting
  <2>5. Part(0, lb) = {x \in Eligible : x < maxcount}
    BY <2>3, <2>4 DEF Part, Eligible
  <2> QED BY <2>1, <2>2, <2>3, <2>5, DueIsEligible DEF BetweenCovers
<1> QED BY <1>1, Inductive, CoversInductive, PTL
=============================================================================
