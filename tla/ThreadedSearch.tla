--------------------------- MODULE ThreadedSearch ---------------------------
(***************************************************************************)
(* perpetualSearch with numThreads > 0 (searching.h): the main thread      *)
(* pumps epochs of soup numbers, worker threads (partialBalancedSearch)    *)
(* census them, and finished hauls are submitted.  A soup is its number; a *)
(* census is the set of soups it counts.  The vectors vec and nvec hold    *)
(* their soups in ascending order without repetition (PumpedFresh), so     *)
(* they are sets here and idx is the set of soups already handed out.      *)
(*                                                                         *)
(* Gpu selects the build: the CPU pump yields the whole epoch, the GPU     *)
(* pump only the soups its preprocessor lets through ("survivors").        *)
(***************************************************************************)
EXTENDS Integers, FiniteSets

CONSTANTS
  numThreads,    \* worker threads (-p), at least 1 in this branch
  epoch_size,    \* 100000 (CPU) or 1000000 (GPU)
  PumpTarget,    \* 5000: the loop stops pumping at this many waiting soups
  soupsPerHaul,  \* -n
  Gpu,           \* USING_GPU
  Interactive,   \* 'q' is read from the keyboard, no signal waiter
  Yields,        \* the sets of soups the GPU preprocessor may let through
  MaxFailures    \* bound: failed submissions explored

ASSUME ThreadsAssumption == numThreads \in Nat \ {0}
ASSUME SizesAssumption == /\ epoch_size \in Nat \ {0}
                          /\ soupsPerHaul \in Nat \ {0}
                          /\ PumpTarget \in Nat
                          /\ MaxFailures \in Nat
\* The CPU epoch exceeds the target; -p 0 is what makes a CPU search
\* interactive; the GPU build rounds soupsPerHaul to whole epochs.
ASSUME BuildAssumption == /\ Gpu \in BOOLEAN /\ Interactive \in BOOLEAN
                          /\ ~Gpu => epoch_size >= PumpTarget /\ ~Interactive
                          /\ Gpu => soupsPerHaul % epoch_size = 0

Workers == 1 .. numThreads

VARIABLES
  running,    \* the atomic flag every thread polls
  pc,         \* where the main thread is
  vec,        \* soups pumped for the next round
  nvec,       \* soups of this round
  idx,        \* soups of nvec handed out to a worker
  ts,         \* soups of this round whose census is finished
  lb,         \* lower bound applied to the next round
  maxcount,   \* soups of the haul at its next submission
  newi,       \* where pumping has got to
  soupsCompletedSinceStart,
  joined,     \* workers joined and aggregated so far in this round
  wpc, held,  \* per worker: control state, soup it works on
  local,      \* per worker: localSoups[j].census
  census,     \* globalSoup.census
  survivors,  \* the soups the GPU preprocessor lets through
  haul,       \* the last submission: [num, soups, acked]
  failures    \* failed submissions so far

mainVars   == <<vec, nvec, lb, maxcount, newi, soupsCompletedSinceStart>>
workerVars == <<wpc, held, local, idx, ts>>
vars == <<running, pc, mainVars, workerVars, joined, census, survivors, haul,
          failures>>

-----------------------------------------------------------------------------
Epoch(k) == k * epoch_size .. k * epoch_size + (epoch_size - 1)

\* CpuSearcher::pump appends the whole epoch, GpuSearcher::pump part of it.
pump(k) == IF Gpu THEN Epoch(k) \cap survivors ELSE Epoch(k)

\* Slip: narrow without its lower bound.
narrowAbove(orig, low, high) == {x \in orig : x < high}

narrow(orig, low, high) == {x \in orig : low <= x /\ x < high}

\* Slip: the boundary at or below i.
PreviousBoundary(i) == (i \div epoch_size) * epoch_size

\* ((i / epoch_size) + 1) * epoch_size
NextBoundary(i) == (i \div epoch_size + 1) * epoch_size

\* Whether the loop pumps once more after appending up to boundary i.
KeepPumping(i, pumped) == /\ i < maxcount
                          /\ Cardinality(pumped) < PumpTarget
                          /\ running
                          /\ ts < Cardinality(nvec)

\* Slip: the operands of diff swapped.
RoundCountSwapped ==
  IF running \/ ts = Cardinality(nvec) THEN soupsCompletedSinceStart - newi ELSE ts

\* Slip: a round cut short not counted.
RoundCountNothing == IF running THEN newi - soupsCompletedSinceStart ELSE 0

\* The soups a round adds to soupsCompletedSinceStart: all it covers if it was
\* not cut short, else estim, which truncates (diff * ts) / nvec.size().
RoundCount ==
  LET diff == newi - soupsCompletedSinceStart IN
  IF running \/ ts = Cardinality(nvec)
  THEN diff ELSE (diff * ts) \div Cardinality(nvec)

\* Slip: globalSoup.aggregate only while the search goes on.
AggregatedWhileRunning(j) == IF running THEN census \cup local[j] ELSE census

Aggregated(j) == census \cup local[j]

\* Slip: a stop does not finish the haul.
FinishedOnlyWhenFull == soupsCompletedSinceStart = maxcount /\ vec = {}

\* Slip: soups still waiting in vec are forgotten.
FinishedBeforeDrained == ~running \/ soupsCompletedSinceStart = maxcount

Finished == ~running \/ (soupsCompletedSinceStart = maxcount /\ vec = {})

NoHaul == [num |-> 0, soups |-> {}, acked |-> FALSE]

Init ==
  /\ running = TRUE
  /\ pc = "top"
  /\ survivors \in Yields
  /\ vec = pump(0)
  /\ nvec = {} /\ idx = {} /\ ts = 0
  /\ lb = 0 /\ maxcount = soupsPerHaul
  /\ newi = 0 /\ soupsCompletedSinceStart = 0
  /\ joined = 0
  /\ wpc = [w \in Workers |-> "done"]
  /\ held = [w \in Workers |-> 0]
  /\ local = [w \in Workers |-> {}]
  /\ census = {}
  /\ haul = NoHaul
  /\ failures = 0

-----------------------------------------------------------------------------
(* The worker threads: partialBalancedSearch.                              *)

Poll(w) ==
  /\ wpc[w] = "poll"
  /\ wpc' = [wpc EXCEPT ![w] = IF running THEN "claim" ELSE "done"]
  /\ UNCHANGED <<running, pc, mainVars, held, local, idx, ts, joined, census,
                 survivors, haul, failures>>

\* curridx = idx++, then either the soup at that index or out of soups.
Claim(w) ==
  /\ wpc[w] = "claim"
  /\ \/ \E x \in nvec \ idx :
          /\ \A y \in nvec \ idx : x <= y
          /\ idx' = idx \cup {x}
          /\ held' = [held EXCEPT ![w] = x]
          /\ wpc' = [wpc EXCEPT ![w] = "census"]
     \/ /\ nvec \subseteq idx
        /\ wpc' = [wpc EXCEPT ![w] = "done"]
        /\ UNCHANGED <<idx, held>>
  /\ UNCHANGED <<running, pc, mainVars, local, ts, joined, census, survivors,
                 haul, failures>>

CensusSoup(w) ==
  /\ wpc[w] = "census"
  /\ local' = [local EXCEPT ![w] = @ \cup {held[w]}]
  /\ wpc' = [wpc EXCEPT ![w] = "count"]
  /\ UNCHANGED <<running, pc, mainVars, held, idx, ts, joined, census,
                 survivors, haul, failures>>

Count(w) ==
  /\ wpc[w] = "count"
  /\ ts' = ts + 1
  /\ wpc' = [wpc EXCEPT ![w] = "poll"]
  /\ UNCHANGED <<running, pc, mainVars, held, local, idx, joined, census,
                 survivors, haul, failures>>

Worker(w) == Poll(w) \/ Claim(w) \/ CensusSoup(w) \/ Count(w)

-----------------------------------------------------------------------------
(* The main thread: one round is StartRound, PumpEpoch (repeated), one     *)
(* JoinThread per worker, Tally and Report.                                *)

StartRound ==
  /\ pc = "top" /\ running
  /\ nvec' = narrow(vec, lb, maxcount)
  /\ vec' = {}
  /\ idx' = {} /\ ts' = 0
  /\ wpc' = [w \in Workers |-> "poll"]
  /\ local' = [w \in Workers |-> {}]
  /\ joined' = 0
  /\ newi' = soupsCompletedSinceStart
  /\ lb' = NextBoundary(soupsCompletedSinceStart)
  /\ pc' = "pump"
  /\ UNCHANGED <<running, maxcount, soupsCompletedSinceStart, held, census,
                 survivors, haul, failures>>

ExitLoop ==
  /\ pc = "top" /\ ~running
  /\ pc' = "done"
  /\ UNCHANGED <<running, mainVars, workerVars, joined, census, survivors,
                 haul, failures>>

\* One pass of the do ... while, its condition included.
PumpEpoch ==
  /\ pc = "pump"
  /\ LET b == NextBoundary(newi) IN
       /\ newi' = IF b < maxcount THEN b ELSE maxcount
       /\ vec' = IF b < maxcount THEN vec \cup pump(b \div epoch_size) ELSE vec
  /\ pc' = IF KeepPumping(newi', vec') THEN "pump" ELSE "join"
  /\ UNCHANGED <<running, nvec, lb, maxcount, soupsCompletedSinceStart,
                 workerVars, joined, census, survivors, haul, failures>>

\* The threads are joined and aggregated in the order of their index.
JoinThread ==
  /\ pc = "join" /\ joined < numThreads
  /\ wpc[joined + 1] = "done"
  /\ census' = Aggregated(joined + 1)
  /\ joined' = joined + 1
  /\ pc' = IF joined + 1 = numThreads THEN "tally" ELSE "join"
  /\ UNCHANGED <<running, mainVars, workerVars, survivors, haul, failures>>

\* Ends the block that owns localSoups.
Tally ==
  /\ pc = "tally"
  /\ soupsCompletedSinceStart' = soupsCompletedSinceStart + RoundCount
  /\ local' = [w \in Workers |-> {}]
  /\ pc' = "report"
  /\ UNCHANGED <<running, vec, nvec, lb, maxcount, newi, wpc, held, idx, ts,
                 joined, census, survivors, haul, failures>>

Report ==
  /\ pc = "report"
  /\ pc' = IF Finished THEN "submit" ELSE "top"
  /\ UNCHANGED <<running, mainVars, workerVars, joined, census, survivors,
                 haul, failures>>

\* A progress message is due and the key waiting is 'q'.
QuitKey ==
  /\ pc = "report" /\ Interactive
  /\ running' = FALSE
  /\ pc' = "submit"
  /\ UNCHANGED <<mainVars, workerVars, joined, census, survivors, haul,
                 failures>>

\* submitResults: a non-empty response ends the search.
Submit(ok) ==
  /\ pc = "submit"
  /\ ok \/ failures < MaxFailures
  /\ haul' = [num |-> soupsCompletedSinceStart, soups |-> census, acked |-> ok]
  /\ failures' = IF ok THEN failures ELSE failures + 1
  /\ pc' = IF ok THEN "done" ELSE "retry"
  /\ UNCHANGED <<running, mainVars, workerVars, joined, census, survivors>>

Retry ==
  /\ pc = "retry"
  /\ IF running
     THEN /\ vec' = pump(soupsCompletedSinceStart \div epoch_size)
          /\ maxcount' = maxcount + soupsPerHaul
     ELSE UNCHANGED <<vec, maxcount>>
  /\ pc' = "top"
  /\ UNCHANGED <<running, nvec, lb, newi, soupsCompletedSinceStart, workerVars,
                 joined, census, survivors, haul, failures>>

\* The signal waiter thread, which a non-interactive search has.
Signal ==
  /\ ~Interactive /\ running /\ pc # "done"
  /\ running' = FALSE
  /\ UNCHANGED <<pc, mainVars, workerVars, joined, census, survivors, haul,
                 failures>>

Terminated == pc = "done" /\ UNCHANGED vars

SearchStep == \/ StartRound \/ ExitLoop \/ PumpEpoch \/ JoinThread \/ Tally
              \/ Report \/ Retry

Next == \/ SearchStep
        \/ QuitKey
        \/ \E ok \in BOOLEAN : Submit(ok)
        \/ \E w \in Workers : Worker(w)
        \/ Signal
        \/ Terminated

Spec == Init /\ [][Next]_vars

\* Threads are scheduled fairly; nothing makes the server answer, a key be
\* pressed or a signal arrive.
FairSpec == Spec /\ WF_vars(SearchStep) /\ \A w \in Workers : WF_vars(Worker(w))

-----------------------------------------------------------------------------
Searched == census \cup UNION {local[w] : w \in Workers}

Haul == INSTANCE HaulSpec WITH searched <- Searched
HaulSafety == Haul!Spec

TypeOK ==
  /\ running \in BOOLEAN
  /\ pc \in {"top", "pump", "join", "tally", "report", "submit", "retry", "done"}
  /\ vec \subseteq Nat /\ nvec \subseteq Nat /\ idx \subseteq nvec
  /\ ts \in Nat /\ lb \in Nat /\ maxcount \in Nat /\ newi \in Nat
  /\ soupsCompletedSinceStart \in Nat
  /\ joined \in 0 .. numThreads
  /\ wpc \in [Workers -> {"poll", "claim", "census", "count", "done"}]
  /\ held \in [Workers -> Nat]
  /\ local \in [Workers -> SUBSET Nat]
  /\ census \subseteq Nat
  /\ haul \in [num : Nat, soups : SUBSET Nat, acked : BOOLEAN]
  /\ failures \in Nat

\* Each soup is counted at most once in the whole search, over rounds,
\* threads and failed uploads: the soup a worker is about to census is in no
\* census and with no other worker.  (vec is refilled at two places and only
\* lb keeps the second from repeating soups.)
NoSoupTwice ==
  \A w \in Workers : wpc[w] = "census" =>
    /\ held[w] \notin Searched
    /\ \A v \in Workers \ {w} :
         wpc[v] \in {"census", "count"} => held[v] # held[w]

\* Pumping never appends a soup vec already holds (which makes sets a
\* faithful picture of the vectors).
PumpedFresh ==
  pc = "pump" /\ NextBoundary(newi) < maxcount =>
    vec \cap Epoch(NextBoundary(newi) \div epoch_size) = {}

\* What is submitted: n soups reported, exactly soups 0 .. n-1 in the census,
\* for a CPU search of whole epochs, interrupted or not, after any number of
\* failed uploads.
HaulExact == pc = "submit" => census = 0 .. soupsCompletedSinceStart - 1

\* The claim "soupsCompletedSinceStart soups" never falls short of the
\* census, whatever -n is.
NeverUnderReports == pc = "submit" => census \subseteq 0 .. soupsCompletedSinceStart - 1

\* The soups the preprocessor lets through below n (all of them on a CPU).
Due(n) == {x \in UNION {pump(k) : k \in 0 .. n \div epoch_size} : x < n}

\* Nothing below the reported number is missing: what the printed and
\* uploaded "n soups" claims.
HaulCovers == pc = "submit" => Due(soupsCompletedSinceStart) \subseteq census

\* An uninterrupted haul whose uploads have not failed yet has drained vec: it
\* reports maxcount soups and holds every due one.
UninterruptedHaulCovers ==
  pc = "submit" /\ running /\ failures = 0 =>
    soupsCompletedSinceStart = maxcount /\ census = Due(maxcount)

\* A stop that arrives while a round is in progress ends in a submission.
StopLeadsToSubmission ==
  (~running /\ pc \in {"pump", "join", "tally", "report"}) ~> (pc = "submit")

\* "will attempt to submit results before exiting": whatever has been searched
\* by the time the search is left was part of its last submission.
ExitSubmitsAll == pc = "done" => haul.soups = census

\* A search in progress reaches a submission or leaves its loop.
SearchEnds == (pc = "top" /\ running) ~> (pc \in {"submit", "done"})
=============================================================================
