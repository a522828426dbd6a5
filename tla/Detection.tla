----------------------------- MODULE Detection -----------------------------
(***************************************************************************)
(* What the program reads off a sequence of populations: the name of a     *)
(* pattern that grows linearly (classifyAperiodic, detection.h) and how    *)
(* long a soup lasted (methudetect, searcher.h).  Both fill the sequence   *)
(* with get_popseq, from one pattern or from two that take turns.          *)
(***************************************************************************)
EXTENDS Integers, Sequences, FiniteSetsExt

CONSTANTS
  Tasks,        \* the calls explored, see TasksAssumption
  maxperiod,    \* 4800: periods of growth are below it
  lifeperiod,   \* 4000: periods of a settled soup are below it
  window,       \* 8000: generations looked at after the end of the soup
  rerunFull,    \* 24000: a nonempty soup that took as long is run again
  rerunEmpty,   \* 500: and so is one of which nothing is left
  methuselah,   \* 25000: soups that lasted as long are worth a name
  Modulus       \* 2^32: ints that have overflowed are equal modulo this

Kinds == {"growth", "lifespan"}

\* A universe is "tail" and then "cycle" for ever, each lap of which adds
\* "growth" cells.
ASSUME TasksAssumption ==
  \A t \in Tasks :
    /\ t.kind \in Kinds
    /\ t.tail \in Seq(Nat) /\ t.cycle \in Seq(Nat) /\ t.cycle # <<>> /\ t.growth \in Nat
    /\ t.start \in Nat              \* the generation of the pattern passed
    /\ t.stepsize \in Nat \ {0}
    /\ t.hashlife \in BOOLEAN       \* HASHLIFE_ONLY
    /\ t.gensElapsed \in Nat        \* when the soup was found to be stable
    /\ t.nonempty \in BOOLEAN       \* something but gliders is left of it
    /\ t.large \in BOOLEAN          \* LARGE_SYMMETRY
    /\ t.kind = "lifespan" => t.start = 0 /\ t.stepsize = 1 /\ ~t.hashlife /\ t.growth = 0
ASSUME SizesAssumption ==
  /\ maxperiod \in Nat /\ maxperiod > 1
  /\ lifeperiod \in Nat /\ lifeperiod > 1 /\ window \in Nat /\ window >= lifeperiod
  /\ rerunFull \in Nat /\ methuselah \in Nat
  /\ rerunEmpty \in Nat \ {0, 1}  \* the scan for the last change stops at generation 1
  /\ rerunEmpty <= rerunFull /\ rerunFull <= methuselah
  /\ Modulus \in Nat \ {0} /\ Modulus % 2 = 0

VARIABLES
  task,     \* the call: constant once chosen
  stage,    \* where it is, see Stages
  i,        \* loop variable of get_popseq and of the moments
  pat0,     \* generation of the pattern (of the first of the two)
  pat1,     \* generation of the second
  poplist,  \* the sequence filled so far, 0 where nothing was written
  p,        \* the period tried, or found
  q,        \* the qeriod tried, or found; -1 if there is none
  moments,  \* the three sums
  answer    \* what is returned

vars == <<task, stage, i, pat0, pat1, poplist, p, q, moments, answer>>

Stages == {"enter", "sample", "period", "qeriod", "moments", "power", "settle", "done"}

-----------------------------------------------------------------------------
(* The universe.                                                           *)

Population(t, g) ==
  LET n == Len(t.tail)  k == Len(t.cycle) IN
  IF g < n THEN t.tail[g + 1]
  ELSE t.cycle[((g - n) % k) + 1] + ((g - n) \div k) * t.growth

-----------------------------------------------------------------------------
(* get_popseq.                                                             *)

ngens == IF task.kind = "growth" THEN 3 * maxperiod ELSE task.gensElapsed + window

\* Slip: a pattern moves on by one step, as in the other build.
OneStep(t) == t.stepsize

\* How far the pattern that has been read moves on.
Stride(t) == IF t.hashlife THEN t.stepsize ELSE 2 * t.stepsize

\* The second pattern is read at the odd multiples of the step.
SecondsTurn(t, k) == ~t.hashlife /\ (k \div t.stepsize) % 2 = 1

Sample ==
  /\ stage = "sample" /\ i < ngens
  /\ IF SecondsTurn(task, i)
     THEN /\ poplist' = [poplist EXCEPT ![i] = Population(task, pat1)]
          /\ pat1' = pat1 + Stride(task) /\ pat0' = pat0
     ELSE /\ poplist' = [poplist EXCEPT ![i] = Population(task, pat0)]
          /\ pat0' = pat0 + Stride(task) /\ pat1' = pat1
  /\ i' = i + task.stepsize
  /\ UNCHANGED <<task, stage, p, q, moments, answer>>

EndSampling ==
  /\ stage = "sample" /\ i >= ngens
  /\ stage' = IF task.kind = "growth" THEN "period" ELSE "settle"
  /\ UNCHANGED <<task, i, pat0, pat1, poplist, p, q, moments, answer>>

-----------------------------------------------------------------------------
(* linearlyse.                                                             *)

\* difflist[k] when the period p is being tried.
diff(l, per, k) == l[k + per] - l[k]

\* difflist has the period r, for as long as the code looks.
Repeats(l, per, r) ==
  \A k \in 0 .. maxperiod - 1 : diff(l, per, k) = diff(l, per, k + r)

\* The next r, or what comes when there is none left ("PATHOLOGICAL").
TryPeriod ==
  /\ stage = "period"
  /\ IF Repeats(poplist, p, p) THEN stage' = "qeriod" /\ p' = p
     ELSE /\ p' = p + 1
          /\ stage' = IF p + 1 < maxperiod THEN "period" ELSE "power"
  /\ UNCHANGED <<task, i, pat0, pat1, poplist, q, moments, answer>>

\* Slip: a qeriod is smaller than the period.
BelowPeriod(qer, per) == qer + 1 < per

MoreQeriods(qer, per) == qer + 1 < maxperiod

TryQeriod ==
  /\ stage = "qeriod"
  /\ IF Repeats(poplist, p, q) THEN stage' = "moments" /\ q' = q
     ELSE IF MoreQeriods(q, p) THEN stage' = "qeriod" /\ q' = q + 1
     ELSE stage' = "power" /\ q' = -1
  /\ i' = 0
  /\ UNCHANGED <<task, pat0, pat1, poplist, p, moments, answer>>

\* Slip: a wider type.
Unwrapped(n) == n

\* What an int holds after an overflow.
Wrapped(n) == ((n + Modulus \div 2) % Modulus) - Modulus \div 2

\* Slip: the moments are summed over a qeriod.
OverQeriod(per, qer) == qer

\* The length of the sum.
SummedOver(per, qer) == per

Accumulate ==
  /\ stage = "moments" /\ i < SummedOver(p, q)
  /\ LET instadiff == poplist[i + q] - poplist[i] IN
       moments' = <<Wrapped(moments[1] + instadiff),
                    Wrapped(moments[2] + instadiff * instadiff),
                    Wrapped(moments[3] + instadiff * instadiff * instadiff)>>
  /\ i' = i + 1
  /\ UNCHANGED <<task, stage, pat0, pat1, poplist, p, q, answer>>

\* The name "yl"; md5 of the two higher moments stands for them.
GrowthName(per, qer, m) == [name |-> "yl", period |-> per, qeriod |-> qer, moments |-> m]

EndMoments ==
  /\ stage = "moments" /\ i >= SummedOver(p, q)
  /\ IF moments[1] = 0 THEN stage' = "power" /\ answer' = answer
     ELSE stage' = "done" /\ answer' = GrowthName(p, q, moments)
  /\ UNCHANGED <<task, i, pat0, pat1, poplist, p, q, moments>>

PowerNames == {"PATHOLOGICAL", "zz_REPLICATOR", "zz_LINEAR", "zz_EXPLOSIVE", "zz_QUADRATIC"}

\* powerlyse: a regression in floating point over a longer run, not followed here.
Powerlyse ==
  /\ stage = "power"
  /\ \E n \in PowerNames : answer' = [name |-> n]
  /\ stage' = "done"
  /\ UNCHANGED <<task, i, pat0, pat1, poplist, p, q, moments>>

-----------------------------------------------------------------------------
(* methudetect, after the population count.                                *)

rerun(t) == t.gensElapsed >= (IF t.nonempty THEN rerunFull ELSE rerunEmpty)

\* The codes a soup of a lifespan earns.
Earned(t, life) ==
  (IF ~t.nonempty /\ life >= rerunEmpty THEN {"messless"} ELSE {})
    \cup (IF ~t.large /\ life >= methuselah THEN {"methuselah"} ELSE {})

Rated(t, life) == [name |-> "life", estgen |-> life, codes |-> Earned(t, life)]

\* The call, and the returns before the soup is run again.
Enter ==
  /\ stage = "enter"
  /\ IF task.kind = "lifespan" /\ ((task.large /\ task.nonempty) \/ ~rerun(task))
     THEN stage' = "done" /\ answer' = [name |-> "life", estgen |-> 0, codes |-> {}]
     ELSE stage' = "sample" /\ answer' = answer
  /\ UNCHANGED <<task, i, pat0, pat1, poplist, p, q, moments>>

\* The populations of the window repeat those of per generations earlier.  An
\* index before the start reads whatever precedes the vector: any outcome.
Settled(per) ==
  {s \in BOOLEAN :
     LET read == {k \in task.gensElapsed .. ngens - 1 : k >= per}
         repeats == \A k \in read : poplist[k] = poplist[k - per]
     IN IF task.gensElapsed >= per THEN s = repeats ELSE s => repeats}

\* Slip: the generation of the last difference.
LastGeneration(k) == k

FirstSteady(k) == k + 1

\* The backward scan, which stops short of generation 0.
Lifespan(per) ==
  LET differ == {k \in 1 .. ngens - (per + 1) : poplist[k] # poplist[k + per]} IN
  IF differ = {} THEN 0 ELSE FirstSteady(Max(differ))

TryLifePeriod ==
  /\ stage = "settle"
  /\ \E s \in Settled(p) :
       IF s THEN stage' = "done" /\ p' = p /\ answer' = Rated(task, Lifespan(p))
       ELSE IF p + 1 < lifeperiod THEN stage' = "settle" /\ p' = p + 1 /\ answer' = answer
       ELSE stage' = "done" /\ p' = p + 1 /\ answer' = Rated(task, 0)
  /\ UNCHANGED <<task, i, pat0, pat1, poplist, q, moments>>

-----------------------------------------------------------------------------
Init ==
  /\ task \in Tasks /\ stage = "enter"
  /\ i = 0
  /\ pat0 = task.start /\ pat1 = task.start + task.stepsize
  /\ poplist = [k \in 0 .. ngens - 1 |-> 0]
  /\ p = 1 /\ q = 1
  /\ moments = <<0, 0, 0>>
  /\ answer = [name |-> "none"]

Terminated == stage = "done" /\ UNCHANGED vars

Next == Enter \/ Sample \/ EndSampling \/ TryPeriod \/ TryQeriod \/ Accumulate
        \/ EndMoments \/ Powerlyse \/ TryLifePeriod \/ Terminated

Spec == Init /\ [][Next]_vars

-----------------------------------------------------------------------------
Ints == -(Modulus \div 2) .. Modulus \div 2 - 1

TypeOK ==
  /\ stage \in Stages
  /\ i \in Nat /\ pat0 \in Nat /\ pat1 \in Nat
  /\ poplist \in [0 .. ngens - 1 -> Nat]
  /\ p \in Nat \ {0} /\ q \in (Nat \ {0}) \cup {-1}
  /\ moments \in Ints \X Ints \X Ints

\* The places get_popseq has written.
Written(k) == k % task.stepsize = 0 /\ (stage \in {"enter", "sample"} => k < i)

\* Patterns that take turns, or one alone, record one history: what get_popseq
\* has written is the population at every stepsize-th generation from the start.
PopseqIsHistory ==
  task.kind = "growth" \/ stage # "done" =>
    \A k \in 0 .. ngens - 1 :
      poplist[k] = IF Written(k) THEN Population(task, task.start + k) ELSE 0

\* "Something is seriously wrong": once a period is found, the search for the
\* qeriod cannot fail and ends no later than at that period.
SomeQeriod == q # -1 /\ (stage = "qeriod" => q <= p /\ p < maxperiod)

-----------------------------------------------------------------------------
(* What a name should be, from the whole future of the universe.           *)

\* stepsize is the least step the rule allows (uli_valid_mantissa), so a pattern
\* is caught at a multiple of it.
LinearTask(t) == /\ t.kind = "growth" /\ t.tail = <<>>
                 /\ Len(t.cycle) * t.stepsize <= maxperiod
                 /\ t.start % t.stepsize = 0

\* The sequence get_popseq would write from generation 0, were it infinite.
Seen(t, k) == IF k % t.stepsize = 0 THEN Population(t, k) ELSE 0

\* Differences of Seen repeat with this period.
Lap(t) == Len(t.cycle) * t.stepsize

Step(t, n, k) == Seen(t, k + n) - Seen(t, k)

IsPeriod(t, n) == \A k \in 0 .. Lap(t) - 1 : Step(t, n, k) = Step(t, n, k + n)

IsQeriod(t, n, r) == \A k \in 0 .. Lap(t) - 1 : Step(t, n, k) = Step(t, n, k + r)

Least(S) == Min(S)

TrueGrowth(t) == Least({n \in 1 .. Lap(t) : IsPeriod(t, n)})
TrueQeriod(t) == Least({r \in 1 .. TrueGrowth(t) : IsQeriod(t, TrueGrowth(t), r)})

\* The sum of the first n numbers.
Sum(numbers, n) ==
  LET s[k \in Nat] == IF k = 0 THEN 0 ELSE s[k - 1] + numbers[k - 1] IN s[n]

Power(x, e) == IF e = 1 THEN x ELSE IF e = 2 THEN x * x ELSE x * x * x

Steps(t, r, e) == [k \in Nat |-> Power(Step(t, r, k), e)]

TrueMoment(t, e) == Wrapped(Sum(Steps(t, TrueQeriod(t), e), TrueGrowth(t)))

TrueName(t) == GrowthName(TrueGrowth(t), TrueQeriod(t),
                          <<TrueMoment(t, 1), TrueMoment(t, 2), TrueMoment(t, 3)>>)

\* A linearly growing pattern gets one name at whatever phase it is caught,
\* the one its whole future gives it, overflowing moments included; it goes to
\* powerlyse only if its period is out of reach or it does not grow.
NameHasNoPhase ==
  stage \in {"power", "done"} /\ LinearTask(task) =>
    IF TrueName(task).period < maxperiod /\ TrueName(task).moments[1] # 0
    THEN stage = "done" /\ answer = TrueName(task)
    ELSE answer.name # "yl"

-----------------------------------------------------------------------------
(* How long a soup lasts.                                                  *)

Periodic(t, n) == \A k \in 0 .. Len(t.cycle) - 1 :
                    Population(t, Len(t.tail) + k) = Population(t, Len(t.tail) + k + n)

TruePeriod(t) == Least({n \in 1 .. Len(t.cycle) : Periodic(t, n)})

\* The first generation from which the population repeats for ever.
TrueLife(t) ==
  Least({g \in 0 .. Len(t.tail) :
           \A k \in g .. Len(t.tail) :
             Population(t, k) = Population(t, k + TruePeriod(t))})

\* The soup had repeated for a period when it was found to be stable.
FoundStable(t) == /\ TruePeriod(t) < lifeperiod
                  /\ TrueLife(t) + TruePeriod(t) <= t.gensElapsed

\* A soup that had settled when it was taken for stable earns what its true
\* lifespan deserves, whether it is run again or not, and nothing else; with
\* nothing read from before its start.
LifespanExact ==
  stage = "done" /\ task.kind = "lifespan" /\ FoundStable(task) =>
    /\ answer.codes = IF task.large /\ task.nonempty THEN {}
                      ELSE Earned(task, TrueLife(task))
    /\ p <= TruePeriod(task)
=============================================================================
