----------------------------- MODULE Stabilise -----------------------------
(***************************************************************************)
(* When a soup counts as stable (stabilise.h): naivestab_awesome watches   *)
(* the population, stabilise3 then finds a cycle of hashes with a stack.   *)
(* One pass of a loop is one step.  The universe is deterministic: after   *)
(* `tail' generations it repeats itself every `cycle' generations, and     *)
(* population and hash are functions of where it is.  advance, population, *)
(* hash and the set of modified tiles belong to lifelib.                   *)
(***************************************************************************)
EXTENDS Integers, Sequences

CONSTANTS
  Universes,   \* the universes explored
  warmup,      \* generations before the first sample (256 with STDIN_SYM)
  Samples,     \* 1000: passes of the first loop
  securityAt,  \* <<0 :> 15, 40 :> 20, 60 :> 25, 80 :> 30>>
  periodAt,    \* <<0 :> 12, 400 :> 18, 500 :> 24, 600 :> 30>>
  Hashes,      \* 4000: passes of the second loop
  Stride,      \* 30: generations between two hashes
  Repetitions, \* 20: repetitions of a cycle that are checked
  Fallback     \* 1280

ASSUME UniversesAssumption ==
  \A u \in Universes :
    /\ u.tail \in Nat /\ u.cycle \in Nat \ {0}
    /\ u.pop  \in [0 .. u.tail + u.cycle - 1 -> Nat]
    /\ u.hash \in [0 .. u.tail + u.cycle - 1 -> Nat]
ASSUME LoopsAssumption ==
  /\ warmup \in Nat
  /\ Samples \in Nat \ {0} /\ Hashes \in Nat \ {0}
  /\ Stride \in Nat \ {0} /\ Repetitions \in Nat \ {0} /\ Fallback \in Nat
\* Thresholds only rise, and each change is one step of the loop.
ASSUME ScheduleAssumption ==
  /\ 0 \in DOMAIN securityAt /\ 0 \in DOMAIN periodAt
  /\ DOMAIN securityAt \subseteq Nat /\ DOMAIN periodAt \subseteq Nat
  /\ securityAt \in [DOMAIN securityAt -> Nat \ {0}]
  /\ periodAt \in [DOMAIN periodAt -> Nat \ (0 .. 7)]
  /\ \A a, b \in DOMAIN securityAt : a <= b => securityAt[a] <= securityAt[b]

VARIABLES
  universe,
  gen,          \* generations the pattern has advanced
  pc,
  i,            \* passes of the current loop so far
  depth, prevpop, period, security,
  steady,       \* auxiliary: how many of the depth samples were period apart
  hashlist, genlist, generation,
  result        \* what is returned

phase1 == <<depth, security, steady>>
phase2 == <<hashlist, genlist, generation>>
vars == <<universe, gen, pc, i, prevpop, period, phase1, phase2, result>>

\* Where the universe is at generation g.
Orbit(g) == IF g < universe.tail THEN g
            ELSE universe.tail + ((g - universe.tail) % universe.cycle)

totalPopulation(g) == universe.pop[Orbit(g)]
totalHash(g) == universe.hash[Orbit(g)]

\* No tile need be modified once all that is left is still or blinks.
mayBeUnmodified(g) == g >= universe.tail /\ universe.cycle <= 2

Init ==
  /\ universe \in Universes
  /\ gen = warmup
  /\ pc = "sample" /\ i = 0
  /\ depth = 0 /\ prevpop = 0 /\ steady = 0
  /\ period = periodAt[0] /\ security = securityAt[0]
  /\ hashlist = <<>> /\ genlist = <<>> /\ generation = 0
  /\ result = 0

-----------------------------------------------------------------------------
(* naivestab_awesome.                                                      *)

\* Slip: period -= 4.
flipped4(p) == p - 4

\* period ^= 4
flipped(p) == IF (p \div 4) % 2 = 1 THEN p - 4 ELSE p + 4

\* Slip: depth >= security off by one.
deepEnoughLate(d, s) == d > s

deepEnough(d, s) == d = s

\* Slip: the count survives a change of population.
deeperUnreset(same) == IF same THEN depth + 1 ELSE depth

deeper(same) == IF same THEN depth + 1 ELSE 0

securityNow == IF i \in DOMAIN securityAt THEN securityAt[i] ELSE security
periodNow   == IF i \in DOMAIN periodAt THEN periodAt[i] ELSE period

Sample ==
  /\ pc = "sample"
  /\ security' = securityNow
  /\ gen' = gen + periodNow
  /\ \/ /\ mayBeUnmodified(gen)
        /\ result' = 2 /\ pc' = "done"
        /\ period' = periodNow
        /\ UNCHANGED <<depth, steady, prevpop, i>>
     \/ LET currpop == totalPopulation(gen')
            same == currpop = prevpop
            stable == deepEnough(deeper(same), securityNow)
            last == i + 1 = Samples
        IN
        /\ depth' = deeper(same)
        /\ steady' = IF deeper(same) = 0 THEN 0
                      ELSE IF ~same THEN steady
                      ELSE IF periodNow = period THEN steady + 1 ELSE 1
        /\ prevpop' = currpop
        /\ period' = IF same THEN periodNow ELSE flipped(periodNow)
        /\ result' = IF stable THEN period' ELSE 0
        /\ pc' = IF stable THEN "done" ELSE IF last THEN "hash" ELSE "sample"
        /\ i' = IF ~stable /\ last THEN 0 ELSE i + 1
  /\ UNCHANGED <<universe, phase2>>

-----------------------------------------------------------------------------
(* stabilise3.                                                             *)

Below(h) == {k \in 1 .. Len(hashlist) : \A l \in 1 .. k : hashlist[l] < h}

\* The first position whose hash is not below h.
position(h) == CHOOSE k \in 1 .. Len(hashlist) + 1 :
                 k \notin Below(h) /\ \A l \in 1 .. k - 1 : l \in Below(h)

\* Slip: larger hashes stay on the stack.
untrimmed(list, pos) == list

\* Slip: one entry too many is popped.
overtrimmed(list, pos) == SubSeq(list, 1, pos - 2)

\* What is left when everything from pos on is popped.
trimmed(list, pos) == SubSeq(list, 1, pos - 1)

\* Slip: only the hashes are popped.
gensUnpopped(pos) == genlist

\* The generations are popped with the hashes, by a pop_back of their own.
gensLeft(pos) == trimmed(genlist, pos)

\* Slip: the generation before the advance.
stampEarly == generation

stamp == generation + Stride

\* A new hash: it replaces the larger ones on the stack.
Push ==
  /\ pc = "hash"
  /\ LET h == totalHash(gen + Stride)  pos == position(h)  last == i + 1 = Hashes IN
       /\ ~(pos <= Len(hashlist) /\ hashlist[pos] = h)
       /\ hashlist' = Append(trimmed(hashlist, pos), h)
       /\ genlist' = Append(gensLeft(pos), stamp)
       /\ gen' = IF last THEN gen + Stride + Fallback ELSE gen + Stride
       /\ pc' = IF last THEN "done" ELSE "hash"
       /\ result' = IF last THEN Fallback ELSE 0
  /\ generation' = generation + Stride
  /\ i' = i + 1
  /\ UNCHANGED <<universe, prevpop, period, phase1>>

\* The hash is on the stack.
Match ==
  /\ pc = "hash"
  /\ LET h == totalHash(gen + Stride)  pos == position(h) IN
       /\ pos <= Len(hashlist) /\ hashlist[pos] = h
       /\ period' = generation + Stride - genlist[pos]
       /\ prevpop' = totalPopulation(gen + Stride)
  /\ gen' = gen + Stride
  /\ generation' = generation + Stride
  /\ i' = 0
  /\ pc' = "repeat"
  /\ UNCHANGED <<universe, phase1, hashlist, genlist, result>>

Repeat ==
  /\ pc = "repeat"
  /\ gen' = gen + period
  /\ i' = i + 1
  /\ LET currpop == totalPopulation(gen') IN
       \/ /\ currpop # prevpop
          /\ pc' = "done"
          /\ result' = IF period < Fallback THEN Fallback ELSE period
          /\ UNCHANGED prevpop
       \/ /\ currpop = prevpop
          /\ prevpop' = currpop
          /\ pc' = IF i + 1 = Repetitions THEN "done" ELSE "repeat"
          /\ result' = IF i + 1 = Repetitions THEN period ELSE 0
  /\ UNCHANGED <<universe, period, phase1, phase2>>

Terminated == pc = "done" /\ UNCHANGED vars

Next == Sample \/ Push \/ Match \/ Repeat \/ Terminated

Spec == Init /\ [][Next]_vars

-----------------------------------------------------------------------------
TypeOK ==
  /\ gen \in Nat /\ i \in Nat
  /\ pc \in {"sample", "hash", "repeat", "done"}
  /\ depth \in Nat /\ prevpop \in Nat /\ steady \in Nat
  /\ period \in Nat \ {0} /\ security \in Nat \ {0}
  /\ hashlist \in Seq(Nat) /\ genlist \in Seq(Nat) /\ generation \in Nat
  /\ result \in Nat

\* The thresholds are raised while samples are being counted and compared with
\* ==; the count never gets past them.
DepthBelowSecurity == pc = "sample" => depth < security

\* The population has not changed over the samples counted in depth.  (Stated
\* for those taken at the present period.)
SteadyPopulation ==
  pc = "sample" =>
    \A k \in 0 .. steady - 1 : totalPopulation(gen - k * period) = prevpop

\* The hashes on the stack ascend and so do the generations they were seen at.
StackAscends ==
  /\ Len(hashlist) = Len(genlist)
  /\ \A k, l \in 1 .. Len(hashlist) :
       k < l => hashlist[k] < hashlist[l] /\ genlist[k] < genlist[l]

\* Each generation on the stack is the one its hash was seen at, though the two
\* lists are popped and pushed separately.
StackIsHistory ==
  pc = "hash" =>
    \A k \in 1 .. Len(hashlist) :
      hashlist[k] = totalHash(gen - generation + genlist[k])

Injective == \A a, b \in DOMAIN universe.hash :
               universe.hash[a] = universe.hash[b] => a = b

\* Passes of the second loop that repeat the universe.
Cycle == CHOOSE n \in 1 .. universe.cycle :
           /\ (Stride * n) % universe.cycle = 0
           /\ \A m \in 1 .. n - 1 : (Stride * m) % universe.cycle # 0

\* The hashes seen since the universe entered its cycle.
SeenOnCycle == {k \in 1 .. i : gen - Stride * (i - k) >= universe.tail}

\* A stack that pops larger hashes finds a cycle by the end of the second lap,
\* whether hashes collide or not.
FoundBySecondLap ==
  pc = "hash" => \A k \in SeenOnCycle : i - k + 1 < 2 * Cycle

\* What it finds is the shortest cycle, so the repetitions agree.
FindsCycle ==
  pc \in {"repeat", "done"} /\ genlist # <<>> /\ i < Hashes /\ Injective =>
    /\ period = Stride * Cycle
    /\ pc = "done" => result = period
=============================================================================
