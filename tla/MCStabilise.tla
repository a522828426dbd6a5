---------------------------- MODULE MCStabilise ----------------------------
(* Instances of Stabilise for TLC: schedules scaled down, every small      *)
(* universe.                                                               *)
EXTENDS Stabilise, TLC

\* Universes of n states with the given populations and hashes.
Made(n, pops, hashes) ==
  {[tail |-> n - c, cycle |-> c, pop |-> p, hash |-> h] :
     c \in 1 .. n, p \in pops, h \in hashes}

TwoPops(n) == [0 .. n - 1 -> {1, 2}]
AnyHash(n) == [0 .. n - 1 -> 0 .. n - 1]
Distinct(n) == {h \in AnyHash(n) : \A a, b \in 0 .. n - 1 : h[a] = h[b] => a = b}

\* For the stack: all hash functions of up to three states, collisions
\* included, and all distinct ones of four and five.
StackUniverses ==
  UNION {Made(n, TwoPops(n), AnyHash(n)) : n \in 1 .. 3}
    \cup Made(4, TwoPops(4), Distinct(4))
    \cup Made(5, {[k \in 0 .. 4 |-> 1], [k \in 0 .. 4 |-> k % 2]}, Distinct(5))

\* For the population test hashes play no part.
PopulationUniverses ==
  UNION {Made(n, TwoPops(n), {[k \in 0 .. n - 1 |-> 0]}) : n \in 1 .. 8}

AllUniverses == StackUniverses \cup PopulationUniverses

Securities == 0 :> 3 @@ 4 :> 4 @@ 6 :> 5 @@ 8 :> 6
Periods    == 0 :> 12 @@ 14 :> 18 @@ 17 :> 24 @@ 20 :> 30
=============================================================================
