---------------------------- MODULE MCDetection ----------------------------
(* Instances of Detection for TLC. *)
EXTENDS Detection

Call(kind, tail, cycle, growth, start, stepsize, hashlife, gens, nonempty, large) ==
  [kind |-> kind, tail |-> tail, cycle |-> cycle, growth |-> growth, start |-> start,
   stepsize |-> stepsize, hashlife |-> hashlife, gensElapsed |-> gens,
   nonempty |-> nonempty, large |-> large]

Words(S, n) == UNION {[1 .. m -> S] : m \in 0 .. n}

\* Every linear growth of up to three states, at every phase.
Linear == {Call("growth", <<>>, c, g, s * k, s, h, 0, TRUE, FALSE) :
             c \in Words(0 .. 2, 3) \ {<<>>}, g \in 0 .. 3, k \in 0 .. 2, s \in 1 .. 2,
             h \in BOOLEAN}

\* Anything at all, for as long as it is looked at.
Chaotic == {Call("growth", t, <<1>>, g, 0, 1, FALSE, 0, TRUE, FALSE) :
              t \in [1 .. 8 -> 0 .. 1], g \in 0 .. 1}

\* Soups found stable at any time, rightly or not.
Soups == {Call("lifespan", t, c, 0, 0, 1, FALSE, g, n, l) :
            t \in Words(0 .. 1, 4), c \in Words(0 .. 1, 3) \ {<<>>}, g \in {2, 4, 6, 7},
            n \in BOOLEAN, l \in BOOLEAN}

SomeTasks == Linear \cup Chaotic \cup Soups
=============================================================================
