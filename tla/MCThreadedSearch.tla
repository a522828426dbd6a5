-------------------------- MODULE MCThreadedSearch --------------------------
(* Instances of ThreadedSearch for TLC. *)
EXTENDS ThreadedSearch

NoYield == {{}}
Thin == SUBSET {0, 1, 2, 4, 5}
=============================================================================
