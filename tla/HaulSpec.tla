------------------------------ MODULE HaulSpec ------------------------------
(***************************************************************************)
(* What a search promises, whatever the threads do: soups are searched one *)
(* at a time, none twice, and a haul is submitted only when exactly the    *)
(* soups 0 .. n-1 it reports have been searched; nothing happens after a   *)
(* haul is acknowledged.                                                   *)
(***************************************************************************)
EXTENDS Integers

VARIABLES searched, haul

Init == searched = {} /\ haul = [num |-> 0, soups |-> {}, acked |-> FALSE]

\* One soup that has not been searched before.
Search == /\ ~haul.acked
          /\ \E x \in searched' \ searched : searched' = searched \cup {x}
          /\ UNCHANGED haul

\* The submission says how many soups it holds, and holds soups 0 .. num-1.
Submit == /\ ~haul.acked
          /\ haul'.num \in Nat
          /\ searched = 0 .. haul'.num - 1
          /\ haul'.soups = searched
          /\ UNCHANGED searched

Next == Search \/ Submit

Spec == Init /\ [][Next]_<<searched, haul>>
=============================================================================
