-------------------------- MODULE SequentialSearch --------------------------
(***************************************************************************)
(* perpetualSearch without threads (numThreads = 0, searching.h): soups    *)
(* are censused one after the other.  They are numbered, or with STDIN_SYM *)
(* read as patterns from the standard input (retrieveSeed); then a signal  *)
(* waiter may stop the search, else the key 'q' may.                       *)
(***************************************************************************)
EXTENDS Integers, Sequences, FiniteSets

CONSTANTS
  Builds,        \* the values of STDIN_SYM explored
  soupsPerHaul,  \* -n
  Inputs,        \* the standard inputs explored, as sequences of Lines
  MaxFailures    \* bound: failed submissions explored

\* A line starts with 'x' ("header"), contains '!' ("last"), does both
\* ("header!") or neither ("row"), or is empty.
Lines == {"header", "header!", "row", "last", "blank"}

ASSUME OptionsAssumption == /\ Builds \subseteq BOOLEAN
                            /\ soupsPerHaul \in Nat \ {0}
                            /\ MaxFailures \in Nat
ASSUME InputsAssumption == Inputs \subseteq Seq(Lines)

VARIABLES
  STDIN_SYM,  \* whether soups are read from the standard input
  running, pc,
  census,     \* the soups censused, by their number
  soupsCompletedSinceStart, maxcount,
  input,      \* lines not yet read
  haul,       \* the last submission: [num, soups, acked]
  failures

vars == <<STDIN_SYM, running, pc, census, soupsCompletedSinceStart, maxcount,
          input, haul, failures>>

Starts == {"header", "header!"}
Ends == {"last", "header!"}

\* The number of lines retrieveSeed reads: those with no '!' before them.
linesRead(in) ==
  Cardinality({k \in 1 .. Len(in) : \A l \in 1 .. k - 1 : in[l] \notin Ends})

\* Slip: '!' is looked for before 'x'.
readingrleOpen(in) == \E k \in 1 .. linesRead(in) : in[k] = "header"

\* Whether they hold a pattern (readingrle).
readingrle(in) == \E k \in 1 .. linesRead(in) : in[k] \in Starts

afterRead(in) == SubSeq(in, linesRead(in) + 1, Len(in))

Init ==
  /\ STDIN_SYM \in Builds
  /\ running = TRUE /\ pc = "top"
  /\ census = {}
  /\ soupsCompletedSinceStart = 0 /\ maxcount = soupsPerHaul
  /\ input \in IF STDIN_SYM THEN Inputs ELSE {<<>>}
  /\ haul = [num |-> 0, soups |-> {}, acked |-> FALSE]
  /\ failures = 0

\* Slip: a soup that fills the haul is counted for the next one too.
CountedTwice == IF soupsCompletedSinceStart + 1 = maxcount
                THEN soupsCompletedSinceStart + 2 ELSE soupsCompletedSinceStart + 1

Counted == soupsCompletedSinceStart + 1

\* retrieveSeed, censusSoup and the count: a soup is censused even when the
\* input has ended.
NextSoup ==
  /\ pc = "top" /\ running
  /\ census' = census \cup {soupsCompletedSinceStart}
  /\ soupsCompletedSinceStart' = Counted
  /\ IF STDIN_SYM
     THEN /\ running' = readingrle(input)
          /\ input' = afterRead(input)
     ELSE UNCHANGED <<running, input>>
  /\ pc' = "report"
  /\ UNCHANGED <<STDIN_SYM, maxcount, haul, failures>>

ExitLoop ==
  /\ pc = "top" /\ ~running
  /\ pc' = "done"
  /\ UNCHANGED <<STDIN_SYM, running, census, soupsCompletedSinceStart, maxcount,
                 input, haul, failures>>

Finished == ~running \/ soupsCompletedSinceStart = maxcount

Report ==
  /\ pc = "report"
  /\ pc' = IF Finished THEN "submit" ELSE "top"
  /\ UNCHANGED <<STDIN_SYM, running, census, soupsCompletedSinceStart, maxcount,
                 input, haul, failures>>

\* Slip: the key clears running only.
AfterReport == IF Finished THEN "submit" ELSE "top"

\* 'q' finishes the haul, full or not.
AfterQuit == "submit"

\* A progress message is due and the key waiting is 'q'.
QuitKey ==
  /\ pc = "report" /\ ~STDIN_SYM
  /\ running' = FALSE
  /\ pc' = AfterQuit
  /\ UNCHANGED <<STDIN_SYM, census, soupsCompletedSinceStart, maxcount, input,
                 haul, failures>>

\* submitResults, and what follows its answer.
Submit(ok) ==
  /\ pc = "submit"
  /\ ok \/ failures < MaxFailures
  /\ haul' = [num |-> soupsCompletedSinceStart, soups |-> census, acked |-> ok]
  /\ failures' = IF ok THEN failures ELSE failures + 1
  /\ pc' = IF ok THEN "done" ELSE "retry"
  /\ UNCHANGED <<STDIN_SYM, running, census, soupsCompletedSinceStart, maxcount, input>>

\* Slip: the haul size is not raised.
SameTarget == maxcount

RaisedTarget == maxcount + soupsPerHaul

Retry ==
  /\ pc = "retry"
  /\ maxcount' = IF running THEN RaisedTarget ELSE maxcount
  /\ pc' = "top"
  /\ UNCHANGED <<STDIN_SYM, running, census, soupsCompletedSinceStart, input,
                 haul, failures>>

\* The signal waiter.
Signal ==
  /\ STDIN_SYM /\ running /\ pc # "done"
  /\ running' = FALSE
  /\ UNCHANGED <<STDIN_SYM, pc, census, soupsCompletedSinceStart, maxcount,
                 input, haul, failures>>

Terminated == pc = "done" /\ UNCHANGED vars

Step == NextSoup \/ ExitLoop \/ Report \/ Retry \/ \E ok \in BOOLEAN : Submit(ok)

Next == Step \/ QuitKey \/ Signal \/ Terminated

Spec == Init /\ [][Next]_vars

-----------------------------------------------------------------------------
Haul == INSTANCE HaulSpec WITH searched <- census
HaulSafety == Haul!Spec

TypeOK ==
  /\ STDIN_SYM \in BOOLEAN
  /\ running \in BOOLEAN
  /\ pc \in {"top", "report", "submit", "retry", "done"}
  /\ census \subseteq Nat
  /\ maxcount \in Nat
  /\ soupsCompletedSinceStart \in 0 .. maxcount
  /\ input \in Seq(Lines)
  /\ haul \in [num : Nat, soups : SUBSET Nat, acked : BOOLEAN]
  /\ failures \in Nat

\* A submission says how many soups its census holds: they are counted after
\* each census, and the end of an input ends in one more.
CensusExact == census = 0 .. soupsCompletedSinceStart - 1

\* Every '!' ends a pattern: a header stands before it, and no other '!' in
\* between.
Closed(in) ==
  \A k \in 1 .. Len(in) :
    in[k] = "last" =>
      \E j \in 1 .. k - 1 : in[j] = "header" /\ \A l \in j .. k - 1 : in[l] \notin Ends

\* If every '!' of the input ends a pattern (one in a comment does not, and ends
\* the search), patterns are read to the last before the search ends of itself:
\* then no header is left.
ReadsToTheEnd ==
  [][(\A in \in Inputs : Closed(in)) /\ pc = "top" /\ pc' = "report" /\ ~running' =>
       \A k \in 1 .. Len(input') : input'[k] \notin Starts]_vars

\* A search that is left by the key 'q' or by an accepted haul has submitted all
\* that it has censused, whether the key fell on a full haul, on part of one or on
\* one that a failed upload had carried over, and whether the upload succeeds or
\* not: unlike a signal, the key leaves no gap between the end of a haul and the
\* end of the loop.
QuitSubmitsAll ==
  pc = "done" /\ ~STDIN_SYM =>
    haul.num = soupsCompletedSinceStart /\ haul.soups = census
=============================================================================
