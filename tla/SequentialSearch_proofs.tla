----------------------- MODULE SequentialSearch_proofs -----------------------
(* Theorems about SequentialSearch, for every haul size and every input. *)
EXTENDS SequentialSearch, FiniteSetTheorems, SequenceTheorems, WellFoundedInduction, TLAPS

\* While the search may go on the haul is not full, and only a search that is
\* over has been acknowledged.
Control ==
  /\ pc = "top" /\ running => soupsCompletedSinceStart < maxcount
  /\ haul.acked => pc = "done"

IInv == TypeOK /\ CensusExact /\ Control

-----------------------------------------------------------------------------
\* retrieveSeed leaves lines of the input.
LEMMA AfterReadType ==
  ASSUME NEW in \in Seq(Lines)
  PROVE  afterRead(in) \in Seq(Lines)
<1> DEFINE n == linesRead(in)
           S == {k \in 1 .. Len(in) : \A l \in 1 .. k - 1 : in[l] \notin Ends}
<1>1. Len(in) \in Nat
  BY LenProperties
<1>2. IsFiniteSet(1 .. Len(in)) /\ Cardinality(1 .. Len(in)) = Len(in)
  BY <1>1, FS_Interval
<1>3. Cardinality(S) \in Nat /\ Cardinality(S) <= Len(in)
  BY <1>1, <1>2, FS_Subset, FS_CardinalityType
<1>4. n \in Nat
  BY <1>3 DEF linesRead
<1>5. \A k \in n + 1 .. Len(in) : in[k] \in Lines
  BY <1>1, <1>4, ElementOfSeq
<1> HIDE DEF n
<1> QED
  BY <1>1, <1>4, <1>5, SubSeqProperties DEF afterRead, n

-----------------------------------------------------------------------------
\* The invariant holds at the start.
LEMMA InitIInv == Init => IInv
<1> SUFFICES ASSUME Init PROVE IInv
  OBVIOUS
<1> USE OptionsAssumption
<1>0. input \in Seq(Lines)
  <2>1. CASE STDIN_SYM
    BY <2>1, InputsAssumption DEF Init
  <2>2. CASE ~STDIN_SYM
    BY <2>2 DEF Init
  <2> QED BY <2>1, <2>2
<1>1. TypeOK
  BY <1>0 DEF Init, TypeOK
<1>2. CensusExact /\ Control
  BY DEF Init, CensusExact, Control
<1> QED
  BY <1>1, <1>2 DEF IInv

\* Every step keeps it.
LEMMA NextIInv == IInv /\ [Next]_vars => IInv'
<1> SUFFICES ASSUME IInv, [Next]_vars PROVE IInv'
  OBVIOUS
<1> USE OptionsAssumption DEF IInv
<1>1. CASE NextSoup
  <2>1. soupsCompletedSinceStart < maxcount
    BY <1>1 DEF NextSoup, Control
  <2>2. TypeOK'
    <3>1. running' \in BOOLEAN
      BY <1>1 DEF NextSoup, TypeOK, readingrle
    <3>2. input' \in Seq(Lines)
      BY <1>1, AfterReadType DEF NextSoup, TypeOK
    <3>3. /\ soupsCompletedSinceStart' \in 0 .. maxcount'
          /\ maxcount' \in Nat /\ census' \in SUBSET Nat
      BY <1>1, <2>1 DEF NextSoup, TypeOK, Counted
    <3> QED
      BY <1>1, <3>1, <3>2, <3>3 DEF NextSoup, TypeOK
  <2>3. CensusExact'
    <3>1. census' = (0 .. soupsCompletedSinceStart - 1) \cup {soupsCompletedSinceStart}
      BY <1>1 DEF NextSoup, CensusExact
    <3>2. soupsCompletedSinceStart \in Nat
      BY DEF TypeOK
    <3>3. census' = 0 .. (soupsCompletedSinceStart + 1) - 1
      BY <3>1, <3>2
    <3> QED
      BY <1>1, <3>3 DEF NextSoup, Counted, CensusExact
  <2>4. Control'
    BY <1>1 DEF NextSoup, Control
  <2> QED
    BY <2>2, <2>3, <2>4
<1>2. CASE Report
  <2>1. TypeOK' /\ CensusExact'
    BY <1>2 DEF Report, TypeOK, CensusExact
  <2>2. Control'
    BY <1>2 DEF Report, Finished, TypeOK, Control
  <2> QED
    BY <2>1, <2>2
<1>3. CASE Retry
  <2>1. TypeOK' /\ CensusExact'
    BY <1>3 DEF Retry, RaisedTarget, TypeOK, CensusExact
  <2>2. Control'
    BY <1>3 DEF Retry, RaisedTarget, TypeOK, Control
  <2> QED
    BY <2>1, <2>2
<1>4. ASSUME NEW ok \in BOOLEAN, Submit(ok) PROVE IInv'
  <2>1. TypeOK' /\ CensusExact'
    BY <1>4 DEF Submit, TypeOK, CensusExact
  <2>2. Control'
    BY <1>4 DEF Submit, Control
  <2> QED
    BY <2>1, <2>2
<1>5. CASE ExitLoop
  BY <1>5 DEF ExitLoop, TypeOK, CensusExact, Control
<1>6. CASE QuitKey
  BY <1>6 DEF QuitKey, AfterQuit, TypeOK, CensusExact, Control
<1>7. CASE Signal
  BY <1>7 DEF Signal, TypeOK, CensusExact, Control
<1>8. CASE Terminated \/ UNCHANGED vars
  BY <1>8 DEF Terminated, vars, TypeOK, CensusExact, Control
<1> QED
  BY <1>1, <1>2, <1>3, <1>4, <1>5, <1>6, <1>7, <1>8 DEF Next, Step

\* The invariant holds in every reachable state.
LEMMA SpecIInv == Spec => []IInv
  BY InitIInv, NextIInv, PTL DEF Spec

\* The types are kept, and the count stays within the haul that is due.
THEOREM TypeCorrect == Spec => []TypeOK
<1>1. IInv => TypeOK
  BY DEF IInv
<1> QED
  BY <1>1, SpecIInv, PTL

\* The census of a search without threads is exactly the soups it counts.
THEOREM ExactCensus == Spec => []CensusExact
<1>1. IInv => CensusExact
  BY DEF IInv
<1> QED
  BY <1>1, SpecIInv, PTL

-----------------------------------------------------------------------------
\* The search starts as HaulSpec does.
LEMMA HaulInit == Init => Haul!Init
  BY DEF Init, Haul!Init

\* Each step searches one more soup, submits what was counted or changes
\* neither.
LEMMA HaulNext == IInv /\ [Next]_vars => [Haul!Next]_<<census, haul>>
<1> SUFFICES ASSUME IInv, [Next]_vars PROVE [Haul!Next]_<<census, haul>>
  OBVIOUS
<1> USE DEF IInv
<1>1. CASE NextSoup
  <2>1. ~haul.acked
    BY <1>1 DEF NextSoup, Control
  <2>2. soupsCompletedSinceStart \notin census
    BY DEF TypeOK, CensusExact
  <2>3. /\ census' = census \cup {soupsCompletedSinceStart}
        /\ UNCHANGED haul
    BY <1>1 DEF NextSoup
  <2> QED
    BY <2>1, <2>2, <2>3 DEF Haul!Next, Haul!Search
<1>2. ASSUME NEW ok \in BOOLEAN, Submit(ok) PROVE Haul!Next
  <2>1. ~haul.acked
    BY <1>2 DEF Submit, Control
  <2>2. /\ haul'.num = soupsCompletedSinceStart
        /\ haul'.soups = census
        /\ UNCHANGED census
    BY <1>2 DEF Submit
  <2> QED
    BY <2>1, <2>2 DEF TypeOK, CensusExact, Haul!Next, Haul!Submit
<1>3. CASE ExitLoop \/ Report \/ Retry \/ QuitKey \/ Signal \/ Terminated \/ UNCHANGED vars
  BY <1>3 DEF ExitLoop, Report, Retry, QuitKey, Signal, Terminated, vars
<1> QED
  BY <1>1, <1>2, <1>3 DEF Next, Step

\* A search without threads implements HaulSpec: it searches no soup twice and
\* submits exactly the soups it reports, until a submission is acknowledged.
THEOREM ImplementsHaulSpec == Spec => HaulSafety
<1>1. Init => Haul!Init
  BY HaulInit
<1>2. Spec => [][Haul!Next]_<<census, haul>>
  BY SpecIInv, HaulNext, PTL DEF Spec
<1>3. Spec => Init
  BY DEF Spec
<1> QED
  BY <1>1, <1>2, <1>3 DEF HaulSafety, Haul!Spec

-----------------------------------------------------------------------------
(* The end by the key.                                                     *)

Submitted == haul.num = soupsCompletedSinceStart /\ haul.soups = census

\* Without a signal waiter running is cleared only where a submission follows,
\* and nothing is censused after it.
NoGap ==
  ~STDIN_SYM =>
    /\ pc = "report" => running
    /\ pc \in {"retry", "done"} => Submitted
    /\ pc = "top" /\ ~running => Submitted

\* Every step keeps this.
LEMMA NoGapStep == ASSUME NoGap, [Next]_vars PROVE NoGap'
<1> USE DEF NoGap, Submitted
<1>1. CASE NextSoup \/ ExitLoop \/ Report \/ Retry
  BY <1>1 DEF NextSoup, ExitLoop, Report, Retry, Finished
<1>2. ASSUME NEW ok \in BOOLEAN, Submit(ok) PROVE NoGap'
  BY <1>2 DEF Submit
<1>3. CASE QuitKey \/ Signal \/ Terminated \/ UNCHANGED vars
  BY <1>3 DEF QuitKey, AfterQuit, Signal, Terminated, vars
<1> QED BY <1>1, <1>2, <1>3 DEF Next, Step

\* A search of numbered soups without threads ends with all of them submitted.
THEOREM NothingUnsubmitted == Spec => []QuitSubmitsAll
<1>1. Init => NoGap
  BY DEF Init, NoGap
<1>2. NoGap /\ [Next]_vars => NoGap'
  BY NoGapStep
<1>3. NoGap => QuitSubmitsAll
  BY DEF NoGap, Submitted, QuitSubmitsAll
<1> QED BY <1>1, <1>2, <1>3, PTL DEF Spec

-----------------------------------------------------------------------------
(* Reading the input.                                                      *)

Smaller == {ss \in Nat \X Nat : ss[1] < ss[2]}

LEMMA FirstOf ==
  ASSUME NEW T \in SUBSET Nat, T # {}
  PROVE  \E x \in T : \A y \in T : x <= y
<1>1. IsWellFoundedOn(Smaller, Nat)
  BY NatLessThanWellFounded DEF OpToRel, Smaller
<1>2. PICK x \in T : \A y \in T : <<y, x>> \notin Smaller
  BY <1>1, WFMin, Zenon
<1>3. \A y \in T : ~(y < x)
  BY <1>2 DEF Smaller
<1> QED BY <1>3

\* retrieveSeed reads up to the first '!', or to the end.
LEMMA ReadUpToEnd ==
  ASSUME NEW in \in Seq(Lines)
  PROVE  /\ linesRead(in) \in 0 .. Len(in)
         /\ \A k \in 1 .. linesRead(in) - 1 : in[k] \notin Ends
         /\ linesRead(in) < Len(in) => linesRead(in) > 0 /\ in[linesRead(in)] \in Ends
<1> DEFINE S == {k \in 1 .. Len(in) : \A l \in 1 .. k - 1 : in[l] \notin Ends}
           T == {k \in 1 .. Len(in) + 1 : k \notin S}
<1>0. Len(in) \in Nat
  OBVIOUS
<1>1. T \in SUBSET Nat /\ T # {}
  BY <1>0
<1>2. PICK x \in T : \A y \in T : x <= y
  <2> HIDE DEF T
  <2> QED BY <1>1, FirstOf
<1>3. x \in 1 .. Len(in) + 1 /\ x \notin S /\ \A k \in 1 .. x - 1 : k \in S
  BY <1>0, <1>2
<1>4. S = 1 .. x - 1
  <2>1. ASSUME NEW k \in S PROVE k \in 1 .. x - 1
    <3> SUFFICES ASSUME x <= k PROVE FALSE
      BY <1>0, <1>3
    <3>1. x \in 1 .. Len(in) /\ \A l \in 1 .. x - 1 : in[l] \notin Ends
      BY <1>0, <1>3
    <3> QED BY <1>3, <3>1
  <2> QED BY <1>3, <2>1
<1>5. linesRead(in) = x - 1
  <2>1. x - 1 \in Nat
    BY <1>0, <1>3
  <2>2. Cardinality(1 .. x - 1) = x - 1
    BY <2>1, FS_Interval
  <2> QED BY <1>4, <2>2 DEF linesRead
<1>6. \A k \in 1 .. x - 2 : in[k] \notin Ends
  <2>1. x - 1 \in 1 .. x - 1 => x - 1 \in S
    BY <1>3
  <2> QED BY <1>0, <1>3, <2>1
<1>7. x - 1 < Len(in) => x - 1 > 0 /\ in[x - 1] \in Ends
  <2>1. SUFFICES ASSUME x - 1 < Len(in) PROVE x - 1 > 0 /\ in[x - 1] \in Ends
    OBVIOUS
  <2>2. x \in 1 .. Len(in)
    BY <1>0, <1>3, <2>1
  <2>3. PICK l \in 1 .. x - 1 : in[l] \in Ends
    BY <1>3, <2>2
  <2> QED BY <1>0, <1>3, <1>6, <2>3
<1> HIDE DEF S, T
<1> QED BY <1>0, <1>3, <1>5, <1>6, <1>7

LEMMA AfterReadElements ==
  ASSUME NEW in \in Seq(Lines)
  PROVE  /\ Len(afterRead(in)) = Len(in) - linesRead(in)
         /\ \A k \in 1 .. Len(in) - linesRead(in) : afterRead(in)[k] = in[linesRead(in) + k]
<1> DEFINE n == linesRead(in)  s == SubSeq(in, n + 1, Len(in))
<1>1. Len(in) \in Nat /\ n \in 0 .. Len(in)
  BY ReadUpToEnd
<1> HIDE DEF n
<1>2. \A k \in n + 1 .. Len(in) : in[k] \in Lines
  BY <1>1, ElementOfSeq
<1>3. Len(s) = Len(in) - n /\ \A k \in 1 .. Len(in) - n : s[k] = in[n + k]
  BY <1>1, <1>2, SubSeqProperties
<1> QED BY <1>3 DEF afterRead, n

\* What is left of such an input is such an input.
LEMMA StillClosed ==
  ASSUME NEW in \in Seq(Lines), Closed(in)
  PROVE  Closed(afterRead(in))
<1> DEFINE n == linesRead(in)  rest == afterRead(in)
<1>1. /\ Len(in) \in Nat /\ n \in 0 .. Len(in) /\ (n < Len(in) => n > 0 /\ in[n] \in Ends)
      /\ Len(rest) = Len(in) - n /\ \A k \in 1 .. Len(in) - n : rest[k] = in[n + k]
  BY ReadUpToEnd, AfterReadElements
<1> HIDE DEF n, rest
<1>2. SUFFICES ASSUME NEW k \in 1 .. Len(rest), rest[k] = "last"
               PROVE  \E j \in 1 .. k - 1 :
                        rest[j] = "header" /\ \A l \in j .. k - 1 : rest[l] \notin Ends
  BY DEF Closed, rest
<1>3. n + k \in 1 .. Len(in) /\ in[n + k] = "last" /\ n > 0 /\ in[n] \in Ends
  BY <1>1, <1>2
<1>4. PICK j \in 1 .. n + k - 1 :
        in[j] = "header" /\ \A l \in j .. n + k - 1 : in[l] \notin Ends
  <2>1. PICK m \in 1 .. Len(in) : m = n + k
    BY <1>3
  <2>2. \E j \in 1 .. m - 1 : in[j] = "header" /\ \A l \in j .. m - 1 : in[l] \notin Ends
    BY <1>3, <2>1 DEF Closed
  <2> QED BY <1>1, <2>1, <2>2
<1>5. j > n
  BY <1>1, <1>3, <1>4
<1>6. PICK i \in 1 .. k - 1 : j = n + i
  <2>1. j - n \in 1 .. k - 1 /\ j = n + (j - n)
    BY <1>1, <1>5
  <2> QED BY <2>1
<1>7. rest[i] = "header"
  BY <1>1, <1>4, <1>6
<1>8. ASSUME NEW l \in i .. k - 1 PROVE rest[l] \notin Ends
  <2>1. n + l \in j .. n + k - 1 /\ l \in 1 .. Len(in) - n
    BY <1>1, <1>6
  <2> QED BY <1>1, <1>4, <2>1
<1> QED BY <1>7, <1>8

AllClosed == \A in \in Inputs : Closed(in)

RInv == IInv /\ (AllClosed => Closed(input))

\* A read that finds no header leaves nothing.
LEMMA NothingLeft ==
  ASSUME NEW in \in Seq(Lines), Closed(in), ~readingrle(in)
  PROVE  Len(afterRead(in)) = 0
<1> DEFINE n == linesRead(in)
<1>1. /\ Len(in) \in Nat /\ n \in 0 .. Len(in) /\ (n < Len(in) => n > 0 /\ in[n] \in Ends)
      /\ Len(afterRead(in)) = Len(in) - n
      /\ \A k \in 1 .. n : in[k] \notin Starts
  BY ReadUpToEnd, AfterReadElements DEF readingrle
<1> HIDE DEF n
<1>2. ~(n < Len(in))
  <2> SUFFICES ASSUME n < Len(in) PROVE FALSE
    OBVIOUS
  <2>1. n \in 1 .. Len(in) /\ in[n] = "last"
    BY <1>1 DEF Ends, Starts
  <2>2. PICK j \in 1 .. n - 1 : in[j] = "header"
    BY <2>1 DEF Closed
  <2> QED BY <1>1, <2>2 DEF Starts
<1> QED BY <1>1, <1>2

\* If every '!' of the input ends a pattern, the search does not end of itself
\* while a pattern is unread.
THEOREM PatternsAreRead == Spec => ReadsToTheEnd
<1>1. Init => RInv
  <2>1. Closed(<<>>)
    BY DEF Closed
  <2> QED BY <2>1, InitIInv DEF Init, RInv, AllClosed
<1>2. RInv /\ [Next]_vars => RInv'
  <2> SUFFICES ASSUME RInv, [Next]_vars, Closed(input) PROVE Closed(input')
    BY NextIInv DEF RInv, Closed, AllClosed
  <2>1. input \in Seq(Lines)
    BY DEF RInv, IInv, TypeOK
  <2>2. input' \in {input, afterRead(input)}
    BY DEF Next, Step, NextSoup, ExitLoop, Report, Retry, Submit, QuitKey, Signal, Terminated, vars
  <2> QED BY <2>1, <2>2, StillClosed DEF RInv
<1>3. RInv /\ [Next]_vars =>
        [AllClosed /\ pc = "top" /\ pc' = "report" /\ ~running' =>
           \A k \in 1 .. Len(input') : input'[k] \notin Starts]_vars
  <2> SUFFICES ASSUME RInv, Next, AllClosed, pc = "top", pc' = "report", ~running'
               PROVE  \A k \in 1 .. Len(input') : input'[k] \notin Starts
    OBVIOUS
  <2>1. NextSoup
    BY DEF Next, Step, ExitLoop, Report, Retry, Submit, QuitKey, Signal, Terminated, vars
  <2>2. STDIN_SYM /\ input' = afterRead(input) /\ ~readingrle(input)
    BY <2>1 DEF NextSoup
  <2>3. Len(input') = 0
    BY <2>2, NothingLeft DEF RInv, IInv, TypeOK
  <2> QED BY <2>3
<1> QED BY <1>1, <1>2, <1>3, PTL DEF Spec, ReadsToTheEnd, AllClosed
=============================================================================
