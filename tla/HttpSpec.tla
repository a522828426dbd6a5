------------------------------ MODULE HttpSpec ------------------------------
(***************************************************************************)
(* What an HTTP client promises to the callbacks of its user, whatever the *)
(* network does to the stream: the statuses and bodies heard are those of  *)
(* the messages promised, in order and from their beginnings; none begins  *)
(* before the last one is whole; it fails only if the connection may be    *)
(* cut, and after a failure nothing is heard.                              *)
(***************************************************************************)
EXTENDS Integers, Sequences, SequencesExt

VARIABLES
  promised,  \* the messages the server answers with: [status, body, openEnded]
  mayCut,    \* the connection may be cut
  asked,     \* requests made
  heard,     \* what the callbacks were given, the last of it perhaps not all
  failed     \* an exception was raised

vars == <<promised, mayCut, asked, heard, failed>>

Nothing == [status |-> 0, body |-> <<>>]

Init ==
  /\ asked = 0 /\ failed = FALSE
  /\ heard = <<Nothing>>

Ask ==
  /\ ~failed /\ asked < Len(promised)
  /\ asked' = asked + 1
  /\ UNCHANGED <<promised, mayCut, heard, failed>>

\* A message without a length ends with the connection, cut or not.
Whole(m, h) ==
  /\ h.status = m.status
  /\ h.body = m.body \/ (m.openEnded /\ mayCut /\ IsPrefix(h.body, m.body))

Begun(m, h) == /\ h = Nothing \/ h.status = m.status
               /\ IsPrefix(h.body, m.body)

Continues(h, g) == /\ h.status # 0 => g.status = h.status
                   /\ IsPrefix(h.body, g.body)

\* More is heard: of the present message, and perhaps of others after it.
Hear ==
  /\ ~failed
  /\ LET n == Len(heard)  m == Len(heard') IN
       /\ n <= m /\ m - 1 <= asked
       /\ SubSeq(heard', 1, n - 1) = SubSeq(heard, 1, n - 1)
       /\ Continues(heard[n], heard'[n])
       /\ \A k \in n .. m - 1 : Whole(promised[k], heard'[k])
       /\ IF m <= asked THEN Begun(promised[m], heard'[m]) ELSE heard'[m] = Nothing
  /\ UNCHANGED <<promised, mayCut, asked, failed>>

Fail ==
  /\ ~failed /\ mayCut
  /\ failed' = TRUE
  /\ UNCHANGED <<promised, mayCut, asked, heard>>

Next == Ask \/ Hear \/ Fail

Spec == Init /\ [][Next]_vars
=============================================================================
