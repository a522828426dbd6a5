------------------------- MODULE MCSequentialSearch -------------------------
(* Instances of SequentialSearch for TLC. *)
EXTENDS SequentialSearch

\* A pattern, with the comments and empty lines that may stand around it.
Patterns == {<<"header", "last">>, <<"row", "header", "row", "last">>,
             <<"header!">>, <<"blank", "header", "header", "last", "blank">>}

\* The last one may lack its '!'.
FewPatterns ==
  {<<>>} \cup {p \o q \o r : p \in Patterns, q \in Patterns \cup {<<>>},
                             r \in {<<>>, <<"row">>, <<"header", "row">>}}
=============================================================================
