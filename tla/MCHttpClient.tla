---------------------------- MODULE MCHttpClient ----------------------------
(* Instances of HttpClient for TLC. *)
EXTENDS HttpClient

Message(continue, status, framing, chunks) ==
  [continue |-> continue, status |-> status, framing |-> framing, chunks |-> chunks,
   folded |-> FALSE]

\* What a server may answer to the one request of catagolueRequest.
Answers == {Message(c, s, f, b) : c \in BOOLEAN, s \in {200, 404},
              f \in {"length", "chunked", "close"}, b \in {<<1>>, <<3>>, <<2, 1>>}}

OneAnswer == {<<m>> : m \in Answers}

\* Two requests on one connection; empty chunked bodies are included.
TwoAnswers ==
  {<<a, b>> : a \in {Message(FALSE, 200, f, <<1, 1>>) : f \in {"length", "chunked"}}
                      \cup {Message(TRUE, 200, "chunked", <<>>)},
              b \in {Message(TRUE, 404, f, <<2>>) : f \in {"length", "chunked"}}
                      \cup {Message(FALSE, 200, "close", <<1>>)}}

\* A server may put the length or the encoding on a line of its own.
FoldedAnswer == {<<[m EXCEPT !.folded = TRUE]>> :
                   m \in {a \in Answers : a.framing # "close" /\ a.chunks # <<3>>}}

SomeAnswers == OneAnswer \cup FoldedAnswer \cup TwoAnswers

\* A message with a body that says it is empty, and one that cannot have any.
EmptyAnswers == {<<Message(FALSE, 200, "length", <<>>)>>, <<Message(FALSE, 204, "close", <<>>)>>}
=============================================================================
