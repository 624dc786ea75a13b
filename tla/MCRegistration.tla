--------------------------- MODULE MCRegistration ---------------------------
EXTENDS Registration

CONSTANTS a1, d1, d2, d3

\* Two bodies are of the same document, with different TTLs.
MCBodies == [doc : {d1}, ttl : {1, 2}] \cup [doc : {d2, d3}, ttl : {1}]
MCDocumentOf == [b \in MCBodies |-> b.doc]

\* Two documents compete for the greater sequence, two TTLs of one for the same; a
\* malformed document is refused before the sequence of its request matters.
MCRequests ==
  {[agent |-> a1, seq |-> q[1], body |-> [doc |-> q[2], ttl |-> q[3]]] :
     q \in {<<0, d2, 1>>, <<1, d1, 1>>, <<1, d1, 2>>, <<0, d3, 1>>}}
=============================================================================
