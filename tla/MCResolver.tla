----------------------------- MODULE MCResolver -----------------------------
(* Resolver on small instances: a document with two endpoints and a            *)
(* credential that ends, or two that are revoked one by one; and a document   *)
(* that is in force for a while and grants nothing.                           *)
EXTENDS Resolver

CONSTANTS a1, chat, issuer, k1, k2

Credential(id, until) ==
  [id |-> id, issuer |-> issuer, subject |-> a1, capabilities |-> {chat},
   validFrom |-> 0, validUntil |-> until, wellFormed |-> TRUE, signed |-> TRUE]

Endpoint(type, ttl) == [type |-> type, ttl |-> ttl]

Capable ==
  [agent |-> a1, wellFormed |-> TRUE, validFrom |-> 0, validUntil |-> 9,
   capabilities |-> {chat}, credentials |-> <<Credential(1, 2)>>,
   endpoints |-> <<Endpoint("static", 2), Endpoint("rotating", 1)>>]

Plain ==
  [agent |-> a1, wellFormed |-> TRUE, validFrom |-> 0, validUntil |-> 2,
   capabilities |-> {chat}, credentials |-> << >>, endpoints |-> <<Endpoint("static", 2)>>]

MCDocuments == {Capable, Plain}

MCBodies ==
  {[doc |-> Capable, ttl |-> 2, key |-> k1], [doc |-> Plain, ttl |-> 1, key |-> k1]}

MCOneDocument == {[Capable EXCEPT !.credentials = <<Credential(1, 9), Credential(2, 9)>>]}
MCOneBody == {[doc |-> d, ttl |-> 1, key |-> k1] : d \in MCOneDocument}

\* Nothing that happens after the last request has ended is of interest.
RequestsLeft == requests < MaxRequests \/ \E r \in Resolvers : InFlight(r)
=============================================================================
