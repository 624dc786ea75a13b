----------------------------- MODULE AgentFacts -----------------------------
(* What the resolver decides from a facts document and the time its request   *)
(* began: agentfacts.Validate, the checks of trust.verifyCredential that read *)
(* no store, and the choice of an endpoint.  Documents, credentials and       *)
(* endpoints are records whose fields are those the checks look at; checks    *)
(* that involve nothing but the document (its schema version, non-blank ids,  *)
(* https urls, a signature under the issuer's key) are one field each.        *)
EXTENDS Integers, Sequences

CONSTANTS
  Issuers,      \* the issuer allowlist of the trust verifier
  NoCapability  \* a request that requires no capability

EndpointTypes == {"adaptiveResolver", "rotating", "static"}

\* Lower is preferred.
Preference == [adaptiveResolver |-> 1, rotating |-> 2, static |-> 3]

\* The half-open validity interval of a document or credential.
InForce(x, now) == x.validFrom <= now /\ now < x.validUntil

Validate(doc, agent, capability, now) ==
  /\ doc.wellFormed
  /\ doc.agent = agent
  /\ InForce(doc, now)
  /\ capability # NoCapability => capability \in doc.capabilities
  /\ doc.endpoints # << >>
  /\ \A i \in DOMAIN doc.endpoints :
       doc.endpoints[i].type \in EndpointTypes /\ doc.endpoints[i].ttl > 0

\* Everything verifyCredential checks before it asks for the revocation status.
Grants(credential, agent, capability, now) ==
  /\ credential.wellFormed
  /\ credential.issuer \in Issuers
  /\ credential.subject = agent
  /\ InForce(credential, now)
  /\ capability \in credential.capabilities
  /\ credential.signed

Key(credential) == <<credential.issuer, credential.id>>

\* The first endpoint of the most preferred type the document has.
SelectEndpoint(doc) ==
  LET Rank(i) == Preference[doc.endpoints[i].type]
  IN doc.endpoints[CHOOSE i \in DOMAIN doc.endpoints :
       \A j \in DOMAIN doc.endpoints :
         Rank(i) < Rank(j) \/ (Rank(i) = Rank(j) /\ i <= j)]
=============================================================================
