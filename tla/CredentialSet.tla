--------------------------- MODULE CredentialSet ---------------------------
(* CredentialSetHash128 (internal/agentfacts/credential_set.go): what an      *)
(* agent record commits to of the credentials in its facts document.  The     *)
(* capabilities of each credential are sorted, the credentials are ordered by *)
(* their encoding, and the list is hashed.  An encoding is represented by the *)
(* sequence <<the other fields>> \o capabilities, compared as bytes are; a    *)
(* digest by what it covers.                                                  *)
EXTENDS Integers, Sequences, Functions

CONSTANTS
  Fields,        \* numbers for what is signed and issued besides capabilities
  Capabilities,  \* numbers for capability strings, in their order
  MaxLength      \* bound: credentials in a set, and capabilities of one

ASSUME NumbersAssumption ==
  Fields \subseteq Nat /\ Capabilities \subseteq Nat /\ MaxLength \in Nat

Lists(S) == UNION {[1..n -> S] : n \in 0..MaxLength}

Credentials == [fields : Fields, capabilities : Lists(Capabilities)]

VARIABLES
  registered,  \* the credentials of the document an agent registers
  resolved,    \* the credentials of the document the resolver reads
  commitment,  \* the hash in the agent's record
  stage        \* "start", "registered", then "accepted" or "refused"

commitmentVars == <<registered, resolved, commitment, stage>>

-----------------------------------------------------------------------------
\* The elements of s, each as often, in the order of t.
Rearranged(s, t) ==
  \E p \in Bijection(DOMAIN s, DOMAIN t) : \A i \in DOMAIN s : s[i] = t[p[i]]

\* What a sort promises: nothing is before what it comes after.  An order is a set of
\* pairs, the lesser element first.
InOrder(s, order) == \A i, j \in DOMAIN s : i < j => <<s[j], s[i]>> \notin order

Sorted(s, order) ==
  CHOOSE t \in [DOMAIN s -> Range(s)] : Rearranged(s, t) /\ InOrder(t, order)

\* sort.Strings
CapabilityOrder == {pair \in Capabilities \X Capabilities : pair[1] < pair[2]}

SortedCapabilities(credential) == Sorted(credential.capabilities, CapabilityOrder)

Encode(credential) == <<credential.fields>> \o SortedCapabilities(credential)

\* bytes.Compare(e, f) < 0
Before(e, f) ==
  \E n \in 0..Len(e) :
    /\ n < Len(f)
    /\ \A i \in 1..n : e[i] = f[i]
    /\ n = Len(e) \/ e[n + 1] < f[n + 1]

Encodings == {Encode(c) : c \in Credentials}
EncodingOrder == {pair \in Encodings \X Encodings : Before(pair[1], pair[2])}

\* Mutation: the credentials are hashed in the order of the document.
HashInDocumentOrder(credentials) == [i \in DOMAIN credentials |-> Encode(credentials[i])]

CredentialSetHash128(credentials) ==
  Sorted([i \in DOMAIN credentials |-> Encode(credentials[i])], EncodingOrder)

-----------------------------------------------------------------------------
CommitmentInit ==
  /\ registered \in Lists(Credentials)
  /\ resolved \in Lists(Credentials)
  /\ commitment = << >>
  /\ stage = "start"

Register ==
  /\ stage = "start"
  /\ commitment' = CredentialSetHash128(registered)
  /\ stage' = "registered"
  /\ UNCHANGED <<registered, resolved>>

Resolve ==
  /\ stage = "registered"
  /\ stage' = IF CredentialSetHash128(resolved) = commitment THEN "accepted" ELSE "refused"
  /\ UNCHANGED <<registered, resolved, commitment>>

CommitmentNext == Register \/ Resolve

CommitmentSpec == CommitmentInit /\ [][CommitmentNext]_commitmentVars

-----------------------------------------------------------------------------
(* Properties *)

\* The same credential, its capabilities in any order.
Alike(c, d) == c.fields = d.fields /\ Rearranged(c.capabilities, d.capabilities)

\* The same credentials, each as often, in any order.
SameSet(s, t) ==
  \E p \in Bijection(DOMAIN s, DOMAIN t) : \A i \in DOMAIN s : Alike(s[i], t[p[i]])

\* The resolver's comparison succeeds for the credentials that were registered, in
\* whatever order a document lists them and their capabilities, and for no others:
\* none added, dropped, doubled or given another capability.
CommitsToTheSet ==
  /\ stage = "accepted" => SameSet(registered, resolved)
  /\ stage = "refused" => ~SameSet(registered, resolved)
=============================================================================
