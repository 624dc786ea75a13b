----------------------------- MODULE Publication -----------------------------
(* What registrations do to the stores that resolvers read, whichever servers *)
(* run them and however they end: facts are stored before the index names     *)
(* them, and a file that exists may be rewritten in place at any time.        *)
EXTENDS FactsStore, SequencedRegister

CONSTANT DocumentOf   \* body -> the document a record with that body names

publicationVars == <<factsVars, registerVars>>

PublicationInit == FactsInit /\ RegisterInit

TruncateFile(d) == Truncate(d) /\ UNCHANGED registerVars

WriteFile(d) == HasFile(d) /\ Write(d) /\ UNCHANGED registerVars

PutPointer(d) == HasFile(d) /\ PutFactsPointer(d) /\ UNCHANGED registerVars

\* A record takes its agent's place in the index.
Publish(r) == HasPointer(DocumentOf[r.body]) /\ Replace(r) /\ UNCHANGED factsVars

\* The last first registration of an agent ends without a commit.
EndFirst(a) == Settle(a) /\ UNCHANGED factsVars

PublicationNext ==
  \/ \E d \in Documents : TruncateFile(d) \/ WriteFile(d) \/ PutPointer(d)
  \/ \E r \in Records : Publish(r)
  \/ \E a \in Agents : EndFirst(a)

PublicationSpec == PublicationInit /\ [][PublicationNext]_publicationVars
==============================================================================
