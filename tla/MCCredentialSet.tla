-------------------------- MODULE MCCredentialSet --------------------------
(* CredentialSet on all pairs of short lists.                                 *)
EXTENDS CredentialSet
============================================================================
