--------------------------- MODULE RevocationStore ---------------------------
(* The revocation table (internal/revocation/postgres.go): one row per        *)
(* credential, written by a single upsert and read by a single select.        *)
CONSTANT Keys   \* (issuer, credential id) pairs

VARIABLE revocations   \* key -> the status of its row, or "none" without one

Statuses == {"active", "revoked"}

RevocationsTypeOK == revocations \in [Keys -> Statuses \cup {"none"}]

RevocationsInit == revocations = [k \in Keys |-> "none"]

SetStatus(k, status) == revocations' = [revocations EXCEPT ![k] = status]

\* A credential without a row counts as active.
IsRevoked(k) == revocations[k] = "revoked"
==============================================================================
