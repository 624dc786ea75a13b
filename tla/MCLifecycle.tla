----------------------------- MODULE MCLifecycle -----------------------------
(* Lifecycle with settings that are accepted and settings refused for one     *)
(* reason each.                                                               *)
EXTENDS Lifecycle, TLC

CONSTANTS k1, mixed, p1, p2, f1, f2

\* mixed has the seed of one key and the public key of another.
MCPublicHalf == k1 :> p1 @@ mixed :> p2 @@ f1 :> f1 @@ f2 :> f2

Local ==
  [mode |-> "", privateKey |-> "", publicKey |-> "", dsn |-> "set", token |-> "",
   autoMigrate |-> "", issuersJSON |-> "", issuersFile |-> ""]

Production ==
  [Local EXCEPT !.mode = "production", !.privateKey = k1, !.token = "set"]

MCSettings ==
  {Local,
   [Local EXCEPT !.mode = "staging"],
   [Local EXCEPT !.dsn = ""],
   [Local EXCEPT !.privateKey = "malformed"],
   Production,
   [Production EXCEPT !.autoMigrate = "true", !.publicKey = p1, !.issuersJSON = "valid"],
   [Production EXCEPT !.privateKey = ""],
   [Production EXCEPT !.publicKey = p2],
   [Production EXCEPT !.privateKey = mixed, !.publicKey = p2],
   [Local EXCEPT !.publicKey = p1],
   [Production EXCEPT !.token = ""],
   [Production EXCEPT !.issuersFile = "malformed"],
   [Production EXCEPT !.issuersJSON = "valid", !.issuersFile = "valid"]}
==============================================================================
