--------------------------- MODULE MCObservability ---------------------------
(* Observability with one route of each kind.                                  *)
EXTENDS Observability, TLC

MCRoutes ==
  {RouteRegister, RouteResolve, RouteAdminRevocation, RouteAdminRevokedID, RouteMetrics,
   RouteUnknown}

Symmetry == Permutations(Clients)
==============================================================================
