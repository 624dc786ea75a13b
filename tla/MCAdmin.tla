------------------------------ MODULE MCAdmin ------------------------------
(* Admin on small instances.                                                  *)
EXTENDS Admin, TLC

Symmetry == Permutations(Admins) \cup Permutations(Keys)
============================================================================
