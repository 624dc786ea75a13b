---------------------------- MODULE MCLeanIndex ----------------------------
(* LeanIndex on small instances.                                              *)
EXTENDS LeanIndex, TLC

Symmetry == Permutations(Writers) \cup Permutations(Bodies)
============================================================================
