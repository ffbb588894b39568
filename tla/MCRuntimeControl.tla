-------------------------- MODULE MCRuntimeControl --------------------------
(* RuntimeControl with interchangeable requests, for TLC.                   *)
EXTENDS RuntimeControl, TLC

Symmetry == Permutations(Users)
=============================================================================
