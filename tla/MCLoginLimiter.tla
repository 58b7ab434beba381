--------------------------- MODULE MCLoginLimiter ---------------------------
(***************************************************************************)
(* Instances of LoginLimiter for TLC.                                      *)
(***************************************************************************)
EXTENDS LoginLimiter, TLC

CONSTANTS x1, x2, n1, n2, i1

Symmetry == Permutations({x1, x2}) \cup Permutations({n1, n2})
=============================================================================
