--------------------------- MODULE MCJobLifecycle ---------------------------
(* Model-checking instances of JobLifecycle.                               *)
EXTENDS JobLifecycle, TLC

Symmetry == Permutations(Workers) \cup Permutations(Jobs)
=============================================================================
