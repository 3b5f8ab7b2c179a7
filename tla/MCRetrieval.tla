---------------------------- MODULE MCRetrieval -----------------------------
(* Model-checking instances of Retrieval.                                  *)
EXTENDS Retrieval

\* The model answers with indices one below and one above those of a batch.
MCIndices == -1 .. 2

\* Points are only ever compared for equality.
Symmetry == Permutations(Points)
=============================================================================
