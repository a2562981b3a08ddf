----------------------------- MODULE MCRetrieval -----------------------------
EXTENDS Retrieval

Symmetry == Permutations(Callers) \cup Permutations(Chunks) \cup Permutations(Contents)
==============================================================================
