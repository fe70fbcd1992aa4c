---------------------------- MODULE MCRagMemory -----------------------------
(* RagMemory for a few turns of the session.                               *)
EXTENDS RagMemory, TLC

Interchangeable == Permutations(Turns)
=============================================================================
