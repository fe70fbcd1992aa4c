--------------------------- MODULE MCFileIndexing ---------------------------
(* FileIndexing on small sets of uploads, deletions and workers.           *)
EXTENDS FileIndexing, TLC

Interchangeable ==
    Permutations(Files) \cup Permutations(Deletes) \cup Permutations(Workers)
=============================================================================
