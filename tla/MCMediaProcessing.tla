--------------------------- MODULE MCMediaProcessing ---------------------------
(* Small instances of MediaProcessing for TLC.                                 *)
EXTENDS MediaProcessing, TLC

Symmetry ==
    Permutations(Asset) \cup Permutations(Content) \cup Permutations(Object)
        \cup Permutations(Run) \cup Permutations(Request)
================================================================================
