------------------------------ MODULE MCServer ------------------------------
(* The server for TLC: sessions and workers are interchangeable.           *)
EXTENDS Server, TLC

Symmetry == Permutations(Sessions) \cup Permutations(Workers)
=============================================================================
