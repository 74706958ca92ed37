----------------------------- MODULE MCSession -----------------------------
(* Model-checking instance of Session: threads are interchangeable.         *)
EXTENDS SessionRefinement, TLC

Symmetry == Permutations(Threads)
=============================================================================
