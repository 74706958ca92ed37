---------------------------- MODULE MCThreaded ----------------------------
(* Model-checking instance of Threaded. *)
EXTENDS Threaded
=============================================================================
