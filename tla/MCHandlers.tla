----------------------------- MODULE MCHandlers -----------------------------
(* Model-checking instance of Handlers. *)
EXTENDS Handlers
=============================================================================
