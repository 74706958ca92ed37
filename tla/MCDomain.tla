----------------------------- MODULE MCDomain -----------------------------
(* Model-checking instance of Domain: all resources belong to one handler.   *)
EXTENDS Domain

CONSTANT h1

MCOwner == [r \in Resources |-> h1]
=============================================================================
