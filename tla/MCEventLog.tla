----------------------------- MODULE MCEventLog -----------------------------
(* Model-checking instance of EventLog.                                     *)
EXTENDS EventLog
=============================================================================
