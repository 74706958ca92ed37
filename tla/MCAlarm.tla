------------------------------ MODULE MCAlarm ------------------------------
(* Model-checking instance of Alarm.  The configurations choose the sets of  *)
(* resources, sensors, event states and severities.                          *)
EXTENDS Alarm
=============================================================================
