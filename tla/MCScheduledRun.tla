-------------------------- MODULE MCScheduledRun --------------------------
(* A small instance of ScheduledRun for TLC: a day with a catalog refresh   *)
(* and the morning after it.                                                *)
EXTENDS ScheduledRun

CONSTANTS task, hand   \* the scheduled task and one manual run
=============================================================================
