---------------------------- MODULE MCTimerTasks ----------------------------
(* TimerTasks for TLC.                                                     *)
EXTENDS TimerTasks
=============================================================================
