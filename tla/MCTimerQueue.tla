---------------------------- MODULE MCTimerQueue ----------------------------
(* Small instances of TimerQueue.                                           *)
EXTENDS TimerQueue
=============================================================================
