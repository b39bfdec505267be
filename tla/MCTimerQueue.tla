---------------------------- MODULE MCTimerQueue ----------------------------
(* Small instances of the timer queue for TLC. *)
EXTENDS TimerQueue

\* -1 stands for every delay that counts as 0.
MCDelays == {-1, 1, 2}
MCShortDelays == {-1, 1}
=============================================================================
