--------------------------- MODULE MCTimerManager ---------------------------
(* Model-checking instance of TimerManager: a periodic and a one-shot timer. *)
EXTENDS TimerManager
=============================================================================
