----------------------------- MODULE MCScheduler -----------------------------
(* Scheduler for a viewer who starts paused, pauses and resumes, and plays  *)
(* at the natural or at twice the speed.                                    *)
EXTENDS Scheduler

SteadyOrDouble == {Default, 2}
=============================================================================
