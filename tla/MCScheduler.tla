---------------------------- MODULE MCScheduler -----------------------------
(* Scheduler with two events, delays 0 and 1, the ids 1 and 2 (so that the     *)
(* counter wraps), on the dispatcher's and one more thread.                    *)
EXTENDS Scheduler

CONSTANTS e1, e2

MCEvent == {e1, e2}
MCDelay == {0, 1}
MCThread == {"dispatcher", "main"}
=============================================================================
