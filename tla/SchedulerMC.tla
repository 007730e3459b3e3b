---------------------------- MODULE SchedulerMC ----------------------------
(***************************************************************************)
(* Small instances of Scheduler for TLC.  Delays and counts include values *)
(* the code refuses.                                                       *)
(***************************************************************************)
EXTENDS Scheduler, TLC

NoDelays == {-1, 0}
AllDelays == {-1, 0, 1}

AllCounts == {-2, -1, 0, 1}

MCMinTime == -1

Symmetry == Permutations(Timer)
=============================================================================
