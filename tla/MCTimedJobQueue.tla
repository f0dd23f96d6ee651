-------------------------- MODULE MCTimedJobQueue ---------------------------
(* Small instances of TimedJobQueue.                                        *)
EXTENDS TimedJobQueue, TLC

TimedSymmetry == Permutations(Runners) \cup Permutations(Jobs)
=============================================================================
