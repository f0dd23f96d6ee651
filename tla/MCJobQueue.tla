----------------------------- MODULE MCJobQueue -----------------------------
(* A small instance of JobQueue and of its refinement mapping.  Runners are *)
(* interchangeable, and so are jobs: only created_at tells them apart.      *)
EXTENDS JobQueueRefinement, TLC

JobQueueSymmetry == Permutations(Runners) \cup Permutations(Jobs)
=============================================================================
