------------------------- MODULE MCReportLifecycle --------------------------
(* Small instances of ReportLifecycle.                                      *)
EXTENDS ReportLifecycle, TLC

ReportSymmetry == Permutations(Users) \cup Permutations(Jobs)
=============================================================================
