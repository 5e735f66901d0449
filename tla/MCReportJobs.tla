---------------------------- MODULE MCReportJobs ----------------------------
(* ReportJobs with interchangeable jobs and pool threads.                  *)
EXTENDS ReportJobs, TLC

Symmetry == Permutations(Jobs) \cup Permutations(Workers)
=============================================================================
