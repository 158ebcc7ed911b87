---------------------------- MODULE MCReportJobs ----------------------------
(* Instances of ReportJobs: uploads of one period, or an upload and the     *)
(* synthetic portfolio, each numbered in a period of its own.               *)
EXTENDS ReportJobs, TLC

SamePeriod == [s \in Sources |-> IF s = Fixture THEN 0 ELSE 1]

WorkerSymmetry == Permutations(Workers)
=============================================================================
