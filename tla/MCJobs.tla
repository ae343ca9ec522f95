------------------------------- MODULE MCJobs -------------------------------
(* Instances of Jobs for model checking.                                   *)
EXTENDS Jobs, TLC

ExecutorSymmetry == Permutations(Executors)
JobSymmetry == Permutations(JobIds)
=============================================================================
