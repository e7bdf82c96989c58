------------------------------ MODULE MCAIJobs ------------------------------
(* Instances of AIJobs for TLC.                                             *)
EXTENDS AIJobs, TLC

JobAndWorkerSymmetry == Permutations(Jobs) \cup Permutations(Workers)
=============================================================================
