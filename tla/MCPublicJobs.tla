---------------------------- MODULE MCPublicJobs ----------------------------
(* A small instance of PublicJobs.  Job identifiers are interchangeable. *)
EXTENDS PublicJobs, TLC

SameJobs == Permutations(JobIds)
=============================================================================
