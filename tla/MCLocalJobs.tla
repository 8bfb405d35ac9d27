---------------------------- MODULE MCLocalJobs ----------------------------
(* A small instance of LocalJobs: two jobs that compete for one profile, and   *)
(* captures and files of two accounts.                                         *)
EXTENDS LocalJobs
=============================================================================
