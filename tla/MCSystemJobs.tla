---------------------------- MODULE MCSystemJobs ----------------------------
(* Instances of SystemJobs for TLC: j1 is PERIODIC, j2 is PSEUDO_PERIODIC. *)
EXTENDS SystemJobs

CONSTANTS j1, j2
=============================================================================
