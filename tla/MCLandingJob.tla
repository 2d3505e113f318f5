---------------------------- MODULE MCLandingJob ----------------------------
(***************************************************************************)
(* Model values for LandingJob.                                            *)
(***************************************************************************)
EXTENDS LandingJob, TLC

Symmetry == Permutations(Partitions) \cup Permutations(Jobs)
==============================================================================
