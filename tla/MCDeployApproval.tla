-------------------------- MODULE MCDeployApproval --------------------------
(***************************************************************************)
(* Small instances of DeployApproval for TLC.                              *)
(***************************************************************************)
EXTENDS DeployApproval, TLC

\* Keys that aren't legacy, builds, and calls of one sort are interchangeable.
Symmetry == Permutations(Build) \cup Permutations(Key \ LegacyKey) \cup Permutations(Tracked)
=============================================================================
