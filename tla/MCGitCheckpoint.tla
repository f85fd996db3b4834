--------------------------- MODULE MCGitCheckpoint ---------------------------
(***************************************************************************)
(* Instances of GitCheckpoint for TLC.                                     *)
(***************************************************************************)
EXTENDS GitCheckpoint, TLC

Symmetry == Permutations(Paths) \cup Permutations(Contents)
               \cup Permutations(Requests) \cup Permutations(Committers)
=============================================================================
