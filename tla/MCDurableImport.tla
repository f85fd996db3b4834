--------------------------- MODULE MCDurableImport ---------------------------
(***************************************************************************)
(* Instances of DurableImport for TLC: two files, and one or two processes *)
(* that prepare the same state.                                            *)
(***************************************************************************)
EXTENDS DurableImport, TLC

Symmetry == Permutations(Paths) \cup Permutations(Temps) \cup Permutations(Procs)
=============================================================================
