---------------------------- MODULE MCRemoteNode ----------------------------
(***************************************************************************)
(* Instances of RemoteNode for TLC: one node, and up to three worker       *)
(* processes, two of them on one state directory.                          *)
(***************************************************************************)
EXTENDS RemoteNode, TLC

CONSTANTS n1, r1, r2, p1, p2, p3

SameNode == [r \in Roots |-> n1]
SharedRoot == [p \in Procs |-> r1]
TwoRoots == [p \in Procs |-> IF p = p3 THEN r2 ELSE r1]

(* Sessions are only compared, and the processes of a directory are alike. *)
SessionSymmetry == Permutations(Sessions) \cup Permutations({p1, p2})
=============================================================================
