--------------------------- MODULE MCRemotePairing ---------------------------
(***************************************************************************)
(* Instances of RemotePairing for TLC: one or two machines paired under    *)
(* one node name.                                                          *)
(***************************************************************************)
EXTENDS RemotePairing, TLC

CONSTANT n1

SameName == [w \in Workers |-> n1]

(* Tokens and codes are only compared, and the machines are alike.         *)
Symmetry == Permutations(Tokens) \cup Permutations(Codes) \cup Permutations(Workers)
=============================================================================
