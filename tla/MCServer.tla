------------------------------ MODULE MCServer ------------------------------
(* Instances of Server for TLC. *)
EXTENDS Server, TLC

CONSTANTS c1, c2, c3

ThreeConns == {c1, c2, c3}
ConnSymmetry == Permutations(Conns)

=============================================================================
