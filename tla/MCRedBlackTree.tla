--------------------------- MODULE MCRedBlackTree ---------------------------
(***************************************************************************)
(* Instances of RedBlackTree for TLC: nodes are interchangeable.           *)
(***************************************************************************)
EXTENDS RedBlackTree, TLC

NodeSymmetry == Permutations(Nodes)
=============================================================================
