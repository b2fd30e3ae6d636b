---------------------------- MODULE MCWriteBack ----------------------------
(* Small instances of WriteBack for TLC. *)
EXTENDS WriteBack, TLC

CONSTANTS f1, f2, junk

(* The first file's name begins the second's; both begin a name of no file. *)
Begins == {<<f1, f2>>, <<f1, junk>>, <<f2, junk>>}
Symmetry == Permutations(Nodes)
=============================================================================
