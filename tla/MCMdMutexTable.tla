-------------------------- MODULE MCMdMutexTable --------------------------
(* Small instances of MdMutexTable for TLC. *)
EXTENDS MdMutexTable, TLC

Symmetry == Permutations(Clients) \union Permutations(Files)
=============================================================================
