--------------------------- MODULE MCMdMutexHash ---------------------------
(* Small instances of MdMutexHash for TLC: every name in one chain. *)
EXTENDS MdMutexHash, TLC

OneChain == [f \in Names |-> CHOOSE h \in Hashes : TRUE]
Symmetry == Permutations(Clients) \union Permutations(Files) \union Permutations(Entries)
=============================================================================
