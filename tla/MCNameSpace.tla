---------------------------- MODULE MCNameSpace ----------------------------
(***************************************************************************)
(* Instances of NameSpace for TLC: short paths, absolute and relative, over *)
(* the names of the start, two users and "..".                             *)
(***************************************************************************)
EXTENDS NameSpace

CONSTANTS ann, bob

MCUsers == {ann, bob}
MCMatches == {<<n, n>> : n \in {SU, ann, bob}} \union {<<ann, bob>>}

Path(abs, comps, slash) == [abs |-> abs, comps |-> comps, slash |-> slash]

MCPaths ==
    {Path(TRUE, c, FALSE) : c \in {<<>>, <<ann>>, <<bob>>, <<SU>>, <<Shared, Upper>>, <<ann, Shared>>}}
    \union {Path(FALSE, c, FALSE) : c \in {<<>>, <<Shared>>, <<Upper>>}}
    \union {Path(TRUE, <<ann>>, TRUE)}

NodeSymmetry == Permutations(Nodes)
=============================================================================
