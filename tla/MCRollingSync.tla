--------------------------- MODULE MCRollingSync ---------------------------
(***************************************************************************)
(* Instances of RollingSync for TLC: every file of dst up to a length, and *)
(* for src one file of each length that makes a difference.                *)
(***************************************************************************)
EXTENDS RollingSync

CONSTANTS
    Bytes,   \* bound: the bytes in the file of dst
    MaxLen,  \* bound: the length of the file of dst
    SrcLen   \* bound: the length of the file of src

MCDstFiles == UNION {[1 .. n -> Bytes] : n \in 0 .. MaxLen}

MCSrcFiles == {Missing, Unreadable} \union {[k \in 1 .. n |-> k] : n \in 0 .. SrcLen}

MCRepFiles == {Missing, <<9>>, [k \in 1 .. SrcLen |-> 9]}
=============================================================================
