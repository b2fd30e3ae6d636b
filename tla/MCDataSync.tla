----------------------------- MODULE MCDataSync -----------------------------
(***************************************************************************)
(* Instances of DataSync for TLC.  The server's file counts its bytes; the *)
(* client's has the right byte or another one at every place, and may be   *)
(* shorter or longer.                                                      *)
(***************************************************************************)
EXTENDS DataSync

CONSTANT MaxLen  \* bound: the bytes in a file

MCServerFiles == {[k \in 1 .. n |-> k] : n \in 0 .. MaxLen}

MCClientFiles == UNION {{f \in [1 .. n -> 1 .. MaxLen + 1] :
                            \A k \in 1 .. n : f[k] \in {k, MaxLen + 1}} : n \in 0 .. MaxLen}
=============================================================================
