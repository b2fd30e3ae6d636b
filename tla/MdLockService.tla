--------------------------- MODULE MdLockService ---------------------------
(***************************************************************************)
(* What the metadata mutex promises its clients: every file name has one   *)
(* lock with at most one holder; a client is told that it holds a lock     *)
(* only while it does; and a lock is taken away from nobody, it is given   *)
(* back by a holder that has asked to.                                     *)
(***************************************************************************)
CONSTANTS Clients, Names, None

VARIABLES
    holder,  \* the client whose lock of each name is in force, or None
    told     \* the pairs <<c, f>> where c has been told it holds f

Init ==
    /\ holder = [f \in Names |-> None]
    /\ told = {}

Acquire(c, f) ==
    /\ holder[f] = None
    /\ holder' = [holder EXCEPT ![f] = c]
    /\ UNCHANGED told

Tell(c, f) ==
    /\ holder[f] = c
    /\ told' = told \union {<<c, f>>}
    /\ UNCHANGED holder

AskRelease(c, f) ==
    /\ <<c, f>> \in told
    /\ told' = told \ {<<c, f>>}
    /\ UNCHANGED holder

Release(c, f) ==
    /\ holder[f] = c /\ <<c, f>> \notin told
    /\ holder' = [holder EXCEPT ![f] = None]
    /\ UNCHANGED told

Next ==
    \E c \in Clients, f \in Names :
        Acquire(c, f) \/ Tell(c, f) \/ AskRelease(c, f) \/ Release(c, f)

Spec == Init /\ [][Next]_<<holder, told>>
=============================================================================
