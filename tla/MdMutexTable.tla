---------------------------- MODULE MdMutexTable ----------------------------
(***************************************************************************)
(* The first metadata mutex server, md_mutex_server_process.c: a fixed     *)
(* table of MUTEX_NUM mutexes, each with the name of the file it stands    *)
(* for and the number of threads that use it, under one glob_mutex.  Each  *)
(* critical section of glob_mutex is one action here; the pthread mutex of *)
(* an entry is the third kind of step.                                     *)
(*                                                                         *)
(* An entry's pthread mutex is a default one: glibc lets any thread unlock *)
(* it and reports no error, and the server relies on that, since the       *)
(* thread that locks has exited by the time another one unlocks.           *)
(***************************************************************************)
EXTENDS MdMutexClient

CONSTANT MUTEX_NUM   \* entries of mutex_table

Slots == 0..(MUTEX_NUM - 1)

ASSUME TableAssumption ==
    /\ MUTEX_NUM \in Nat \ {0}
    /\ None \notin Slots

(* The table has an entry for every name, or no client is a modify_md: the
   condition under which no client unlocks a file whose lock it was refused. *)
NoOverflow == Modifiers = {} \/ MUTEX_NUM > Cardinality(Files)

VARIABLES
    count,      \* how many threads are using each entry
    file_name,  \* the name of each entry; stale when count is 0
    owner,      \* the client whose thread locked the pthread mutex, or None
    slot        \* my_mutex of the thread of each client

tableVars == <<count, file_name, owner, slot>>
vars == <<clientVars, tableVars>>

TypeOK ==
    /\ ClientTypeOK
    /\ count \in [Slots -> Int]
    /\ file_name \in [Slots -> Names]
    /\ owner \in [Slots -> Clients \union {None}]
    /\ slot \in [Clients -> Slots \union {None}]

Init ==
    /\ ClientInit
    /\ count = [s \in Slots |-> 0]
    /\ file_name = [s \in Slots |-> EmptyName]
    /\ owner = [s \in Slots |-> None]
    /\ slot = [c \in Clients |-> None]
-----------------------------------------------------------------------------
Goto(c, step) == pc' = [pc EXCEPT ![c] = step]

(* The thread has only its answer left to write. *)
Done(c) == Goto(c, "reply") /\ slot' = [slot EXCEPT ![c] = None]

(* Which step follows get_z_mutex() in thread_func()'s switch. *)
OpStep(o) ==
    CASE o = "LOCK" -> "lock" [] o = "TRY" -> "trylock" [] o = "UNLOCK" -> "unlock"

(* The loop of get_z_mutex(): entry s is the one the request names, and the
   scan reaches an entry when no earlier one matched. *)
MatchesShared(s, f) == count[s] > 1 /\ file_name[s] = f
Matches(s, f) == count[s] > 0 /\ file_name[s] = f

Reached(s, f) == \A t \in Slots : t < s => ~Matches(t, f)

(* A negative count is reached: exit(EXIT_FAILURE). *)
Aborts(c) == \E s \in Slots : count[s] < 0 /\ Reached(s, req[c].file)

Exit ==
    /\ up' = FALSE
    /\ UNCHANGED <<backlog, reading, pc, req, ok, sess, alive, tableVars>>

(* A match: lock and try_lock count one more thread, unlock does not. *)
CountLockOnly(c, s) ==
    count' = IF req[c].op = "LOCK" THEN [count EXCEPT ![s] = @ + 1] ELSE count
CountUse(c, s) ==
    count' = IF req[c].op = "UNLOCK" THEN count ELSE [count EXCEPT ![s] = @ + 1]

GetMatch(c) ==
    /\ \E s \in Slots :
          /\ Matches(s, req[c].file) /\ Reached(s, req[c].file)
          /\ CountUse(c, s)
          /\ slot' = [slot EXCEPT ![c] = s]
    /\ Goto(c, OpStep(req[c].op))
    /\ UNCHANGED <<up, backlog, reading, req, ok, sess, alive, file_name, owner>>

NoMatch(c) == \A s \in Slots : ~Matches(s, req[c].file)

(* No match: lock and try_lock take the first free entry. *)
GetAlloc(c) ==
    /\ NoMatch(c) /\ req[c].op # "UNLOCK"
    /\ \E s \in Slots :
          /\ count[s] = 0
          /\ \A t \in Slots : t < s => count[t] # 0
          /\ count' = [count EXCEPT ![s] = 1]
          /\ file_name' = [file_name EXCEPT ![s] = req[c].file]
          /\ slot' = [slot EXCEPT ![c] = s]
    /\ Goto(c, OpStep(req[c].op))
    /\ UNCHANGED <<up, backlog, reading, req, ok, sess, alive, owner>>

(* No entry: the table is full, or unlock found no match (ALLOC_MUTEX_FAIL). *)
GetPastEnd(c) ==
    /\ NoMatch(c)
    /\ req[c].op = "UNLOCK" \/ \A s \in Slots : count[s] # 0
    /\ slot' = [slot EXCEPT ![c] = MUTEX_NUM]
    /\ Goto(c, OpStep(req[c].op))
    /\ UNCHANGED <<up, backlog, reading, req, ok, sess, alive, count, file_name, owner>>

GetFail(c) ==
    /\ NoMatch(c)
    /\ req[c].op = "UNLOCK" \/ \A s \in Slots : count[s] # 0
    /\ ok' = [ok EXCEPT ![c] = FALSE]
    /\ Goto(c, "reply")
    /\ UNCHANGED <<up, backlog, reading, req, sess, alive, tableVars>>

Get(c) ==
    /\ up /\ pc[c] = "get"
    /\ IF Aborts(c) THEN Exit ELSE GetMatch(c) \/ GetAlloc(c) \/ GetFail(c)
-----------------------------------------------------------------------------
(* The pthread mutex of the entry. *)
TakeAnyway(c) ==
    /\ owner' = [owner EXCEPT ![slot[c]] = c]
    /\ Done(c)
    /\ UNCHANGED ok

TakeMutex(c) ==
    /\ owner[slot[c]] = None
    /\ owner' = [owner EXCEPT ![slot[c]] = c]
    /\ Done(c)
    /\ UNCHANGED ok

(* MD_LOCK: pthread_mutex_lock() waits while the mutex is taken. *)
Lock(c) ==
    /\ up /\ pc[c] = "lock" /\ TakeMutex(c)
    /\ UNCHANGED <<up, backlog, reading, req, sess, alive, count, file_name>>

(* MD_TRY_LOCK: pthread_mutex_trylock() fails instead, and the count goes back. *)
TryLock(c) ==
    /\ up /\ pc[c] = "trylock"
    /\ \/ TakeMutex(c)
       \/ /\ owner[slot[c]] # None
          /\ ok' = [ok EXCEPT ![c] = FALSE]
          /\ Goto(c, "put")
          /\ UNCHANGED <<owner, slot>>
    /\ UNCHANGED <<up, backlog, reading, req, sess, alive, count, file_name>>

(* MD_UNLOCK: pthread_mutex_unlock(), then put_z_mutex(). *)
UnlockForgets(c) ==
    /\ up /\ pc[c] = "unlock"
    /\ Goto(c, "put")
    /\ UNCHANGED <<up, backlog, reading, req, ok, sess, alive, count, file_name, owner, slot>>

Unlock(c) ==
    /\ up /\ pc[c] = "unlock"
    /\ owner' = [owner EXCEPT ![slot[c]] = None]
    /\ Goto(c, "put")
    /\ UNCHANGED <<up, backlog, reading, req, ok, sess, alive, count, file_name, slot>>

(* put_z_mutex(): one thread less uses the entry. *)
Put(c) ==
    /\ up /\ pc[c] = "put"
    /\ count' = [count EXCEPT ![slot[c]] = @ - 1]
    /\ Done(c)
    /\ UNCHANGED <<up, backlog, reading, req, ok, sess, alive, file_name, owner>>

Thread(c) ==
    \/ Get(c) \/ Lock(c) \/ TryLock(c) \/ Unlock(c) \/ Put(c)

Next ==
    \/ Accept /\ UNCHANGED tableVars
    \/ \E c \in Clients :
          \/ ClientStep(c) /\ UNCHANGED tableVars
          \/ Thread(c)

Spec == Init /\ [][Next]_vars

(* A server thread that can run does. *)
FairSpec == Spec /\ ClientFairness /\ \A c \in Clients : WF_vars(Thread(c))
-----------------------------------------------------------------------------
(* No two clients are told at the same time that they hold the same file:
   what the lock and try_lock answers of thread_func() are for. *)
MutualExclusion ==
    \A c, d \in Clients, f \in Names :
        Holding(c, f) /\ Holding(d, f) => c = d

(* The comment on z_mutex.count, "how many threads are using this mutex":
   the threads between get_z_mutex() and their lock, the failed try_locks and
   the unlocks that have not put it back, and the lock in force.  A count too
   low frees an entry in use; one too high never frees it. *)
Users(s) == {c \in Clients : pc[c] \in {"lock", "trylock", "put"} /\ slot[c] = s}

CountFits(s) ==
    count[s] = Cardinality(Users(s)) + (IF owner[s] = None THEN 0 ELSE 1)

CountIsUse == \A s \in Slots : CountFits(s)

(* At most one entry in use per file name: two would be two locks. *)
OneEntryPerFile ==
    \A s, t \in Slots :
        count[s] > 0 /\ count[t] > 0 /\ file_name[s] = file_name[t] => s = t

(* The server never takes the exit(EXIT_FAILURE) of get_z_mutex(). *)
NeverExits == up

(* Every request that does not wait for a lock is answered, however many
   lock requests are blocked, unless a client process dies. *)
SomeoneDied == \E c \in Clients : ~alive[c]

NonBlockingAnswered ==
    \A c \in Clients :
        (pc[c] # "idle" /\ req[c].op # "LOCK") ~> (pc[c] = "idle" \/ SomeoneDied)

(* A lock in force is given back once somebody has to do it, unless a client
   process dies: modify_md unlocks what it has locked, and a request to unlock
   that is sent finds the entry of the lock and unlocks that one.  A lock of
   lock_file stays until then. *)
MustUnlock(c) == c \in Modifiers \/ (pc[c] # "idle" /\ req[c].op = "UNLOCK")

LockReleased ==
    \A s \in Slots :
        (owner[s] # None /\ MustUnlock(owner[s])) ~> (owner[s] = None \/ SomeoneDied)

(* The invariant that is inductive: besides the properties above,
   a thread's entry stands for its file while the thread uses it; *)
ThreadAt(c) ==
    /\ pc[c] \in {"lock", "trylock", "unlock", "put"} => slot[c] \in Slots
    /\ pc[c] \in {"lock", "trylock"} =>
          req[c].op # "UNLOCK" /\ file_name[slot[c]] = req[c].file
    /\ pc[c] = "trylock" => req[c].op = "TRY"
    /\ pc[c] = "unlock" => req[c].op = "UNLOCK" /\ owner[slot[c]] = c
    /\ pc[c] = "put" => req[c].op = "UNLOCK" \/ ~ok[c]

AtEntry == \A c \in Clients : ThreadAt(c)

(* a client from the answer to its lock up to the unlock of the pthread mutex
   owns the mutex of an entry of its file; *)
MustOwn(c) ==
    \/ pc[c] = "reply" /\ ok[c] /\ req[c].op # "UNLOCK"
    \/ pc[c] = "idle" /\ sess[c] = "locked"
    \/ pc[c] \in {"connected", "sent", "get", "unlock"} /\ req[c].op = "UNLOCK"

OwnersOwn ==
    \A c \in Clients : MustOwn(c) =>
        \E s \in Slots : owner[s] = c /\ file_name[s] = req[c].file

(* and no client unlocks what it was refused. *)
NoneRefused ==
    \A c \in Clients :
        /\ sess[c] # "failed"
        /\ c \in Modifiers => ok[c] /\ req[c].op # "TRY"

IInv ==
    /\ TypeOK /\ NeverExits /\ OneEntryPerFile /\ CountIsUse
    /\ AtEntry /\ OwnersOwn /\ NoneRefused

(* The table implements the lock service. *)
InForce(f, s) == file_name[s] = f /\ owner[s] # None

Service == INSTANCE MdLockService WITH
    holder <- [f \in Names |->
        IF \E s \in Slots : InForce(f, s)
        THEN owner[CHOOSE s \in Slots : InForce(f, s)] ELSE None],
    told <- {cf \in Clients \X Names : Holding(cf[1], cf[2])}

(* A lock is given only when nobody holds it, is reported only while it is
   held, and is taken away only from a client that asked to release it. *)
ImplementsService == Service!Spec
=============================================================================
