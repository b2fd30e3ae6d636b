---------------------------- MODULE MdMutexHash ----------------------------
(***************************************************************************)
(* The second metadata mutex server, new_md_mutex_server.c: entries are    *)
(* allocated on demand and kept in hash chains, doubly linked, and freed   *)
(* when the last thread puts them back.                                    *)
(*                                                                         *)
(* get_zz_mutex() reads the head of the chain before it takes glob_mutex   *)
(* and walks from there afterwards; these are two actions.  An access to a *)
(* freed entry makes the behaviour of the process undefined: the model     *)
(* sets broken and stops.  malloc() may return a freed entry again, which  *)
(* a thread that still has the old pointer cannot tell.                    *)
(***************************************************************************)
EXTENDS MdMutexClient

CONSTANTS
    Entries,   \* the addresses malloc() can return; bounds the live entries
    Hashes,    \* indices of mutex_hash
    Hash       \* hash_func() on the names in play

ASSUME HashAssumption ==
    /\ Hash \in [Names -> Hashes]
    /\ None \notin Entries
    /\ IsFiniteSet(Entries)

VARIABLES
    mutex_hash,  \* head of each chain
    entry,       \* the zz_mutex at each address
    live,        \* the addresses in use
    my_mutex,    \* the local of each thread: stale head, then the entry found
    broken,      \* a freed entry has been accessed
    staleUse     \* history: some walk started at a head that was no longer it

hashVars == <<mutex_hash, entry, live, my_mutex, broken, staleUse>>
vars == <<clientVars, hashVars>>

Pointers == Entries \union {None}
ZzMutex == [count : Int, owner : Clients \union {None}, file_name : Names,
            pre : Pointers, next : Pointers]
Blank == [count |-> 0, owner |-> None, file_name |-> EmptyName,
          pre |-> None, next |-> None]

TypeOK ==
    /\ ClientTypeOK
    /\ mutex_hash \in [Hashes -> Pointers]
    /\ entry \in [Entries -> ZzMutex]
    /\ live \subseteq Entries
    /\ my_mutex \in [Clients -> Pointers]
    /\ broken \in BOOLEAN /\ staleUse \in BOOLEAN

Init ==
    /\ ClientInit
    /\ mutex_hash = [h \in Hashes |-> None]
    /\ entry = [e \in Entries |-> Blank]
    /\ live = {}
    /\ my_mutex = [c \in Clients |-> None]
    /\ broken = FALSE /\ staleUse = FALSE
-----------------------------------------------------------------------------
Goto(c, step) == pc' = [pc EXCEPT ![c] = step]
Done(c) == Goto(c, "reply") /\ my_mutex' = [my_mutex EXCEPT ![c] = None]

OpCode(o) == o
OpStep(o) ==
    CASE o = "LOCK" -> "lock" [] o = "TRY" -> "trylock" [] o = "UNLOCK" -> "unlock"

UndefinedBehaviour ==
    /\ broken' = TRUE
    /\ UNCHANGED <<clientVars, mutex_hash, entry, live, my_mutex>>

(* get_zz_mutex() before glob_mutex: the head of the chain of the file. *)
ReadHead(c) ==
    /\ pc[c] = "get"
    /\ my_mutex' = [my_mutex EXCEPT ![c] = mutex_hash[Hash[req[c].file]]]
    /\ Goto(c, "scan")
    /\ UNCHANGED <<up, backlog, reading, req, ok, sess, alive,
                   mutex_hash, entry, live, broken, staleUse>>

(* The walk: next pointers from p to the first entry of file f, or NULL. *)
Walk(p, f) ==
    LET at[k \in 0..Cardinality(Entries)] ==
            IF k = 0 THEN p
            ELSE LET e == at[k - 1]
                 IN IF e = None THEN None
                    ELSE IF entry[e].file_name = f THEN e ELSE entry[e].next
    IN at[Cardinality(Entries)]

Found(c) == Walk(my_mutex[c], req[c].file)

(* A match: lock and try_lock count one more thread. *)
ScanMatch(c) ==
    /\ Found(c) # None
    /\ my_mutex' = [my_mutex EXCEPT ![c] = Found(c)]
    /\ entry' = IF req[c].op = "UNLOCK" THEN entry
                ELSE [entry EXCEPT ![Found(c)].count = @ + 1]
    /\ Goto(c, OpStep(req[c].op))
    /\ UNCHANGED <<ok, mutex_hash, live>>

(* No match: lock and try_lock put a new entry at the head of the chain. *)
LinkOneWay(n, f, h) ==
    entry' = [entry EXCEPT ![n] = [Blank EXCEPT !.count = 1, !.file_name = f, !.next = h]]

LinkFirst(n, f, h) ==
    entry' = [e \in Entries |->
        CASE e = n -> [Blank EXCEPT !.count = 1, !.file_name = f, !.next = h]
          [] e # n /\ e = h -> [entry[e] EXCEPT !.pre = n]
          [] OTHER -> entry[e]]

ScanAlloc(c) ==
    /\ Found(c) = None /\ req[c].op # "UNLOCK"
    /\ \E n \in Entries \ live :
          LET h == Hash[req[c].file]
          IN /\ LinkFirst(n, req[c].file, mutex_hash[h])
             /\ mutex_hash' = [mutex_hash EXCEPT ![h] = n]
             /\ live' = live \union {n}
             /\ my_mutex' = [my_mutex EXCEPT ![c] = n]
    /\ Goto(c, OpStep(req[c].op))
    /\ UNCHANGED ok

ScanFail(c) ==
    /\ Found(c) = None /\ req[c].op = "UNLOCK"
    /\ ok' = [ok EXCEPT ![c] = FALSE]
    /\ Done(c)
    /\ UNCHANGED <<mutex_hash, entry, live>>

(* get_zz_mutex() under glob_mutex. *)
Scan(c) ==
    /\ pc[c] = "scan"
    /\ staleUse' = (staleUse \/ my_mutex[c] # mutex_hash[Hash[req[c].file]])
    /\ IF my_mutex[c] \notin live \union {None} THEN UndefinedBehaviour
       ELSE /\ ScanMatch(c) \/ ScanAlloc(c) \/ ScanFail(c)
            /\ UNCHANGED <<up, backlog, reading, req, sess, alive, broken>>
-----------------------------------------------------------------------------
(* The pthread mutex of the entry, as in the table server. *)
TakeMutex(c) ==
    /\ entry[my_mutex[c]].owner = None
    /\ entry' = [entry EXCEPT ![my_mutex[c]].owner = c]
    /\ Done(c)
    /\ UNCHANGED ok

FailTry(c) ==
    /\ pc[c] = "trylock" /\ entry[my_mutex[c]].owner # None
    /\ ok' = [ok EXCEPT ![c] = FALSE]
    /\ Goto(c, "put")
    /\ UNCHANGED <<entry, my_mutex>>

UseMutex(c) ==
    /\ pc[c] \in {"lock", "trylock"}
    /\ IF my_mutex[c] \notin live THEN UndefinedBehaviour /\ UNCHANGED staleUse
       ELSE /\ TakeMutex(c) \/ FailTry(c)
            /\ UNCHANGED <<up, backlog, reading, req, sess, alive,
                           mutex_hash, live, broken, staleUse>>

Unlock(c) ==
    /\ pc[c] = "unlock"
    /\ IF my_mutex[c] \notin live THEN UndefinedBehaviour /\ UNCHANGED staleUse
       ELSE /\ entry' = [entry EXCEPT ![my_mutex[c]].owner = None]
            /\ Goto(c, "put")
            /\ UNCHANGED <<up, backlog, reading, req, ok, sess, alive,
                           mutex_hash, live, my_mutex, broken, staleUse>>
-----------------------------------------------------------------------------
(* put_zz_mutex(): the last thread unlinks the entry m and frees it.  *)
Unlink(m) ==
    LET p == entry[m].pre  n == entry[m].next
    IN /\ entry' = [e \in Entries |->
              CASE e = m -> Blank
                [] e # m /\ e = p -> [entry[e] EXCEPT !.next = n]
                [] e # m /\ e # p /\ e = n -> [entry[e] EXCEPT !.pre = p]
                [] OTHER -> entry[e]]
       /\ mutex_hash' = IF p # None THEN mutex_hash
                        ELSE [mutex_hash EXCEPT ![Hash[entry[m].file_name]] = n]
       /\ live' = live \ {m}

FreeWhenUnlocked(m) == entry[m].owner = None
LastUse(m) == entry[m].count = 1

PutBack(m) ==
    IF LastUse(m) THEN Unlink(m)
    ELSE /\ entry' = [entry EXCEPT ![m].count = @ - 1]
         /\ UNCHANGED <<mutex_hash, live>>

Put(c) ==
    /\ pc[c] = "put"
    /\ IF my_mutex[c] \notin live THEN UndefinedBehaviour /\ UNCHANGED staleUse
       ELSE /\ PutBack(my_mutex[c])
            /\ Done(c)
            /\ UNCHANGED <<up, backlog, reading, req, ok, sess, alive, broken, staleUse>>

Thread(c) == ReadHead(c) \/ Scan(c) \/ UseMutex(c) \/ Unlock(c) \/ Put(c)

Next ==
    /\ ~broken
    /\ \/ Accept /\ UNCHANGED hashVars
       \/ \E c \in Clients :
             \/ ClientStep(c) /\ UNCHANGED hashVars
             \/ Thread(c)

Spec == Init /\ [][Next]_vars
-----------------------------------------------------------------------------
(* At most one entry per file name, as the message before the allocation
   says: "no match mutex for req,now allocate a new mutex". *)
OneEntryPerFile ==
    \A d, e \in live : entry[d].file_name = entry[e].file_name => d = e

(* No two clients are told at the same time that they hold the same file. *)
MutualExclusion ==
    \A c, d \in Clients, f \in Names :
        Holding(c, f) /\ Holding(d, f) => c = d

(* zz_mutex.count, "how many threads are using this mutex". *)
Users(e) == {c \in Clients : pc[c] \in {"lock", "trylock", "put"} /\ my_mutex[c] = e}

CountIsUse ==
    \A e \in live :
        entry[e].count = Cardinality(Users(e)) + (IF entry[e].owner = None THEN 0 ELSE 1)

(* The chains survive every interleaving, late heads included: each live
   entry is on the chain of its name, once, no chain reaches a freed entry,
   and the pre links run back over the next links. *)
Chain(h) ==
    LET at[k \in 0..Cardinality(Entries)] ==
            IF k = 0 THEN mutex_hash[h]
            ELSE IF at[k - 1] = None THEN None ELSE entry[at[k - 1]].next
    IN {at[k] : k \in DOMAIN at} \ {None}

ChainsWellFormed ==
    /\ \A e \in live : e \in Chain(Hash[entry[e].file_name])
    /\ \A h \in Hashes : Chain(h) \subseteq live
    /\ \A e \in live :
          LET p == entry[e].pre IN
          IF p = None THEN mutex_hash[Hash[entry[e].file_name]] = e
          ELSE p \in live /\ entry[p].next = e

(* A late head is the only flaw: as long as every walk started at the head
   that was in force when it took glob_mutex, the server excludes, counts,
   and never touches a freed entry. *)
CorrectUnlessStale ==
    ~staleUse => ~broken /\ OneEntryPerFile /\ MutualExclusion /\ CountIsUse
=============================================================================
