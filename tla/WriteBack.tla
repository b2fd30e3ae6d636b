----------------------------- MODULE WriteBack -----------------------------
(***************************************************************************)
(* The super server of the write-back cache, super_serv_process.c: the     *)
(* thread que_out_serv records each request in the databases and puts its  *)
(* file on file_node_list; the main thread, flush2data_center, takes files *)
(* from the other end of the list and writes their chains to the data      *)
(* centre.                                                                 *)
(*                                                                         *)
(* md_mutex makes the two threads take turns on the databases; only the    *)
(* print_ion() that DBGMSG compiles in reads them without it.              *)
(* file_node_list_mutex protects the list, except from rm_fn_from_list().  *)
(* tc_get() of metadata or of an io_node that is not there copies from a   *)
(* NULL pointer: the process dies (state "fault").  Of data it copies      *)
(* nothing, and the buffer keeps its zeros.  A use of a freed file_node    *)
(* has no defined outcome: the model stops (state "dangling").             *)
(***************************************************************************)
EXTENDS CacheClient

CONSTANTS
    Nodes,        \* the addresses malloc() can return
    Null,
    FileNames,    \* what can stand in a file_node: the files, other strings
    IsPrefix,     \* the pairs where the name of a file begins another name
    MaxTroubles   \* bounds the restarts, removals and creations

ASSUME ServerAssumption ==
    /\ Files \subseteq FileNames /\ IsPrefix \subseteq Files \X FileNames
    /\ Null \notin Nodes
    /\ MaxTroubles \in Nat

ASSUME PoolAssumption == IsFiniteSet(Nodes) /\ Null \notin FileNames

VARIABLES
    file_node_list_head, update,
    node,      \* the file_node at each address
    live,      \* the addresses in use
    md_mutex,  \* "free", or the thread that holds it
    qs,        \* que_out_serv: where it is, its request, print_ion's key, md, fn
    fl,        \* flush2data_center: where it is, fn, its file, md.io_node_head,
               \* and whether rm_fn_from_list() found fn at the head
    state,     \* "up", "fault" or "dangling"
    troubles,
    recorded,  \* history: the keys recorded for each file, in order
    hurt,      \* history: files removed, created again, or cut short in a
               \* flush or a recording
    stray,     \* history: names that lost their place on the list: the node of a
               \* request has another name, or the flush gave the file up
    calm       \* history: what the list can stand is all that happened to it

listVars == <<file_node_list_head, update, node, live>>
serverVars == <<md_mutex, qs, fl, state, troubles>>
history == <<recorded, hurt, stray, calm>>
vars == <<dbVars, callVars, listVars, serverVars, history>>

Pointers == Nodes \union {Null}
FileNode == [file_name : FileNames \union {Null}, next : Pointers, prev : Pointers]
Blank == [file_name |-> Null, next |-> Null, prev |-> Null]
NoRequest == [io_type |-> "READ", path |-> Null, ion_key |-> NoKey]
QsIdle == [pc |-> "accept", req |-> NoRequest, at |-> NoKey, md |-> Clean, fn |-> Null]
FlIdle == [pc |-> "pick", fn |-> Null, file |-> Null, head |-> NoKey, isHead |-> FALSE]

TypeOK ==
    /\ ClientTypeOK
    /\ file_node_list_head \in Pointers /\ update \in Pointers
    /\ node \in [Nodes -> FileNode]
    /\ live \subseteq Nodes
    /\ md_mutex \in {"free", "serv", "flush"}
    /\ qs \in [pc : {"accept", "print", "md", "tail", "ion", "put", "find", "link"},
               req : Request \union {NoRequest}, at : Keys \union {NoKey},
               md : Meta, fn : Pointers]
    /\ fl \in [pc : {"pick", "open", "iod", "out", "ion", "clear", "unlink", "free"},
               fn : Pointers, file : FileNames \union {Null}, head : Keys \union {NoKey},
               isHead : BOOLEAN]
    /\ state \in {"up", "fault", "dangling"}
    /\ troubles \in 0..MaxTroubles
    /\ recorded \in [Files -> Seq(Keys)]
    /\ hurt \subseteq Files /\ stray \subseteq FileNames
    /\ calm \in BOOLEAN

ServerStart ==
    /\ file_node_list_head' = Null /\ update' = Null
    /\ node' = [n \in Nodes |-> Blank] /\ live' = {}
    /\ md_mutex' = "free" /\ qs' = QsIdle /\ fl' = FlIdle /\ state' = "up"

Init ==
    /\ ClientInit
    /\ file_node_list_head = Null /\ update = Null
    /\ node = [n \in Nodes |-> Blank] /\ live = {}
    /\ md_mutex = "free" /\ qs = QsIdle /\ fl = FlIdle /\ state = "up"
    /\ troubles = 0
    /\ recorded = [f \in Files |-> <<>>]
    /\ hurt = {} /\ stray = {} /\ calm = TRUE
-----------------------------------------------------------------------------
Die(how) ==
    /\ state' = how
    /\ UNCHANGED <<dbVars, callVars, listVars, md_mutex, qs, fl, troubles, history>>

(* Two threads of one process cannot have a TC database open at once: a call
   of the flush thread can fail while que_out_serv is in print_ion(), and the
   other way round. *)
Printing == qs.pc = "print"

(* que_out_serv: accept() and read() a request, ... *)
Accept ==
    /\ qs.pc = "accept" /\ backlog # <<>>
    /\ qs' = [QsIdle EXCEPT !.pc = "print", !.req = Head(backlog)]
    /\ backlog' = Tail(backlog)
    /\ UNCHANGED <<dbVars, used, writing, removing, listVars, md_mutex, fl, state, troubles, history>>

(* ... print its chain, one key per step, ...  Data that is not there prints as
   zeros. *)
NextPrinted ==
    IF qs.at # NoKey THEN ion[qs.at]
    ELSE IF md[qs.req.path].dirty THEN md[qs.req.path].head ELSE NoKey

PrintIon ==
    /\ qs.pc = "print"
    /\ \/ /\ IF qs.at = NoKey THEN qs.req.path \notin DOMAIN md
             ELSE qs.at \notin DOMAIN ion
          /\ Die("fault")
       \/ /\ IF qs.at = NoKey THEN qs.req.path \in DOMAIN md
             ELSE qs.at \in DOMAIN ion
          /\ qs' = [qs EXCEPT !.at = NextPrinted, !.pc = IF NextPrinted = NoKey THEN "md" ELSE @]
          /\ UNCHANGED <<dbVars, callVars, listVars, md_mutex, fl, state, troubles, history>>
       \/ /\ md_mutex = "flush"
          /\ qs' = [qs EXCEPT !.at = NoKey, !.pc = "md"]
          /\ UNCHANGED <<dbVars, callVars, listVars, md_mutex, fl, state, troubles, history>>

(* ... and, under md_mutex, record it: que_out_modify_md(). *)
GetMd ==
    /\ qs.pc = "md" /\ md_mutex = "free"
    /\ IF qs.req.path \notin DOMAIN md THEN Die("fault")
       ELSE /\ md_mutex' = "serv"
            /\ qs' = [qs EXCEPT !.md = md[qs.req.path],
                        !.pc = IF qs.req.io_type = "READ" THEN "put"
                               ELSE IF md[qs.req.path].dirty THEN "tail" ELSE "ion"]
            /\ UNCHANGED <<dbVars, callVars, listVars, fl, state, troubles, history>>

PutTail ==
    /\ qs.pc = "tail"
    /\ IF qs.md.tail \notin DOMAIN ion THEN Die("fault")
       ELSE /\ ion' = Put(ion, qs.md.tail, qs.req.ion_key)
            /\ qs' = [qs EXCEPT !.pc = "ion"]
            /\ UNCHANGED <<md, iod, dtc, callVars, listVars, md_mutex, fl, state, troubles, history>>

PutIon ==
    /\ qs.pc = "ion"
    /\ ion' = Put(ion, qs.req.ion_key, NoKey)
    /\ recorded' = [recorded EXCEPT ![qs.req.path] = Append(@, qs.req.ion_key)]
    /\ qs' = [qs EXCEPT !.pc = "put"]
    /\ UNCHANGED <<md, iod, dtc, callVars, listVars, md_mutex, fl, state, troubles, hurt, stray, calm>>

RecordedFirst(m, k) == [dirty |-> TRUE, head |-> k, tail |-> IF m.dirty THEN m.tail ELSE k]
Recorded(m, k) == [dirty |-> TRUE, head |-> IF m.dirty THEN m.head ELSE k, tail |-> k]

(* md_put() of the copy GetMd made, and the second print_ion(). *)
PutMd ==
    /\ qs.pc = "put"
    /\ LET f == qs.req.path
           m == IF qs.req.io_type = "READ" THEN qs.md ELSE Recorded(qs.md, qs.req.ion_key)
       IN /\ md' = Put(md, f, m)
          /\ state' = IF m.dirty /\ ~Whole(m.head) THEN "fault" ELSE "up"
    /\ md_mutex' = "free"
    /\ qs' = [qs EXCEPT !.pc = "find", !.md = Clean]
    /\ UNCHANGED <<ion, iod, dtc, callVars, listVars, fl, troubles, history>>
-----------------------------------------------------------------------------
(* add2file_node_list_head(), from here on under file_node_list_mutex: get_fn()
   compares the length of the requested name only, from the head along next. *)
Names(f, n) == LET g == node[n].file_name IN g = f \/ <<f, g>> \in IsPrefix

NodesSeen(f) ==
    LET at[i \in 0..Cardinality(Nodes)] ==
            IF i = 0 THEN file_node_list_head
            ELSE LET p == at[i - 1]
                 IN IF p \notin live \/ Names(f, p) THEN p ELSE node[p].next
    IN at

GetFn ==
    /\ qs.pc = "find"
    /\ LET fn == NodesSeen(qs.req.path)[Cardinality(Nodes)]
       IN IF fn \notin live \union {Null} THEN Die("dangling")
          ELSE /\ qs' = [qs EXCEPT !.pc = "link", !.fn = fn]
               /\ UNCHANGED <<dbVars, callVars, listVars, md_mutex, fl, state, troubles, history>>

(* new_file_node() copies the name without its terminator into memory that
   malloc() has not cleared: with what is left there it may be a longer name, also
   that of another file. *)
NewNodes(f) ==
    {[Blank EXCEPT !.file_name = g] : g \in {f} \union {g \in FileNames : <<f, g>> \in IsPrefix}}

AsHead(n) ==
    [n EXCEPT !.prev = Null,
              !.next = IF file_node_list_head = Null THEN Null ELSE node[file_node_list_head].next]

LinkedAlone(fn, n) == [node EXCEPT ![fn] = AsHead(n)]

Linked(fn, n) ==
    IF file_node_list_head = Null THEN [node EXCEPT ![fn] = AsHead(n)]
    ELSE [[node EXCEPT ![fn] = AsHead(n)] EXCEPT ![file_node_list_head].prev = fn]

(* The old head gets the node as its prev, also when it is the node; a new
   request finds the head of the list only, since next stays NULL. *)
AddToHead ==
    /\ qs.pc = "link"
    /\ IF {qs.fn, file_node_list_head} \ (live \union {Null}) # {} THEN Die("dangling")
       ELSE /\ \E fn \in IF qs.fn = Null THEN Nodes \ live ELSE {qs.fn} :
                  /\ \E n \in IF qs.fn = Null THEN NewNodes(qs.req.path) ELSE {node[fn]} :
                        /\ node' = Linked(fn, n)
                        /\ stray' = IF n.file_name = qs.req.path THEN stray \ {qs.req.path}
                                    ELSE stray \union {qs.req.path}
                  /\ live' = live \union {fn}
                  /\ file_node_list_head' = fn
                  /\ update' = IF update = Null THEN fn ELSE update
            /\ qs' = QsIdle
            /\ calm' = (calm /\ ~(fl.pc = "free" /\ fl.isHead))
            /\ UNCHANGED <<dbVars, callVars, md_mutex, fl, state, troubles, recorded, hurt>>

QueOutServ == Accept \/ PrintIon \/ GetMd \/ PutTail \/ PutIon \/ PutMd \/ GetFn \/ AddToHead
-----------------------------------------------------------------------------
(* flush2data_center(): take the node at update. *)
Pick ==
    /\ fl.pc = "pick" /\ qs.pc # "link"
    /\ file_node_list_head # Null /\ update # Null
    /\ IF update \notin live THEN Die("dangling")
       ELSE /\ fl' = [fl EXCEPT !.pc = "open", !.fn = update, !.file = node[update].file_name]
            /\ update' = node[update].prev
            /\ UNCHANGED <<dbVars, callVars, file_node_list_head, node, live,
                           md_mutex, qs, state, troubles, history>>

GiveUp ==
    /\ fl' = FlIdle
    /\ md_mutex' = "free"
    /\ UNCHANGED <<dbVars, used, writing, removing, listVars, qs, state, troubles, recorded, calm>>

(* The flush leaves a file as it is, and does not come back to it. *)
LeaveDirty == GiveUp /\ stray' = stray \union {fl.file}

(* The same between two steps of a key: the metadata still names a head that may be
   deleted. *)
LeaveHurt == LeaveDirty /\ hurt' = hurt \union {fl.file} /\ UNCHANGED backlog

(* fd still has the number of an earlier descriptor, or none yet; close(fd)
   may hit the connection que_out_serv has accepted and not read. *)
CloseStaleFd ==
    \/ UNCHANGED backlog
    \/ qs.pc = "accept" /\ backlog # <<>> /\ backlog' = Tail(backlog)

(* Under md_mutex: a clean file and one whose data centre file is gone are
   skipped, their nodes stay. *)
FlushMissing == fl.file \notin DOMAIN md

Open ==
    /\ fl.pc = "open" /\ md_mutex = "free"
    /\ \/ FlushMissing /\ Die("fault")
       \/ /\ ~FlushMissing /\ ~md[fl.file].dirty
          /\ CloseStaleFd /\ GiveUp /\ UNCHANGED <<hurt, stray>>
       \/ /\ ~FlushMissing /\ md[fl.file].dirty /\ dtc[fl.file] = Gone
          /\ LeaveDirty /\ UNCHANGED <<backlog, hurt>>
       \/ /\ ~FlushMissing /\ md[fl.file].dirty /\ dtc[fl.file] # Gone
          /\ md_mutex' = "flush"
          /\ fl' = [fl EXCEPT !.pc = "iod", !.head = md[fl.file].head]
          /\ UNCHANGED <<dbVars, callVars, listVars, qs, state, troubles, history>>
       \/ Printing /\ CloseStaleFd /\ LeaveDirty /\ UNCHANGED hurt

(* What is deleted once key k is in the data centre. *)
KeptToTheEnd(k) == {}
Flushed(k) == {k}

(* One key: ion_get, iod_get and write.  With the data gone, zeros are written in
   its place. *)
WriteIod ==
    /\ fl.pc = "iod"
    /\ IF fl.head \notin DOMAIN ion THEN Die("fault")
       ELSE /\ dtc' = [dtc EXCEPT ![fl.file] =
                          IF @ = Gone THEN Gone ELSE IF fl.head \in iod THEN fl.head ELSE Zeros]
            /\ fl' = [fl EXCEPT !.pc = "out"]
            /\ UNCHANGED <<md, ion, iod, callVars, listVars, md_mutex, qs, state, troubles, history>>

(* ... iod_out, which fails when there is nothing to delete, ... *)
OutIod ==
    /\ fl.pc = "out"
    /\ IF fl.head \notin iod THEN LeaveHurt
       ELSE /\ iod' = iod \ Flushed(fl.head)
            /\ fl' = [fl EXCEPT !.pc = "ion"]
            /\ UNCHANGED <<md, ion, dtc, callVars, listVars, md_mutex, qs, state, troubles, history>>

(* ... ion_out; on to the next key or to the end. *)
OutIon ==
    /\ fl.pc = "ion"
    /\ IF fl.head \notin DOMAIN ion THEN LeaveHurt
       ELSE /\ ion' = Out(ion, Flushed(fl.head))
            /\ fl' = [fl EXCEPT !.pc = IF ion[fl.head] = NoKey THEN "clear" ELSE "iod",
                                !.head = ion[fl.head]]
            /\ UNCHANGED <<md, iod, dtc, callVars, listVars, md_mutex, qs, state, troubles, history>>

(* A call fails because que_out_serv has the database open. *)
CallFails == fl.pc \in {"iod", "out", "ion"} /\ Printing /\ LeaveHurt

TailKept(m) == [dirty |-> FALSE, head |-> NoKey, tail |-> m.tail]
Cleared(m) == Clean

(* md_put() of the cleaned copy; its result is not tested. *)
ClearMd ==
    /\ fl.pc = "clear"
    /\ fl' = [fl EXCEPT !.pc = "unlink"]
    /\ \/ /\ md' = Put(md, fl.file, Cleared(IF fl.file \in DOMAIN md THEN md[fl.file] ELSE Clean))
          /\ UNCHANGED <<hurt, stray>>
       \/ /\ Printing
          /\ hurt' = hurt \union {fl.file} /\ stray' = stray \union {fl.file}
          /\ UNCHANGED md
    /\ UNCHANGED <<ion, iod, dtc, callVars, listVars, md_mutex, qs, state, troubles, recorded, calm>>

(* rm_fn_from_list(), without file_node_list_mutex: the neighbours and the test
   for the head, then the head, update and free(). *)
Unlink ==
    /\ fl.pc = "unlink"
    /\ LET p == node[fl.fn].prev  n == node[fl.fn].next
       IN IF {p, n} \ (live \union {Null}) # {} THEN Die("dangling")
          ELSE /\ node' = [a \in Nodes |->
                      IF a = p THEN [node[a] EXCEPT !.next = n]
                      ELSE IF a = n THEN [node[a] EXCEPT !.prev = p] ELSE node[a]]
               /\ fl' = [fl EXCEPT !.pc = "free", !.isHead = fl.fn = file_node_list_head]
               /\ UNCHANGED <<dbVars, callVars, file_node_list_head, update, live,
                              md_mutex, qs, state, troubles, history>>
Free ==
    /\ fl.pc = "free"
    /\ file_node_list_head' = IF fl.isHead THEN node[fl.fn].next ELSE file_node_list_head
    /\ update' = IF fl.fn = update THEN node[fl.fn].prev ELSE update
    /\ node' = [node EXCEPT ![fl.fn] = Blank]
    /\ live' = live \ {fl.fn}
    /\ md_mutex' = "free"
    /\ fl' = FlIdle
    /\ calm' = (calm /\ node[fl.fn].prev # fl.fn)
    /\ UNCHANGED <<dbVars, callVars, qs, state, troubles, recorded, hurt, stray>>

Flush == Pick \/ Open \/ WriteIod \/ OutIod \/ OutIon \/ CallFails \/ ClearMd \/ Unlink \/ Free

(* The process dies or is killed, and is started again: the list and the
   requests under way are gone, the databases are as they were. *)
Restart ==
    /\ troubles < MaxTroubles
    /\ troubles' = troubles + 1
    /\ ServerStart
    /\ backlog' = <<>>
    /\ hurt' = hurt \union (CASE md_mutex = "free" -> {}
                               [] md_mutex = "serv" -> {qs.req.path}
                               [] md_mutex = "flush" -> {fl.file})
    /\ stray' = {f \in DOMAIN md : md[f].dirty}
    /\ calm' = TRUE
    /\ UNCHANGED <<dbVars, used, writing, removing, recorded>>

Call(f) ==
    \/ WriteFile(f) /\ UNCHANGED hurt
    \/ ReadFile(f) /\ UNCHANGED hurt
    \/ DeInitFile(f) /\ UNCHANGED hurt

Replace(f) ==
    /\ troubles < MaxTroubles
    /\ troubles' = troubles + 1
    /\ CreateFile(f) \/ Remove(f)
    /\ hurt' = hurt \union {f}
    /\ UNCHANGED <<listVars, md_mutex, qs, fl, state, recorded, stray, calm>>

Next ==
    \/ state = "up" /\ (QueOutServ \/ Flush)
    \/ /\ (\E f \in Files : Call(f)) \/ ((\E r \in writing : QueOut(r)) /\ UNCHANGED hurt)
       /\ UNCHANGED <<listVars, serverVars, recorded, stray, calm>>
    \/ \E f \in Files : Replace(f)
    \/ Restart

Spec == Init /\ [][Next]_vars
-----------------------------------------------------------------------------
(* Nothing recorded is lost or reordered: when no thread holds md_mutex, the
   chain of a file is what que_out_modify_md() recorded and the flush has not
   written, in that order, with all its data, and the data centre file holds
   the last write before it. *)
Pending(f) == IF md[f].dirty THEN Chain(md[f].head) ELSE <<>>

NothingLost ==
    md_mutex = "free" => \A f \in Files \ hurt :
        LET done == Len(recorded[f]) - Len(Pending(f))
        IN /\ f \in DOMAIN md
           /\ done >= 0 /\ Pending(f) = SubSeq(recorded[f], done + 1, Len(recorded[f]))
           /\ \A i \in DOMAIN Pending(f) : Pending(f)[i] \in iod
           /\ md[f].dirty => Pending(f) # <<>> /\ md[f].tail = recorded[f][Len(recorded[f])]
           /\ dtc[f] = IF done = 0 THEN NoKey ELSE recorded[f][done]

(* The data centre file only moves on to writes recorded later, whatever
   fails, is removed or restarted, and zeros get into it only after a step of the
   flush failed or was cut short, or the file was removed or created again. *)
Place(f, k) == CHOOSE i \in DOMAIN recorded[f] : recorded[f][i] = k

InOrder ==
    [][\A f \in Files :
          /\ dtc'[f] \in Keys /\ dtc[f] \in Keys /\ dtc'[f] # dtc[f] =>
                Place(f, dtc[f]) < Place(f, dtc'[f])
          /\ dtc'[f] = Zeros => f \in hurt]_vars

(* Every dirty file is on its way to the data centre: que_out_serv is about to
   list it, or the flush is at it or will come to it along prev, unless its last
   request was listed under another name or the flush gave it up since.  The list
   guarantees this until a node is added while rm_fn_from_list() removes the head,
   or one is freed that is its own prev. *)
Ahead ==
    LET at[i \in 0..Cardinality(Nodes)] ==
            IF i = 0 THEN update
            ELSE IF at[i - 1] = Null THEN Null ELSE node[at[i - 1]].prev
    IN {at[i] : i \in DOMAIN at} \ {Null}

DirtyIsQueued ==
    calm => \A f \in DOMAIN md \ stray : md[f].dirty =>
        \/ qs.pc \in {"find", "link"} /\ qs.req.path = f
        \/ fl.file = f
        \/ file_node_list_head # Null /\ \E n \in Ahead : node[n].file_name = f

(* The comment in flush2data_center(): "we first get a file_node from
   file_node_list,which is always the node pointed to by 'update'". *)
UpdateIsNode == update \in live \union {Null}
=============================================================================
