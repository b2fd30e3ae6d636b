---------------------------- MODULE CacheClient ----------------------------
(***************************************************************************)
(* The client side of the write-back cache (4xm/): the files, the TC       *)
(* databases the client processes share with the super server, and the     *)
(* calls of posix_api.c.                                                   *)
(*                                                                         *)
(* A write goes to the cache file, its data to io_data.tch under a key of  *)
(* its own, and a request to the super server, one connection per request. *)
(* The super server chains the keys of a file, oldest first, in            *)
(* io_node.tch, and writes them to the data centre file later.  A key      *)
(* stands for its data.  Keys are unique: <pid>_<time>_<file>, where each  *)
(* write program is a process of its own.                                  *)
(***************************************************************************)
EXTENDS Integers, Sequences, FiniteSets

CONSTANTS
    Files,
    MaxCalls,    \* bounds the writes and reads together
    MaxBacklog   \* LISTENQ: bounds the requests under way

ASSUME CacheAssumption == MaxCalls \in Nat /\ MaxBacklog \in Nat \ {0}

VARIABLES
    md,        \* meta_data.tch: a Meta for each file that is there
    ion,       \* io_node.tch: the next key for each key that is there
    iod,       \* io_data.tch: the keys that are there
    dtc,       \* last key written to each data centre file, or Zeros, or Gone
    used,      \* calls so far; the key of a write is its number
    writing,   \* writes whose data is stored and whose request is not sent
    removing,  \* files removed whose metadata is still there
    backlog    \* requests sent and not read yet, oldest first

dbVars == <<md, ion, iod, dtc>>
callVars == <<used, writing, removing, backlog>>

Keys == 1..MaxCalls
NoKey == 0
Gone == -1
Zeros == -2   \* in place of the data of a key that was not there any more

(* The two states of the metadata que_out_modify_md() accepts. *)
Clean == [dirty |-> FALSE, head |-> NoKey, tail |-> NoKey]
Meta == {Clean} \union [dirty : {TRUE}, head : Keys, tail : Keys]
Request == [io_type : {"READ"}, path : Files, ion_key : {NoKey}]
           \union [io_type : {"WRITE"}, path : Files, ion_key : Keys]

PartialFunctions(S, T) == UNION {[D -> T] : D \in SUBSET S}

ClientTypeOK ==
    /\ md \in PartialFunctions(Files, Meta)
    /\ ion \in PartialFunctions(Keys, Keys \union {NoKey})
    /\ iod \subseteq Keys
    /\ dtc \in [Files -> Keys \union {NoKey, Gone, Zeros}]
    /\ used \in 0..MaxCalls
    /\ writing \subseteq Request
    /\ removing \subseteq Files
    /\ backlog \in Seq(Request)

(* Every file has been created. *)
ClientInit ==
    /\ md = [f \in Files |-> Clean]
    /\ ion = [k \in {} |-> NoKey]
    /\ iod = {}
    /\ dtc = [f \in Files |-> NoKey]
    /\ used = 0
    /\ writing = {} /\ removing = {}
    /\ backlog = <<>>
-----------------------------------------------------------------------------
(* tchdbput() and tchdbout() on the database d. *)
Put(d, key, value) ==
    [k \in DOMAIN d \union {key} |-> IF k = key THEN value ELSE d[k]]
Out(d, keys) == [k \in DOMAIN d \ keys |-> d[k]]

(* The chain from key h: the keys ion_get() finds one after the other, and
   whether the last one has no next. *)
ChainAt(h) ==
    LET at[i \in 0..MaxCalls] ==
            IF i = 0 THEN h
            ELSE IF at[i - 1] \in DOMAIN ion THEN ion[at[i - 1]] ELSE at[i - 1]
    IN at

Chain(h) ==
    LET at == ChainAt(h)
        n == Cardinality({i \in 0..MaxCalls : \A j \in 0..i : at[j] \in DOMAIN ion})
    IN [i \in 1..n |-> at[i - 1]]

Whole(h) == ChainAt(h)[MaxCalls] = NoKey
-----------------------------------------------------------------------------
(* _WriteFile() up to iod_put(). *)
WriteFile(f) ==
    /\ dtc[f] # Gone /\ used < MaxCalls
    /\ used' = used + 1
    /\ iod' = iod \union {used + 1}
    /\ writing' = writing \union {[io_type |-> "WRITE", path |-> f, ion_key |-> used + 1]}
    /\ UNCHANGED <<md, ion, dtc, removing, backlog>>

(* que_out(): one request per connection; nobody answers. *)
QueOut(r) ==
    /\ r \in writing /\ Len(backlog) < MaxBacklog
    /\ writing' = writing \ {r}
    /\ backlog' = Append(backlog, r)
    /\ UNCHANGED <<dbVars, used, removing>>

ReadFile(f) ==
    /\ dtc[f] # Gone /\ used < MaxCalls /\ Len(backlog) < MaxBacklog
    /\ used' = used + 1
    /\ backlog' = Append(backlog, [io_type |-> "READ", path |-> f, ion_key |-> NoKey])
    /\ UNCHANGED <<dbVars, writing, removing>>

(* creat() truncates files that are there, and the metadata starts anew. *)
CreateFile(f) ==
    /\ dtc' = [dtc EXCEPT ![f] = NoKey]
    /\ md' = Put(md, f, Clean)
    /\ UNCHANGED <<ion, iod, callVars>>

(* _Remove(): first the files, ... *)
Remove(f) ==
    /\ dtc[f] # Gone
    /\ dtc' = [dtc EXCEPT ![f] = Gone]
    /\ removing' = removing \union {f}
    /\ UNCHANGED <<md, ion, iod, used, writing, backlog>>

(* ... then de_init_file(), without md_mutex: the chain of a dirty file and
   the metadata.  It copies each key without its terminator into an array it
   has not initialised: it may look up a key that is not there, and die with
   part of the chain deleted. *)
DeInitFile(f) ==
    /\ f \in removing
    /\ removing' = removing \ {f}
    /\ \/ f \notin DOMAIN md /\ UNCHANGED <<md, ion, iod>>
       \/ /\ f \in DOMAIN md
          /\ LET chain == IF md[f].dirty THEN Chain(md[f].head) ELSE <<>>
             IN \E n \in 0..Len(chain) :
                   /\ ion' = Out(ion, {chain[i] : i \in 1..n})
                   /\ iod' = iod \ {chain[i] : i \in 1..n}
                   /\ IF md[f].dirty /\ (n < Len(chain) \/ ~Whole(md[f].head))
                      THEN UNCHANGED md ELSE md' = Out(md, {f})
    /\ UNCHANGED <<dtc, used, writing, backlog>>
=============================================================================
