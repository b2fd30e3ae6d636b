-------------------------- MODULE WriteBackProofs --------------------------
(***************************************************************************)
(* Proofs about WriteBack for every number of files, calls and troubles:   *)
(* types; nothing recorded is lost or reordered in the databases of a file *)
(* that nobody removed, created again or cut short; the data centre file   *)
(* of a file changes by its next recorded write, or is overwritten with    *)
(* zeros when the file was hurt; and every dirty file is queued for the    *)
(* flush, as long as no two threads met at the head of the list and no     *)
(* restart or misread name left the file out.                              *)
(***************************************************************************)
EXTENDS WriteBack, FiniteSetTheorems, WellFoundedInduction, TLAPS

-----------------------------------------------------------------------------
(* Induction over the numbers.  The induction theorems of the library take an
   operator, which the provers cannot instantiate; over a set they follow from the
   strict subset relation on finite sets being well-founded. *)

(* Every set of numbers has a least one. *)
LEMMA LeastNat ==
  ASSUME NEW T, T \subseteq Nat, T # {}
  PROVE  \E x \in T : \A y \in T : x <= y
<1> DEFINE F == {0..n : n \in T}
<1>1. F \subseteq FiniteSubsetsOf(Nat) /\ F # {}
  <2>1. \A n \in Nat : IsFiniteSet(0..n)
    BY FS_Interval
  <2>2. \A n \in Nat : (0..n) \subseteq Nat
    OBVIOUS
  <2>3. \A n \in T : 0..n \in FiniteSubsetsOf(Nat)
    BY <2>1, <2>2 DEF FiniteSubsetsOf
  <2> QED
    BY <2>3
<1>2. \E S \in F : \A R \in F : <<R, S>> \notin StrictSubsetOrdering(Nat)
  BY <1>1, FS_StrictSubsetOrderingWellFounded, WFMin
<1>3. PICK x \in T : \A y \in T : <<0..y, 0..x>> \notin StrictSubsetOrdering(Nat)
  BY <1>2
<1>4. ASSUME NEW y \in T, (0..y) \subseteq (0..x), 0..y # 0..x PROVE FALSE
  <2>1. 0..y \in SUBSET Nat /\ 0..x \in SUBSET Nat
    OBVIOUS
  <2>2. <<0..y, 0..x>> \in (SUBSET Nat) \X (SUBSET Nat)
    BY <2>1
  <2> QED
    BY <1>3, <1>4, <2>2 DEF StrictSubsetOrdering
<1>5. ASSUME NEW y \in T, ~(x <= y) PROVE FALSE
  <2>1. x \in 0..x /\ x \notin 0..y /\ (0..y) \subseteq (0..x)
    BY <1>5
  <2> QED
    BY <1>4, <2>1
<1> QED
  BY <1>5

(* Induction over the set of the numbers for which a fact holds. *)
LEMMA Induction ==
  ASSUME NEW S, 0 \in S, \A n \in Nat : n \in S => n + 1 \in S
  PROVE  \A n \in Nat : n \in S
<1> DEFINE T == {n \in Nat : n \notin S}
<1> SUFFICES ASSUME T # {} PROVE FALSE
  OBVIOUS
<1>1. PICK x \in T : \A y \in T : x <= y
  BY LeastNat
<1>2. x # 0 /\ x - 1 \in Nat /\ x - 1 \notin S
  OBVIOUS
<1> QED
  BY <1>1, <1>2

(* g lists p and the first n values that iterating s gives. *)
Iterates(g, s, p, S, n) ==
    /\ g \in [0..n -> S]
    /\ g[0] = p /\ \A k \in 1..n : g[k] = s[g[k - 1]]

LEMMA CanIterate ==
  ASSUME NEW S, NEW s \in [S -> S], NEW p \in S, NEW N \in Nat
  PROVE  \E g : Iterates(g, s, p, S, N)
<1> DEFINE Good == {n \in Nat : \E g : Iterates(g, s, p, S, n)}
<1>1. 0 \in Good
  <2> DEFINE g == [k \in 0..0 |-> p]
  <2>1. Iterates(g, s, p, S, 0)
    BY DEF Iterates
  <2> QED
    BY <2>1
<1>2. ASSUME NEW n \in Nat, n \in Good PROVE n + 1 \in Good
  <2>1. PICK g : Iterates(g, s, p, S, n)
    BY <1>2
  <2> DEFINE h == [k \in 0..(n + 1) |-> IF k = n + 1 THEN s[g[n]] ELSE g[k]]
  <2>2. Iterates(h, s, p, S, n + 1)
    BY <2>1 DEF Iterates
  <2> QED
    BY <2>2
<1>3. N \in Good
  <2> HIDE DEF Good
  <2> QED
    BY <1>1, <1>2, Induction
<1> QED
  BY <1>3

(* A set of numbers that has, with each, all the smaller ones. *)
LEMMA InitialSegment ==
  ASSUME NEW N \in Nat, NEW S, S \subseteq 0..N, \A i \in S : \A j \in 0..i : j \in S
  PROVE  Cardinality(S) \in 0..(N + 1) /\ S = 0..(Cardinality(S) - 1)
<1> DEFINE T == {i \in 0..(N + 1) : i \notin S}
<1>1. PICK n \in T : \A y \in T : n <= y
  <2>1. N + 1 \in T /\ T \subseteq Nat
    OBVIOUS
  <2> QED
    BY <2>1, LeastNat
<1>2. S = 0..(n - 1)
  <2>1. ASSUME NEW i \in 0..(n - 1) PROVE i \in S
    BY <1>1
  <2>2. ASSUME NEW i \in S PROVE i \in 0..(n - 1)
    BY <1>1
  <2> QED
    BY <2>1, <2>2
<1>3. n \in 0..(N + 1) /\ Cardinality(0..(n - 1)) = n
  <2>1. n \in Int /\ n >= 0
    BY <1>1
  <2> QED
    BY <2>1, FS_Interval
<1> QED
  BY <1>2, <1>3

USE CacheAssumption, ServerAssumption
-----------------------------------------------------------------------------
(* Types, and what each step of a thread has. *)
Recording == qs.pc \in {"tail", "ion", "put"}
Flushing == fl.pc \in {"iod", "out", "ion", "clear", "unlink", "free"}

Turns ==
    /\ md_mutex = "serv" <=> Recording
    /\ md_mutex = "flush" <=> Flushing

AtHand ==
    /\ \A n \in live : node[n].file_name \in FileNames
    /\ \A r \in writing : r.ion_key \in Keys
    /\ qs.pc # "accept" => qs.req \in Request
    /\ qs.pc \in {"tail", "ion"} => qs.req.ion_key \in Keys
    /\ qs.pc = "tail" => qs.md.dirty
    /\ fl.pc # "pick" => fl.fn \in live /\ fl.file \in FileNames
    /\ Flushing => fl.file \in Files
    /\ fl.pc \in {"out", "ion"} => fl.head \in Keys

Typed == TypeOK /\ AtHand /\ Turns

(* What a partial function is, and what the calls on a database return. *)
LEMMA PartialType ==
  ASSUME NEW S, NEW T, NEW d
  PROVE  d \in PartialFunctions(S, T) <=> DOMAIN d \subseteq S /\ d \in [DOMAIN d -> T]
BY DEF PartialFunctions

LEMMA PutType ==
  ASSUME NEW S, NEW T, NEW d \in PartialFunctions(S, T), NEW k \in S, NEW v \in T
  PROVE  /\ Put(d, k, v) \in PartialFunctions(S, T)
         /\ DOMAIN Put(d, k, v) = DOMAIN d \union {k}
         /\ Put(d, k, v)[k] = v
         /\ \A j \in DOMAIN d \ {k} : Put(d, k, v)[j] = d[j]
<1>1. DOMAIN d \subseteq S /\ d \in [DOMAIN d -> T]
  BY PartialType
<1>2. DOMAIN Put(d, k, v) \subseteq S /\ Put(d, k, v) \in [DOMAIN Put(d, k, v) -> T]
  BY <1>1 DEF Put
<1> QED
  BY <1>2, PartialType DEF Put

LEMMA OutType ==
  ASSUME NEW S, NEW T, NEW d \in PartialFunctions(S, T), NEW ks
  PROVE  /\ Out(d, ks) \in PartialFunctions(S, T)
         /\ DOMAIN Out(d, ks) = DOMAIN d \ ks
         /\ \A j \in DOMAIN d \ ks : Out(d, ks)[j] = d[j]
<1>1. DOMAIN d \subseteq S /\ d \in [DOMAIN d -> T]
  BY PartialType
<1>2. DOMAIN Out(d, ks) \subseteq S /\ Out(d, ks) \in [DOMAIN Out(d, ks) -> T]
  BY <1>1 DEF Out
<1> QED
  BY <1>2, PartialType DEF Out

LEMMA Values ==
  ASSUME TypeOK
  PROVE  /\ DOMAIN md \subseteq Files /\ \A f \in DOMAIN md : md[f] \in Meta
         /\ DOMAIN ion \subseteq Keys /\ \A k \in DOMAIN ion : ion[k] \in Keys \union {NoKey}
         /\ \A n \in Nodes : node[n] \in FileNode
<1>1. DOMAIN md \subseteq Files /\ md \in [DOMAIN md -> Meta]
  BY PartialType DEF TypeOK, ClientTypeOK
<1>2. DOMAIN ion \subseteq Keys /\ ion \in [DOMAIN ion -> Keys \union {NoKey}]
  BY PartialType DEF TypeOK, ClientTypeOK
<1> QED
  BY <1>1, <1>2 DEF TypeOK

LEMMA KeyFacts ==
  /\ NoKey \notin Keys /\ Gone \notin Keys /\ Zeros \notin Keys /\ Keys \subseteq Nat
  /\ NoKey # Gone /\ NoKey # Zeros /\ Gone # Zeros
BY DEF NoKey, Gone, Zeros, Keys

LEMMA RequestFacts ==
  /\ \A r \in Request : /\ r.path \in Files /\ r.ion_key \in Keys \union {NoKey}
                        /\ r.io_type = "WRITE" <=> r.ion_key \in Keys
                        /\ r.io_type = "READ" <=> r.ion_key = NoKey
  /\ NoRequest \notin Request => NoRequest.ion_key = NoKey
  /\ NoRequest.ion_key = NoKey
BY KeyFacts DEF Request, NoRequest

LEMMA TypedInit == Init => Typed
<1> SUFFICES ASSUME Init PROVE Typed
  OBVIOUS
<1>1. md \in PartialFunctions(Files, Meta) /\ ion \in PartialFunctions(Keys, Keys \union {NoKey})
  BY PartialType DEF Init, ClientInit, Meta
<1>2. ClientTypeOK
  BY <1>1 DEF Init, ClientInit, ClientTypeOK, NoKey
<1>3. TypeOK
  BY <1>2 DEF Init, TypeOK, Pointers, FileNode, Blank, QsIdle, FlIdle, Meta
<1> QED
  BY <1>3 DEF Init, Typed, AtHand, Turns, Recording, Flushing, QsIdle, FlIdle, ClientInit
LEMMA MetaFacts ==
  ASSUME NEW m \in Meta
  PROVE  /\ m.dirty \in BOOLEAN /\ m.head \in Keys \union {NoKey} /\ m.tail \in Keys \union {NoKey}
         /\ m.dirty => m.head \in Keys /\ m.tail \in Keys
         /\ ~m.dirty => m = Clean
<1>1. CASE m = Clean
  BY <1>1 DEF Clean
<1>2. CASE m \in [dirty : {TRUE}, head : Keys, tail : Keys]
  BY <1>2
<1> QED
  BY <1>1, <1>2 DEF Meta


QsType == [pc : {"accept", "print", "md", "tail", "ion", "put", "find", "link"},
           req : Request \union {NoRequest}, at : Keys \union {NoKey},
           md : Meta, fn : Pointers]
FlType == [pc : {"pick", "open", "iod", "out", "ion", "clear", "unlink", "free"},
           fn : Pointers, file : FileNames \union {Null}, head : Keys \union {NoKey},
           isHead : BOOLEAN]

LEMMA IdleTypes == QsIdle \in QsType /\ FlIdle \in FlType /\ Blank \in FileNode /\ Clean \in Meta
BY DEF QsIdle, FlIdle, QsType, FlType, Pointers, Meta, Blank, FileNode

LEMMA DieKeeps ==
  ASSUME Typed, NEW how \in {"fault", "dangling"}, Die(how)
  PROVE  Typed'
BY DEF Die, Typed, TypeOK, ClientTypeOK, AtHand, Turns, Recording, Flushing, dbVars,
       callVars, listVars, history

(* que_out_serv. *)
LEMMA ServTyped ==
  ASSUME Typed, QueOutServ
  PROVE  Typed'
<1> USE DEF Typed, AtHand, Turns, Recording, Flushing
<1>1. /\ TypeOK /\ qs \in QsType /\ fl \in FlType
      /\ \A h \in {"fault", "dangling"} : Die(h) => Typed'
  BY DieKeeps DEF TypeOK, QsType, FlType
<1>2. CASE Accept
  <2>1. /\ backlog' \in Seq(Request) /\ Head(backlog) \in Request
        /\ qs' = [QsIdle EXCEPT !.pc = "print", !.req = Head(backlog)]
    BY <1>1, <1>2 DEF Accept, TypeOK, ClientTypeOK
  <2>2. /\ backlog' \in Seq(Request) /\ qs' \in QsType
        /\ qs'.pc = "print" /\ qs'.req \in Request
    BY <2>1, IdleTypes DEF QsType
  <2> QED
    BY <1>1, <1>2, <2>2
    DEF Accept, TypeOK, ClientTypeOK, QsType, dbVars, listVars, history
<1>3. CASE PrintIon
  <2>1. CASE Die("fault")
    BY <1>1, <2>1
  <2>2. CASE ~Die("fault")
    <3>1. \A m \in Meta : m.head \in Keys \union {NoKey}
      BY MetaFacts
    <3>2. ASSUME IF qs.at = NoKey THEN qs.req.path \in DOMAIN md ELSE qs.at \in DOMAIN ion
          PROVE  NextPrinted \in Keys \union {NoKey}
      BY <1>1, <3>1, <3>2, Values DEF NextPrinted
    <3>3. \E k \in Keys \union {NoKey} :
              qs' = [qs EXCEPT !.at = k, !.pc = IF k = NoKey THEN "md" ELSE @]
      <4>1. \/ qs' = [qs EXCEPT !.at = NoKey, !.pc = "md"]
            \/ /\ IF qs.at = NoKey THEN qs.req.path \in DOMAIN md ELSE qs.at \in DOMAIN ion
               /\ qs' = [qs EXCEPT !.at = NextPrinted,
                            !.pc = IF NextPrinted = NoKey THEN "md" ELSE @]
        BY <1>3, <2>2 DEF PrintIon
      <4> QED
        BY <4>1, <3>2
    <3>4. /\ qs' \in QsType /\ qs'.pc \in {"print", "md"} /\ qs'.req = qs.req
          /\ UNCHANGED <<dbVars, callVars, listVars, md_mutex, fl, state, troubles, history>>
      BY <1>1, <1>3, <2>2, <3>3 DEF PrintIon, QsType
    <3> QED
      BY <1>1, <1>3, <3>4
      DEF PrintIon, TypeOK, ClientTypeOK, QsType, dbVars, callVars, listVars, history
  <2> QED
    BY <2>1, <2>2
<1>4. CASE GetMd
  <2>1. CASE Die("fault")
    BY <1>1, <2>1
  <2>2. CASE ~Die("fault")
    <3>1. /\ qs.req.path \in DOMAIN md /\ md[qs.req.path] \in Meta /\ qs.req \in Request
          /\ qs' = [qs EXCEPT !.md = md[qs.req.path],
                      !.pc = IF qs.req.io_type = "READ" THEN "put"
                             ELSE IF md[qs.req.path].dirty THEN "tail" ELSE "ion"]
      BY <1>1, <1>4, <2>2, Values DEF GetMd
    <3>2. /\ qs' \in QsType /\ qs'.pc \in {"tail", "ion", "put"} /\ qs'.req = qs.req
          /\ qs'.pc # "put" => qs.req.ion_key \in Keys
          /\ qs'.pc = "tail" => qs'.md.dirty
          /\ UNCHANGED <<dbVars, callVars, listVars, fl, state, troubles, history>>
          /\ md_mutex = "free" /\ md_mutex' = "serv"
      BY <1>1, <1>4, <2>2, <3>1, RequestFacts DEF GetMd, QsType
    <3> QED
      BY <1>1, <1>4, <3>2
      DEF GetMd, TypeOK, ClientTypeOK, QsType, dbVars, callVars, listVars, history
  <2> QED
    BY <2>1, <2>2
<1>5. CASE PutTail
  <2>1. CASE Die("fault")
    BY <1>1, <2>1
  <2>2. CASE ~Die("fault")
    <3>1. /\ qs' \in QsType /\ qs'.pc = "ion" /\ qs'.req = qs.req /\ qs.pc = "tail"
      BY <1>1, <1>5, <2>2 DEF PutTail, QsType
    <3>2. /\ ion' = Put(ion, qs.md.tail, qs.req.ion_key) /\ qs.md.tail \in Keys
          /\ qs.req.ion_key \in Keys /\ ion \in PartialFunctions(Keys, Keys \union {NoKey})
      BY <1>1, <1>5, <2>2, Values DEF PutTail, TypeOK, ClientTypeOK
    <3>3. ion' \in PartialFunctions(Keys, Keys \union {NoKey})
      BY <3>2, PutType, ZenonT(60)
    <3> QED
      BY <1>1, <1>5, <2>2, <3>1, <3>3
      DEF PutTail, TypeOK, ClientTypeOK, QsType, callVars, listVars, history
  <2> QED
    BY <2>1, <2>2
<1>6. CASE PutIon
  <2>1. /\ qs' \in QsType /\ qs'.pc = "put" /\ qs'.req = qs.req /\ qs.pc = "ion"
        /\ qs.req.path \in Files /\ qs.req.ion_key \in Keys
    BY <1>1, <1>6, RequestFacts DEF PutIon, QsType
  <2>2. ion' \in PartialFunctions(Keys, Keys \union {NoKey})
    BY <1>1, <1>6, <2>1, PutType DEF PutIon, TypeOK, ClientTypeOK
  <2>3. recorded' \in [Files -> Seq(Keys)]
    BY <1>1, <1>6, <2>1 DEF PutIon, TypeOK
  <2> QED
    BY <1>1, <1>6, <2>1, <2>2, <2>3
    DEF PutIon, TypeOK, ClientTypeOK, QsType, callVars, listVars, history
<1>7. CASE PutMd
  <2> DEFINE m == IF qs.req.io_type = "READ" THEN qs.md ELSE Recorded(qs.md, qs.req.ion_key)
  <2>1. qs.pc = "put" /\ qs.req \in Request /\ qs.md \in Meta
    BY <1>1, <1>7 DEF PutMd, QsType
  <2>2. m \in Meta
    <3>1. CASE qs.req.io_type = "READ"
      BY <2>1, <3>1
    <3>2. CASE qs.req.io_type # "READ"
      <4>1. qs.req.ion_key \in Keys
        BY <2>1, <3>2, RequestFacts
      <4>2. qs.md.dirty => qs.md.head \in Keys
        BY <2>1, MetaFacts
      <4> QED
        BY <3>2, <4>1, <4>2 DEF Recorded, Meta
    <3> QED
      BY <3>1, <3>2
  <2>3. md' \in PartialFunctions(Files, Meta)
    BY <1>1, <1>7, <2>1, <2>2, PutType, RequestFacts DEF PutMd, TypeOK, ClientTypeOK
  <2>4. /\ qs' \in QsType /\ qs'.pc = "find" /\ qs'.req = qs.req
        /\ md_mutex' = "free" /\ state' \in {"fault", "up"}
        /\ UNCHANGED <<ion, iod, dtc, callVars, listVars, fl, troubles, history>>
    BY <1>1, <1>7, IdleTypes DEF PutMd, QsType
  <2> QED
    BY <1>1, <2>1, <2>3, <2>4
    DEF TypeOK, ClientTypeOK, QsType, callVars, listVars, history
<1>8. CASE GetFn
  <2>1. CASE Die("dangling")
    BY <1>1, <2>1
  <2>2. CASE ~Die("dangling")
    <3>1. /\ qs' \in QsType /\ qs'.pc = "link" /\ qs.pc = "find" /\ qs'.req = qs.req
          /\ UNCHANGED <<dbVars, callVars, listVars, md_mutex, fl, state, troubles, history>>
      BY <1>1, <1>8, <2>2, ZenonT(60) DEF GetFn, QsType, TypeOK, Pointers
    <3> QED
      BY <1>1, <3>1
      DEF TypeOK, ClientTypeOK, QsType, dbVars, callVars, listVars, history
  <2> QED
    BY <2>1, <2>2
<1>9. CASE AddToHead
  <2>1. CASE Die("dangling")
    BY <1>1, <2>1
  <2>2. CASE ~Die("dangling")
    <3>1. PICK fn \in Nodes : 
             /\ \E n \in IF qs.fn = Null THEN NewNodes(qs.req.path) ELSE {node[fn]} :
                   /\ node' = Linked(fn, n)
                   /\ stray' \subseteq stray \union {qs.req.path}
             /\ live' = live \union {fn} /\ (fn \in live \/ qs.fn = Null)
             /\ file_node_list_head' = fn
             /\ update' = IF update = Null THEN fn ELSE update
             /\ {qs.fn, file_node_list_head} \subseteq live \union {Null}
      BY <1>1, <1>9, <2>2 DEF AddToHead, TypeOK
    <3>2. PICK n : /\ n \in IF qs.fn = Null THEN NewNodes(qs.req.path) ELSE {node[fn]}
                   /\ node' = Linked(fn, n) /\ stray' \subseteq stray \union {qs.req.path}
      BY <3>1
    <3>3. /\ qs.req.path \in Files /\ live \subseteq Nodes /\ node \in [Nodes -> FileNode]
          /\ \A a \in live : node[a].file_name \in FileNames
          /\ file_node_list_head = Null \/ file_node_list_head \in live
          /\ \A a \in Nodes : node[a].next \in Pointers
      BY <1>1, <1>9, <3>1, RequestFacts DEF AddToHead, TypeOK, FileNode
    <3>4. n \in FileNode /\ n.file_name \in FileNames
      <4>1. CASE qs.fn = Null
        <5>1. PICK g \in FileNames : n = [Blank EXCEPT !.file_name = g]
          BY <3>2, <3>3, <4>1 DEF NewNodes
        <5> QED
          BY <3>3, <5>1 DEF FileNode, Blank, Pointers
      <4>2. CASE qs.fn # Null
        BY <3>3, <3>1, <3>2, <4>2
      <4> QED
        BY <4>1, <4>2
    <3>5. AsHead(n) \in FileNode /\ AsHead(n).file_name \in FileNames
      BY <3>3, <3>4 DEF AsHead, FileNode, Pointers
    <3>6. [node EXCEPT ![fn] = AsHead(n)] \in [Nodes -> FileNode]
      BY <3>3, <3>5
    <3> DEFINE NodesFine == /\ node' \in [Nodes -> FileNode]
                          /\ \A a \in live' : node'[a].file_name \in FileNames
    <3>7. ASSUME file_node_list_head = Null PROVE NodesFine
      <4>1. node' = [node EXCEPT ![fn] = AsHead(n)]
        BY <3>2, <3>7 DEF Linked
      <4> QED
        BY <3>3, <3>1, <3>5, <3>6, <4>1
    <3>8. ASSUME file_node_list_head # Null PROVE NodesFine
      <4> DEFINE w == [node EXCEPT ![fn] = AsHead(n)]
                 h == file_node_list_head
      <4>1. node' = [w EXCEPT ![h] = [w[h] EXCEPT !.prev = fn]] /\ h \in Nodes
        BY <3>3, <3>2, <3>8 DEF Linked
      <4>2. [w[h] EXCEPT !.prev = fn] \in FileNode
        BY <3>6, <4>1 DEF FileNode, Pointers
      <4>3. [w[h] EXCEPT !.prev = fn].file_name = w[h].file_name
        BY <3>6, <4>1 DEF FileNode
      <4>4. \A a \in Nodes : node'[a].file_name = w[a].file_name
        BY <3>6, <4>1, <4>3
      <4> QED
        <5>1. node' \in [Nodes -> FileNode]
          BY <3>6, <4>1, <4>2
        <5>2. \A a \in live' : w[a].file_name \in FileNames
          BY <3>3, <3>1, <3>5
        <5>3. live' \subseteq Nodes
          BY <3>3, <3>1
        <5> QED
          BY <5>1, <5>2, <5>3, <4>4
    <3>9. NodesFine
      BY <3>7, <3>8
    <3>10. /\ qs' = QsIdle /\ calm' \in BOOLEAN /\ qs.pc = "link"
           /\ UNCHANGED <<dbVars, callVars, md_mutex, fl, state, troubles, recorded, hurt>>
           /\ stray' \subseteq FileNames
      BY <1>1, <1>9, <2>2, <3>2, <3>3 DEF AddToHead, TypeOK
    <3>11. /\ live' \subseteq Nodes /\ live \subseteq live'
           /\ file_node_list_head' \in Pointers /\ update' \in Pointers
      BY <1>1, <3>1 DEF TypeOK, Pointers
    <3>12. qs' \in QsType /\ qs'.pc = "accept"
      BY <3>10, IdleTypes DEF QsIdle
    <3> QED
      BY <1>1, <3>9, <3>10, <3>11, <3>12
      DEF TypeOK, ClientTypeOK, QsType, dbVars, callVars
  <2> QED
    BY <2>1, <2>2
<1> QED
  BY <1>2, <1>3, <1>4, <1>5, <1>6, <1>7, <1>8, <1>9 DEF QueOutServ

(* flush2data_center. *)
LEMMA GiveUpTyped ==
  ASSUME Typed, GiveUp, fl.pc = "open" \/ md_mutex = "flush",
         backlog' = backlog \/ (backlog # <<>> /\ backlog' = Tail(backlog)),
         hurt' = hurt \/ (Flushing /\ hurt' = hurt \union {fl.file}),
         stray' = stray \/ (fl.pc # "pick" /\ stray' = stray \union {fl.file}),
         md_mutex # "serv"
  PROVE  Typed'
<1> USE DEF Typed, AtHand, Turns, Recording, Flushing
<1>1. backlog' \in Seq(Request)
  <2>1. backlog \in Seq(Request)
    BY DEF TypeOK, ClientTypeOK
  <2>2. backlog # <<>> => Tail(backlog) \in Seq(Request)
    BY <2>1
  <2> QED
    BY <2>1, <2>2
<1>2. backlog' \in Seq(Request) /\ hurt' \subseteq Files /\ stray' \subseteq FileNames
  BY <1>1 DEF TypeOK
<1>3. /\ fl' = FlIdle /\ fl' \in FlType /\ fl'.pc = "pick" /\ md_mutex' = "free"
      /\ UNCHANGED <<dbVars, used, writing, removing, listVars, qs, state, troubles, recorded, calm>>
  BY IdleTypes DEF GiveUp, FlIdle
<1>4. ClientTypeOK'
  BY <1>2, <1>3 DEF TypeOK, ClientTypeOK, dbVars
<1>5. TypeOK'
  BY <1>2, <1>3, <1>4 DEF TypeOK, listVars, FlType
<1> QED
  BY <1>3, <1>5 DEF listVars, TypeOK

LEMMA FlushTyped ==
  ASSUME Typed, Flush
  PROVE  Typed'
<1> USE DEF Typed, AtHand, Turns, Recording, Flushing
<1>1. /\ TypeOK /\ qs \in QsType /\ fl \in FlType
      /\ \A h \in {"fault", "dangling"} : Die(h) => Typed'
  BY DieKeeps DEF TypeOK, QsType, FlType
<1>2. CASE Pick
  <2>1. CASE Die("dangling")
    BY <1>1, <2>1
  <2>2. CASE ~Die("dangling")
    <3>1. /\ update \in live /\ update \in Nodes /\ node[update].file_name \in FileNames
          /\ node[update].prev \in Pointers
      BY <1>1, <1>2, <2>2, Values DEF Pick, TypeOK, FileNode
    <3>2. /\ fl' \in FlType /\ fl'.pc = "open" /\ fl'.fn \in live /\ fl'.file \in FileNames
          /\ fl.pc = "pick" /\ update' \in Pointers
          /\ UNCHANGED <<dbVars, callVars, file_node_list_head, node, live,
                         md_mutex, qs, state, troubles, history>>
      BY <1>1, <1>2, <2>2, <3>1 DEF Pick, FlType, Pointers
    <3> QED
      BY <1>1, <3>2 DEF TypeOK, ClientTypeOK, FlType, dbVars, callVars, history
  <2> QED
    BY <2>1, <2>2
<1>3. CASE Open
  <2>1. CASE Die("fault")
    BY <1>1, <2>1
  <2>2. CASE GiveUp
    <3>1. /\ fl.pc = "open" /\ md_mutex = "free"
          /\ backlog' = backlog \/ (backlog # <<>> /\ backlog' = Tail(backlog))
          /\ hurt' = hurt
          /\ stray' = stray \/ stray' = stray \union {fl.file}
      BY <1>1, <1>3, <2>2 DEF Open, CloseStaleFd, LeaveDirty, Die, callVars, history
    <3> QED
      BY <1>1, <2>2, <3>1, GiveUpTyped
  <2>3. CASE ~Die("fault") /\ ~GiveUp
    <3>1. /\ fl.pc = "open" /\ md_mutex = "free" /\ md_mutex' = "flush"
          /\ fl.file \in DOMAIN md
          /\ fl' = [fl EXCEPT !.pc = "iod", !.head = md[fl.file].head]
          /\ UNCHANGED <<dbVars, callVars, listVars, qs, state, troubles, history>>
      BY <1>1, <1>3, <2>3 DEF Open, FlushMissing, LeaveDirty
    <3>2. /\ fl' \in FlType /\ fl'.pc = "iod" /\ fl'.fn = fl.fn /\ fl'.file = fl.file
          /\ fl.file \in Files
      BY <1>1, <3>1, Values, MetaFacts DEF FlType
    <3> QED
      BY <1>1, <3>1, <3>2
      DEF TypeOK, ClientTypeOK, FlType, dbVars, callVars, listVars, history
  <2> QED
    BY <2>1, <2>2, <2>3
<1>4. CASE WriteIod
  <2>1. CASE Die("fault")
    BY <1>1, <2>1
  <2>2. CASE ~Die("fault")
    <3>1. /\ fl.pc = "iod" /\ fl.head \in DOMAIN ion /\ fl.head \in Keys
          /\ fl' = [fl EXCEPT !.pc = "out"]
          /\ dtc' = [dtc EXCEPT ![fl.file] =
                       IF @ = Gone THEN Gone ELSE IF fl.head \in iod THEN fl.head ELSE Zeros]
          /\ UNCHANGED <<md, ion, iod, callVars, listVars, md_mutex, qs, state, troubles, history>>
      BY <1>1, <1>4, <2>2, Values DEF WriteIod
    <3>2. /\ fl' \in FlType /\ fl'.pc = "out" /\ fl'.fn = fl.fn /\ fl'.file = fl.file
          /\ fl'.head = fl.head
      BY <1>1, <3>1 DEF FlType
    <3>3. dtc' \in [Files -> Keys \union {NoKey, Gone, Zeros}]
      BY <1>1, <3>1 DEF TypeOK, ClientTypeOK
    <3> QED
      BY <1>1, <3>1, <3>2, <3>3
      DEF TypeOK, ClientTypeOK, FlType, callVars, listVars, history
  <2> QED
    BY <2>1, <2>2
<1>10. CASE OutIod
  <2>1. CASE fl.head \notin iod
    <3>1. /\ GiveUp /\ fl.pc = "out" /\ md_mutex = "flush"
          /\ backlog' = backlog /\ hurt' = hurt \union {fl.file}
          /\ stray' = stray \union {fl.file}
      BY <1>1, <1>10, <2>1 DEF OutIod, LeaveHurt, LeaveDirty
    <3> QED
      BY <1>1, <3>1, GiveUpTyped
  <2>2. CASE fl.head \in iod
    <3>1. /\ fl.pc = "out" /\ fl' = [fl EXCEPT !.pc = "ion"] /\ iod' \subseteq iod
          /\ UNCHANGED <<md, ion, dtc, callVars, listVars, md_mutex, qs, state, troubles, history>>
      BY <1>10, <2>2 DEF OutIod
    <3>2. /\ fl' \in FlType /\ fl'.pc = "ion" /\ fl'.fn = fl.fn /\ fl'.file = fl.file
          /\ fl'.head = fl.head
      BY <1>1, <3>1 DEF FlType
    <3> QED
      BY <1>1, <3>1, <3>2
      DEF TypeOK, ClientTypeOK, FlType, callVars, listVars, history
  <2> QED
    BY <2>1, <2>2
<1>5. CASE OutIon
  <2>1. CASE fl.head \notin DOMAIN ion
    <3>1. /\ GiveUp /\ fl.pc = "ion" /\ md_mutex = "flush"
          /\ backlog' = backlog /\ hurt' = hurt \union {fl.file}
          /\ stray' = stray \union {fl.file}
      BY <1>1, <1>5, <2>1 DEF OutIon, LeaveHurt, LeaveDirty
    <3> QED
      BY <1>1, <3>1, GiveUpTyped
  <2>2. CASE fl.head \in DOMAIN ion
    <3>1. /\ fl.pc = "ion" /\ ion' = Out(ion, Flushed(fl.head))
          /\ fl' = [fl EXCEPT !.pc = IF ion[fl.head] = NoKey THEN "clear" ELSE "iod",
                                !.head = ion[fl.head]]
          /\ UNCHANGED <<md, iod, dtc, callVars, listVars, md_mutex, qs, state, troubles, history>>
      BY <1>5, <2>2 DEF OutIon
    <3>2. /\ fl' \in FlType /\ fl'.pc \in {"iod", "clear"} /\ fl'.fn = fl.fn /\ fl'.file = fl.file
      BY <1>1, <2>2, <3>1, Values DEF FlType
    <3>3. ion' \in PartialFunctions(Keys, Keys \union {NoKey})
      BY <1>1, <3>1, OutType DEF TypeOK, ClientTypeOK
    <3> QED
      BY <1>1, <3>1, <3>2, <3>3
      DEF TypeOK, ClientTypeOK, FlType, callVars, listVars, history
  <2> QED
    BY <2>1, <2>2
<1>6. CASE CallFails
  <2>1. /\ GiveUp /\ md_mutex = "flush" /\ Flushing /\ fl.pc # "pick"
        /\ backlog' = backlog /\ hurt' = hurt \union {fl.file}
        /\ stray' = stray \union {fl.file}
    BY <1>1, <1>6 DEF CallFails, LeaveHurt, LeaveDirty
  <2> QED
    BY <1>1, <2>1, GiveUpTyped
<1>7. CASE ClearMd
  <2>1. /\ fl' \in FlType /\ fl'.pc = "unlink" /\ fl.pc = "clear"
        /\ fl'.fn = fl.fn /\ fl'.file = fl.file
        /\ UNCHANGED <<ion, iod, dtc, callVars, listVars, md_mutex, qs, state, troubles, recorded,
                       calm>>
    BY <1>1, <1>7 DEF ClearMd, FlType
  <2>2. hurt' \subseteq Files /\ stray' \subseteq FileNames
    BY <1>1, <1>7 DEF ClearMd, TypeOK
  <2>3. md' \in PartialFunctions(Files, Meta)
    <3>1. \/ md' = md
          \/ md' = Put(md, fl.file, Clean)
      BY <1>7 DEF ClearMd, Cleared
    <3>2. fl.file \in Files /\ Clean \in Meta /\ md \in PartialFunctions(Files, Meta)
      BY <1>1, <2>1, IdleTypes DEF TypeOK, ClientTypeOK
    <3> QED
      <4>1. Put(md, fl.file, Clean) \in PartialFunctions(Files, Meta)
        BY <3>2, PutType
      <4> QED
        BY <3>1, <3>2, <4>1
  <2> QED
    BY <1>1, <2>1, <2>2, <2>3 DEF TypeOK, ClientTypeOK, FlType, callVars, listVars
<1>8. CASE Unlink
  <2>1. CASE Die("dangling")
    BY <1>1, <2>1
  <2>2. CASE ~Die("dangling")
    <3> DEFINE p == node[fl.fn].prev
               n == node[fl.fn].next
    <3>1. /\ fl.pc = "unlink"
          /\ fl' = [fl EXCEPT !.pc = "free", !.isHead = fl.fn = file_node_list_head]
          /\ node' = [a \in Nodes |->
                IF a = p THEN [node[a] EXCEPT !.next = n]
                ELSE IF a = n THEN [node[a] EXCEPT !.prev = p] ELSE node[a]]
          /\ UNCHANGED <<dbVars, callVars, file_node_list_head, update, live,
                         md_mutex, qs, state, troubles, history>>
      BY <1>8, <2>2 DEF Unlink
    <3>2. fl' \in FlType /\ fl'.pc = "free" /\ fl'.fn = fl.fn /\ fl'.file = fl.file
      BY <1>1, <3>1 DEF FlType
    <3>3. p \in Pointers /\ n \in Pointers
      BY <1>1, <3>1, Values DEF TypeOK, FileNode
    <3> HIDE DEF p, n
    <3>4. \A a \in Nodes : /\ node'[a] \in FileNode
                           /\ node'[a].file_name = node[a].file_name
      BY <1>1, <3>1, <3>3, Values DEF FileNode
    <3>5. node' \in [Nodes -> FileNode]
      BY <3>1, <3>4
    <3> QED
      BY <1>1, <3>1, <3>2, <3>4, <3>5, ZenonT(60) DEF TypeOK, ClientTypeOK, FlType, dbVars, callVars, history
  <2> QED
    BY <2>1, <2>2
<1>9. CASE Free
  <2>1. /\ fl.pc = "free" /\ fl' \in FlType /\ fl'.pc = "pick" /\ md_mutex' = "free"
        /\ md_mutex = "flush"
        /\ node' = [node EXCEPT ![fl.fn] = Blank] /\ live' = live \ {fl.fn}
        /\ UNCHANGED <<dbVars, callVars, qs, state, troubles, recorded, hurt, stray>>
        /\ calm' \in BOOLEAN
    BY <1>1, <1>9, IdleTypes DEF Free, FlIdle, TypeOK
  <2>2. file_node_list_head' \in Pointers /\ update' \in Pointers
    BY <1>1, <1>9, Values DEF Free, TypeOK, FileNode
  <2>3. /\ node' \in [Nodes -> FileNode] /\ live' \subseteq Nodes
        /\ \A a \in live' : node'[a] = node[a] /\ a \in live
    BY <1>1, <2>1, IdleTypes DEF TypeOK
  <2> QED
    BY <1>1, <2>1, <2>2, <2>3 DEF TypeOK, ClientTypeOK, FlType, dbVars, callVars, history
<1> QED
  BY <1>2, <1>3, <1>4, <1>5, <1>6, <1>7, <1>8, <1>9, <1>10 DEF Flush

(* The calls of the clients, and a restart. *)
serverAndList == <<listVars, md_mutex, qs, fl, state>>

LEMMA ClientTyped ==
  ASSUME Typed, ClientTypeOK', \A r \in writing' : r.ion_key \in Keys,
         UNCHANGED <<serverAndList, recorded, stray, calm>>, hurt' \subseteq Files,
         troubles' \in 0..MaxTroubles
  PROVE  Typed'
BY DEF Typed, TypeOK, AtHand, Turns, Recording, Flushing, serverAndList, listVars

LEMMA CallTyped ==
  ASSUME Typed, NEW f \in Files, Call(f), UNCHANGED <<listVars, serverVars, recorded, stray, calm>>
  PROVE  Typed'
<1>1. /\ ClientTypeOK /\ \A r \in writing : r.ion_key \in Keys
      /\ hurt' = hurt /\ hurt \subseteq Files /\ troubles' \in 0..MaxTroubles
      /\ UNCHANGED <<serverAndList, recorded, stray, calm>>
  BY DEF Typed, TypeOK, AtHand, Call, serverVars, serverAndList
<1>2. CASE WriteFile(f)
  <2>1. used + 1 \in Keys /\ used' \in 0..MaxCalls
    BY <1>1, <1>2 DEF WriteFile, ClientTypeOK, Keys
  <2>2. [io_type |-> "WRITE", path |-> f, ion_key |-> used + 1] \in Request
    BY <2>1 DEF Request
  <2> QED
    BY <1>1, <1>2, <2>1, <2>2, ClientTyped DEF WriteFile, ClientTypeOK
<1>3. CASE ReadFile(f)
  <2>1. used' \in 0..MaxCalls
    BY <1>1, <1>3 DEF ReadFile, ClientTypeOK
  <2>2. [io_type |-> "READ", path |-> f, ion_key |-> NoKey] \in Request
    BY DEF Request
  <2>3. backlog' \in Seq(Request)
    BY <1>1, <1>3, <2>2 DEF ReadFile, ClientTypeOK
  <2> QED
    BY <1>1, <1>3, <2>1, <2>3, ClientTyped DEF ReadFile, ClientTypeOK, dbVars
<1>4. CASE DeInitFile(f)
  <2>1. /\ md' = md \/ md' = Out(md, {f})
        /\ ion' = ion \/ \E ks : ion' = Out(ion, ks)
        /\ iod' \subseteq iod /\ removing' \subseteq removing
        /\ UNCHANGED <<dtc, used, writing, backlog>>
    BY <1>4 DEF DeInitFile
  <2>2. md' \in PartialFunctions(Files, Meta)
    <3>1. md \in PartialFunctions(Files, Meta)
      BY <1>1 DEF ClientTypeOK
    <3>2. Out(md, {f}) \in PartialFunctions(Files, Meta)
      BY <3>1, OutType
    <3> QED
      BY <2>1, <3>1, <3>2
  <2>3. ion' \in PartialFunctions(Keys, Keys \union {NoKey})
    <3>1. ion \in PartialFunctions(Keys, Keys \union {NoKey})
      BY <1>1 DEF ClientTypeOK
    <3>2. \A ks : Out(ion, ks) \in PartialFunctions(Keys, Keys \union {NoKey})
      BY <3>1, OutType
    <3> QED
      BY <2>1, <3>1, <3>2
  <2> QED
    BY <1>1, <2>1, <2>2, <2>3, ClientTyped DEF ClientTypeOK
<1> QED
  BY <1>2, <1>3, <1>4 DEF Call

LEMMA QueOutTyped ==
  ASSUME Typed, NEW r \in writing, QueOut(r),
         UNCHANGED <<listVars, serverVars, recorded, stray, calm, hurt>>
  PROVE  Typed'
<1>1. /\ backlog' \in Seq(Request) /\ writing' \subseteq writing
      /\ UNCHANGED <<dbVars, used, removing>>
  BY DEF Typed, TypeOK, ClientTypeOK, QueOut
<1>2. ClientTypeOK'
  BY <1>1 DEF Typed, TypeOK, ClientTypeOK, dbVars
<1> QED
  BY <1>1, <1>2, ClientTyped DEF Typed, TypeOK, AtHand, serverVars, serverAndList

LEMMA ReplaceTyped ==
  ASSUME Typed, NEW f \in Files, Replace(f)
  PROVE  Typed'
<1>1. /\ ClientTypeOK /\ \A r \in writing : r.ion_key \in Keys
      /\ hurt' \subseteq Files /\ troubles' \in 0..MaxTroubles
      /\ UNCHANGED <<serverAndList, recorded, stray, calm>>
  BY DEF Typed, TypeOK, AtHand, Replace, serverAndList
<1>2. CASE CreateFile(f)
  <2>1. md' \in PartialFunctions(Files, Meta)
    BY <1>1, <1>2, PutType, IdleTypes DEF CreateFile, ClientTypeOK
  <2>2. dtc' \in [Files -> Keys \union {NoKey, Gone, Zeros}]
    BY <1>1, <1>2 DEF CreateFile, ClientTypeOK
  <2> QED
    BY <1>1, <1>2, <2>1, <2>2, ClientTyped DEF CreateFile, ClientTypeOK, callVars
<1>3. CASE Remove(f)
  <2>1. dtc' \in [Files -> Keys \union {NoKey, Gone, Zeros}]
    BY <1>1, <1>3 DEF Remove, ClientTypeOK
  <2> QED
    BY <1>1, <1>3, <2>1, ClientTyped DEF Remove, ClientTypeOK
<1> QED
  BY <1>2, <1>3 DEF Replace

LEMMA RestartTyped ==
  ASSUME Typed, Restart
  PROVE  Typed'
<1> USE DEF Typed, AtHand, Turns, Recording, Flushing
<1>1. /\ backlog' = <<>> /\ UNCHANGED <<dbVars, used, writing, removing, recorded>>
      /\ file_node_list_head' = Null /\ update' = Null
      /\ node' = [n \in Nodes |-> Blank] /\ live' = {}
      /\ md_mutex' = "free" /\ qs' = QsIdle /\ fl' = FlIdle /\ state' = "up"
      /\ troubles' \in 0..MaxTroubles /\ calm' = TRUE
      /\ stray' \subseteq DOMAIN md
  BY DEF Restart, ServerStart, TypeOK
<1>2. stray' \subseteq FileNames
  <2>1. DOMAIN md \subseteq Files
    BY Values
  <2> QED
    BY <1>1, <2>1
<1>3. hurt' \subseteq Files
  <2>1. CASE md_mutex = "free"
    BY <2>1 DEF Restart, TypeOK
  <2>2. CASE md_mutex = "serv"
    BY <2>2, RequestFacts DEF Restart, TypeOK
  <2>3. CASE md_mutex = "flush"
    BY <2>3 DEF Restart, TypeOK
  <2> QED
    BY <2>1, <2>2, <2>3 DEF TypeOK
<1>4. /\ qs' \in QsType /\ fl' \in FlType /\ qs'.pc = "accept" /\ fl'.pc = "pick"
      /\ node' \in [Nodes -> FileNode]
  BY <1>1, IdleTypes DEF QsIdle, FlIdle
<1>5. ClientTypeOK'
  BY <1>1 DEF TypeOK, ClientTypeOK, dbVars
<1>6. TypeOK'
  BY <1>1, <1>2, <1>3, <1>4, <1>5 DEF TypeOK, QsType, FlType, Pointers
<1> QED
  BY <1>1, <1>4, <1>6

LEMMA TypedStep == Typed /\ [Next]_vars => Typed'
<1>1. CASE UNCHANGED vars
  BY <1>1 DEF vars, Typed, TypeOK, ClientTypeOK, AtHand, Turns, Recording, Flushing, dbVars,
       callVars, listVars, serverVars, history
<1>2. ASSUME Typed, Next PROVE Typed'
  BY <1>2, ServTyped, FlushTyped, CallTyped, QueOutTyped, ReplaceTyped, RestartTyped DEF Next
<1> QED
  BY <1>1, <1>2

(* Type correctness: every thread has what its step needs, a thread holds md_mutex
   exactly while it records or flushes, and no database holds anything else than
   keys and the two states of the metadata. *)
THEOREM CacheTypeCorrect == Spec => []TypeOK
<1>1. Typed => TypeOK
  BY DEF Typed
<1> QED
  BY TypedInit, TypedStep, <1>1, PTL DEF Spec
-----------------------------------------------------------------------------
(* Every write has a key of its own, which is in one place: with the client, in
   a request, with que_out_serv or recorded. *)
Members(R) == {R[i] : i \in 1..Len(R)}
Listed(f) == Members(recorded[f])

RecordedOnce ==
    \A f, g \in Files : \A i \in 1..Len(recorded[f]), j \in 1..Len(recorded[g]) :
        recorded[f][i] = recorded[g][j] => f = g /\ i = j

KnownKeys ==
    /\ iod \subseteq 1..used
    /\ \A f \in Files : Listed(f) \subseteq 1..used
    /\ \A k \in DOMAIN ion : \E f \in Files : k \in Listed(f)
    /\ \A k \in DOMAIN ion : ion[k] <= used

Unrecorded(k) == k \in iod /\ \A f \in Files : k \notin Listed(f)
New(k) == Unrecorded(k) /\ \A j \in DOMAIN ion : ion[j] # k

InHand == IF qs.pc \in {"print", "md", "tail", "ion"} THEN qs.req.ion_key ELSE NoKey

WritingNew ==
    /\ \A r \in writing : New(r.ion_key)
    /\ \A r, s \in writing : r.ion_key = s.ion_key => r = s

BacklogNew ==
    /\ \A i \in 1..Len(backlog) : backlog[i].ion_key # NoKey =>
          New(backlog[i].ion_key) /\ \A r \in writing : backlog[i].ion_key # r.ion_key
    /\ \A i, j \in 1..Len(backlog) :
          backlog[i].ion_key # NoKey /\ backlog[i].ion_key = backlog[j].ion_key => i = j

InHandNew ==
    InHand # NoKey =>
        /\ Unrecorded(InHand)
        /\ \A r \in writing : InHand # r.ion_key
        /\ \A i \in 1..Len(backlog) : InHand # backlog[i].ion_key
        /\ \A j \in DOMAIN ion : ion[j] = InHand => qs.pc = "ion" /\ j \in Listed(qs.req.path)

Waiting == WritingNew /\ BacklogNew /\ InHandNew

(* The links of a file lead to keys that were recorded later. *)
LinksForward ==
    \A f \in Files : \A i \in 1..Len(recorded[f]) :
        recorded[f][i] \in DOMAIN ion /\ ion[recorded[f][i]] \in DOMAIN ion =>
            \E j \in 1..Len(recorded[f]) : i < j /\ ion[recorded[f][i]] = recorded[f][j]
-----------------------------------------------------------------------------
(* What the data centre has of a file is recorded; a head from which the flush
   could still write is not earlier. *)
After(R, dt, h) == \A i, j \in 1..Len(R) : dt = R[i] /\ h = R[j] => i <= j
IfThere(R, dt, io, id, h) == h \in DOMAIN io /\ h \in id => After(R, dt, h)

Owned(R, dt, io, id, m) ==
    m.head \in Members(R) /\ m.tail \in Members(R) /\ IfThere(R, dt, io, id, m.head)

Reached == \A f \in Files : dtc[f] \in Listed(f) \union {NoKey, Gone, Zeros}

MdHeads == \A f \in DOMAIN md : md[f].dirty => Owned(recorded[f], dtc[f], ion, iod, md[f])

CopyHeads ==
    Recording /\ qs.md.dirty =>
        Owned(recorded[qs.req.path], dtc[qs.req.path], ion, iod, qs.md)

NewHead ==
    qs.pc = "put" /\ qs.req.io_type = "WRITE" =>
        /\ recorded[qs.req.path] # <<>>
        /\ recorded[qs.req.path][Len(recorded[qs.req.path])] = qs.req.ion_key
        /\ After(recorded[qs.req.path], dtc[qs.req.path], qs.req.ion_key)

FlushHead ==
    /\ fl.pc = "iod" /\ fl.head \in DOMAIN ion => fl.head \in Listed(fl.file)
    /\ fl.pc = "iod" => IfThere(recorded[fl.file], dtc[fl.file], ion, iod, fl.head)
    /\ fl.pc \in {"iod", "out"} /\ fl.file \in DOMAIN md /\ md[fl.file].dirty =>
          md[fl.file].head = fl.head \/ md[fl.file].head \notin iod
    /\ fl.pc \in {"out", "ion"} =>
          fl.head \in Listed(fl.file) /\ dtc[fl.file] \in {fl.head, NoKey, Gone, Zeros}
    /\ fl.pc \in {"ion", "clear"} /\ fl.file \in DOMAIN md /\ md[fl.file].dirty =>
          md[fl.file].head \notin iod

Heads == Reached /\ MdHeads /\ CopyHeads /\ NewHead /\ FlushHead
-----------------------------------------------------------------------------
(* A file that is not hurt: its first keys are in the data centre, and the
   others, from d + 1 on, are chained, stored and named by its metadata. *)
RecordingOf(f) == Recording /\ qs.req.path = f
Writing(f) == RecordingOf(f) /\ qs.req.io_type = "WRITE"
Busy(f) == fl.pc \in {"iod", "out", "ion", "clear"} /\ fl.file = f

Last(f) == IF Writing(f) /\ qs.pc = "ion" /\ qs.md.dirty THEN qs.req.ion_key ELSE NoKey
Known(f) == IF Writing(f) /\ qs.pc = "put" THEN Len(recorded[f]) - 1 ELSE Len(recorded[f])
Stored(f, d) == IF Busy(f) /\ fl.pc \in {"out", "ion"} THEN d + 1 ELSE d

Kept(R, d, s, last, io, id, dt) ==
    /\ d \in 0..Len(R) /\ s \in 0..Len(R)
    /\ \A i \in (d + 1)..Len(R) :
          R[i] \in DOMAIN io /\ io[R[i]] = IF i = Len(R) THEN last ELSE R[i + 1]
    /\ \A i \in (s + 1)..Len(R) : R[i] \in id
    /\ dt = IF s = 0 THEN NoKey ELSE R[s]

MetaFor(R, d, n) ==
    IF d = n THEN Clean ELSE [dirty |-> TRUE, head |-> R[d + 1], tail |-> R[n]]

Standing(f, d) ==
    /\ Kept(recorded[f], d, Stored(f, d), Last(f), ion, iod, dtc[f])
    /\ f \in DOMAIN md /\ d <= Known(f)
    /\ ~Busy(f) => md[f] = MetaFor(recorded[f], d, Known(f))
    /\ RecordingOf(f) => qs.md = md[f]
    /\ Busy(f) /\ fl.pc \in {"iod", "out", "ion"} =>
          d < Len(recorded[f]) /\ fl.head = recorded[f][d + 1]
    /\ Busy(f) /\ fl.pc = "clear" => d = Len(recorded[f])

Standings == \A f \in Files \ hurt : \E d \in 0..Len(recorded[f]) : Standing(f, d)

GoneIsHurt == removing \subseteq hurt

Records == RecordedOnce /\ KnownKeys /\ LinksForward

Rest == Records /\ Waiting /\ Heads /\ Standings /\ GoneIsHurt
IInv == Typed /\ Rest
-----------------------------------------------------------------------------
(* What most steps have in common: nothing is recorded or linked, keys only
   leave the databases, and no data centre file moves on. *)
KeyFrame ==
    /\ recorded' = recorded
    /\ used <= used'
    /\ iod' \subseteq 1..used'
    /\ \A k \in iod' : k \in iod \/ k > used
    /\ \A k \in iod : k \in iod' \/ k \in DOMAIN ion \/ \E f \in Files : k \in Listed(f)
    /\ \A k \in DOMAIN ion' : k \in DOMAIN ion /\ ion'[k] = ion[k]

DbFrame ==
    /\ KeyFrame
    /\ \A f \in Files : dtc'[f] \in {dtc[f], NoKey, Gone}
    /\ \A f \in DOMAIN md' : md'[f] = Clean \/ (f \in DOMAIN md /\ md'[f] = md[f])

DbSame == UNCHANGED <<recorded, used, iod, ion, dtc, md>>

LEMMA SameIsFrame ==
  ASSUME Typed, Records, DbSame
  PROVE  DbFrame
<1>1. used \in Int
  BY DEF Typed, TypeOK, ClientTypeOK
<1> QED
  BY <1>1 DEF DbSame, DbFrame, KeyFrame, Records, KnownKeys

LEMMA RecordedFacts ==
  ASSUME Typed
  PROVE  /\ \A f \in Files : /\ Len(recorded[f]) \in Nat /\ recorded[f] \in Seq(Keys)
                             /\ Listed(f) \subseteq Keys
                             /\ \A i \in 1..Len(recorded[f]) :
                                   recorded[f][i] \in Keys /\ recorded[f][i] \in Listed(f)
         /\ used \in Nat
<1>1. recorded \in [Files -> Seq(Keys)]
  BY DEF Typed, TypeOK
<1>2. used \in Nat
  BY DEF Typed, TypeOK, ClientTypeOK
<1> QED
  BY <1>1, <1>2 DEF Listed, Members

LEMMA RecordsFrame ==
  ASSUME Typed, Typed', Records, KeyFrame
  PROVE  /\ Records' /\ \A f \in Files : Listed(f)' = Listed(f)
         /\ \A f \in Files : \A k \in Listed(f) : k \in iod' => k \in iod
<1>1. \A f \in Files : Listed(f)' = Listed(f)
  BY DEF KeyFrame, Listed
<1>2. RecordedOnce' /\ LinksForward'
  BY DEF KeyFrame, Records, RecordedOnce, LinksForward
<1>3. used \in Nat /\ used' \in Nat
  BY RecordedFacts DEF Typed, TypeOK, ClientTypeOK
<1>4. \A k \in DOMAIN ion : ion[k] \in Nat
  <2>1. Keys \union {NoKey} \subseteq Nat
    BY DEF Keys, NoKey
  <2> QED
    BY <2>1, Values DEF Typed
<1>5. \A f \in Files : \A k \in Listed(f) : k \in Nat /\ k <= used
  BY <1>3 DEF Records, KnownKeys
<1>6. KnownKeys'
  <2>1. iod' \subseteq 1..used'
    BY DEF KeyFrame
  <2>2. \A f \in Files : \A k \in Listed(f) : k \in 1..used'
    BY <1>3, <1>5, KeyFacts, RecordedFacts DEF KeyFrame, Records, KnownKeys
  <2>3. \A k \in DOMAIN ion' : \E f \in Files : k \in Listed(f)'
    BY <1>1 DEF KeyFrame, Records, KnownKeys
  <2>4. \A k \in DOMAIN ion' : ion'[k] <= used'
    BY <1>3, <1>4 DEF KeyFrame, Records, KnownKeys
  <2> QED
    BY <1>1, <2>1, <2>2, <2>3, <2>4 DEF KnownKeys
<1>7. \A f \in Files : \A k \in Listed(f) : k \in iod' => k \in iod
  BY <1>3, <1>5 DEF KeyFrame
<1> QED
  BY <1>1, <1>2, <1>6, <1>7 DEF Records

(* A data centre file that does not move on, keys that leave: what was later is. *)
NoFurther(R, dt, dt2, io, io2, id, id2) ==
    /\ \A h : After(R, dt, h) => After(R, dt2, h)
    /\ \A h \in Members(R) : IfThere(R, dt, io, id, h) => IfThere(R, dt2, io2, id2, h)
    /\ \A m : Owned(R, dt, io, id, m) => Owned(R, dt2, io2, id2, m)

LEMMA OwnedStays ==
  ASSUME NEW R, NEW dt, NEW dt2, NEW io, NEW io2, NEW id, NEW id2,
         dt2 \in {dt, NoKey, Gone}, NoKey \notin Members(R), Gone \notin Members(R),
         DOMAIN io2 \subseteq DOMAIN io, \A k \in Members(R) : k \in id2 => k \in id
  PROVE  NoFurther(R, dt, dt2, io, io2, id, id2)
<1>1. ASSUME NEW h, After(R, dt, h) PROVE After(R, dt2, h)
  BY <1>1 DEF After, Members
<1>2. ASSUME NEW h \in Members(R), IfThere(R, dt, io, id, h) PROVE IfThere(R, dt2, io2, id2, h)
  BY <1>1, <1>2 DEF IfThere
<1> QED
  BY <1>1, <1>2 DEF Owned, NoFurther

LEMMA HeadsFrame ==
  ASSUME Typed, Typed', Records, Heads, DbFrame
  PROVE  /\ Reached' /\ MdHeads'
         /\ \A f \in Files :
               /\ \A h : After(recorded[f], dtc[f], h) => After(recorded'[f], dtc'[f], h)
               /\ \A h \in Listed(f) : IfThere(recorded[f], dtc[f], ion, iod, h) =>
                                          IfThere(recorded'[f], dtc'[f], ion', iod', h)
               /\ \A m : Owned(recorded[f], dtc[f], ion, iod, m) =>
                              Owned(recorded'[f], dtc'[f], ion', iod', m)
<1>1. /\ \A f \in Files : Listed(f)' = Listed(f)
      /\ \A f \in Files : \A k \in Listed(f) : k \in iod' => k \in iod
  BY RecordsFrame DEF DbFrame
<1>2. Reached'
  BY <1>1 DEF DbFrame, KeyFrame, Heads, Reached
<1>3. ASSUME NEW f \in Files
      PROVE  /\ \A h : After(recorded[f], dtc[f], h) => After(recorded'[f], dtc'[f], h)
             /\ \A h \in Listed(f) : IfThere(recorded[f], dtc[f], ion, iod, h) =>
                                        IfThere(recorded'[f], dtc'[f], ion', iod', h)
             /\ \A m : Owned(recorded[f], dtc[f], ion, iod, m) =>
                            Owned(recorded'[f], dtc'[f], ion', iod', m)
  <2>1. recorded'[f] = recorded[f] /\ dtc'[f] \in {dtc[f], NoKey, Gone}
    BY DEF DbFrame, KeyFrame
  <2>2. NoKey \notin Members(recorded[f]) /\ Gone \notin Members(recorded[f])
    BY RecordedFacts, KeyFacts DEF Listed
  <2>3. DOMAIN ion' \subseteq DOMAIN ion
    BY DEF DbFrame, KeyFrame
  <2>4. \A k \in Members(recorded[f]) : k \in iod' => k \in iod
    BY <1>1 DEF Listed
  <2>5. NoFurther(recorded[f], dtc[f], dtc'[f], ion, ion', iod, iod')
    BY <2>1, <2>2, <2>3, <2>4, OwnedStays
  <2> QED
    BY <2>1, <2>5 DEF Listed, NoFurther
<1>4. MdHeads'
  <2>1. ASSUME NEW f \in DOMAIN md', md'[f].dirty
        PROVE  Owned(recorded[f], dtc[f], ion, iod, md'[f]) /\ f \in Files
    BY <2>1, Values DEF DbFrame, KeyFrame, Heads, MdHeads, Clean, Typed
  <2> QED
    BY <1>3, <2>1 DEF MdHeads
<1> QED
  BY <1>2, <1>3, <1>4

(* que_out_serv is where it was, or does not record. *)
LEMMA CopyFrame ==
  ASSUME Typed, Typed', Records, Heads, DbFrame, qs' = qs \/ ~Recording'
  PROVE  CopyHeads' /\ NewHead'
<1>1. CASE ~Recording'
  BY <1>1 DEF CopyHeads, NewHead, Recording
<1>2. CASE qs' = qs /\ Recording
  <2>1. qs.req.path \in Files
    BY <1>2, RequestFacts DEF Typed, AtHand, Recording
  <2>2. recorded' = recorded
    BY DEF DbFrame, KeyFrame
  <2>3. CopyHeads'
    BY <1>2, <2>1, <2>2, HeadsFrame DEF Heads, CopyHeads, Recording
  <2>4. NewHead'
    BY <1>2, <2>1, <2>2, HeadsFrame DEF Heads, NewHead
  <2> QED
    BY <2>3, <2>4
<1> QED
  BY <1>1, <1>2 DEF Recording

(* The flush is where it was, or is not at a chain. *)
LEMMA FlushFrame ==
  ASSUME Typed, Typed', Records, Heads, DbFrame,
         fl' = fl \/ fl'.pc \notin {"iod", "out", "ion", "clear"}
  PROVE  FlushHead'
<1>1. CASE fl'.pc \notin {"iod", "out", "ion", "clear"}
  BY <1>1 DEF FlushHead
<1>2. CASE fl' = fl /\ fl.pc \in {"iod", "out", "ion", "clear"}
  <2>1. fl.file \in Files
    BY <1>2 DEF Typed, AtHand, Flushing
  <2>2. PICK f \in Files : f = fl.file
    BY <2>1
  <2>3. Listed(f)' = Listed(f)
    BY <2>2, RecordsFrame DEF DbFrame
  <2>4. \A k \in Listed(f) : k \in iod' => k \in iod
    BY <2>2, RecordsFrame DEF DbFrame
  <2>5. FlushHead
    BY DEF Heads
  <2>6. fl.pc = "iod" /\ fl.head \in DOMAIN ion' => fl.head \in Listed(f)
    BY <2>2, <2>5 DEF DbFrame, KeyFrame, FlushHead
  <2>7. fl.pc = "iod" => IfThere(recorded'[f], dtc'[f], ion', iod', fl.head)
    <3>1. CASE fl.pc = "iod" /\ fl.head \in DOMAIN ion
      <4>1. fl.head \in Listed(f) /\ IfThere(recorded[f], dtc[f], ion, iod, fl.head)
        BY <2>2, <2>5, <3>1 DEF FlushHead
      <4> QED
        BY <2>2, <4>1, HeadsFrame
    <3>2. CASE fl.head \notin DOMAIN ion
      BY <3>2 DEF IfThere, DbFrame, KeyFrame
    <3> QED
      BY <3>1, <3>2
  <2>8. ASSUME f \in DOMAIN md', md'[f].dirty
        PROVE  /\ f \in DOMAIN md /\ md'[f] = md[f]
               /\ md[f].head \in Listed(f)
    BY <2>8 DEF DbFrame, KeyFrame, Clean, Heads, MdHeads, Owned, Listed
  <2>9. fl.pc \in {"out", "ion"} =>
          fl.head \in Listed(f) /\ dtc'[f] \in {fl.head, NoKey, Gone, Zeros}
    BY <2>2, <2>5 DEF DbFrame, KeyFrame, FlushHead
  <2>10. fl'.file = f /\ fl.file = f /\ Listed(fl.file)' = Listed(f)
    BY <1>2, <2>2, <2>3 DEF Listed, DbFrame, KeyFrame
  <2> QED
    BY <1>2, <2>10, <2>4, <2>5, <2>6, <2>7, <2>8, <2>9 DEF FlushHead
<1> QED
  BY <1>1, <1>2

(* The requests under way: some are gone, none is new. *)
FewerWaiting ==
    /\ writing' \subseteq writing
    /\ \E s \in {0, 1} : \A i \in 1..Len(backlog') :
          i + s \in 1..Len(backlog) /\ backlog'[i] = backlog[i + s]
    /\ \/ InHand' = NoKey
       \/ /\ InHand' = InHand
          /\ qs.pc = "ion" => qs'.pc = "ion" /\ qs'.req.path = qs.req.path

LEMMA NewStays ==
  ASSUME Typed, Typed', Records, KeyFrame
  PROVE  \A k : (Unrecorded(k) => Unrecorded(k)') /\ (New(k) => New(k)')
<1>1. \A f \in Files : Listed(f)' = Listed(f)
  BY RecordsFrame DEF DbFrame
<1>2. ASSUME NEW k, Unrecorded(k) PROVE Unrecorded(k)'
  <2>1. k \notin DOMAIN ion
    BY <1>2 DEF Records, KnownKeys, Unrecorded
  <2> QED
    BY <1>1, <1>2, <2>1 DEF Unrecorded, KeyFrame
<1>3. ASSUME NEW k, New(k) PROVE New(k)'
  BY <1>2, <1>3 DEF New, KeyFrame
<1> QED
  BY <1>2, <1>3

LEMMA WaitingFrame ==
  ASSUME Typed, Typed', Records, Waiting, KeyFrame, FewerWaiting
  PROVE  Waiting'
<1>1. \A k : (Unrecorded(k) => Unrecorded(k)') /\ (New(k) => New(k)')
  BY NewStays DEF DbFrame
<1>2. PICK s \in {0, 1} : \A i \in 1..Len(backlog') :
          i + s \in 1..Len(backlog) /\ backlog'[i] = backlog[i + s]
  BY DEF FewerWaiting
<1>3. writing' \subseteq writing
  BY DEF FewerWaiting
<1>4. WritingNew'
  <2>1. \A r \in writing' : New(r.ion_key)'
    <3>1. ASSUME NEW r \in writing' PROVE New(r.ion_key)'
      BY <1>1, <1>3 DEF Waiting, WritingNew
    <3> QED
      BY <3>1
  <2> QED
    BY <1>3, <2>1 DEF Waiting, WritingNew
<1>5. BacklogNew'
  <2>1. ASSUME NEW i \in 1..Len(backlog'), backlog'[i].ion_key # NoKey
        PROVE  New(backlog[i].ion_key)' /\ \A r \in writing' : backlog'[i].ion_key # r.ion_key
    <3>1. PICK j \in 1..Len(backlog) : backlog'[i] = backlog[j]
      BY <1>2
    <3>2. PICK k : k = backlog'[i].ion_key
      OBVIOUS
    <3>3. New(k) /\ \A r \in writing : k # r.ion_key
      BY <2>1, <3>1, <3>2 DEF Waiting, BacklogNew
    <3>4. New(k)'
      BY <1>1, <3>3
    <3> QED
      BY <1>3, <3>2, <3>3, <3>4 DEF New, Unrecorded
  <2>2. ASSUME NEW i \in 1..Len(backlog'), NEW j \in 1..Len(backlog'),
               backlog'[i].ion_key # NoKey, backlog'[i].ion_key = backlog'[j].ion_key
        PROVE  i = j
    <3>1. \A a, b \in 1..Len(backlog) :
              backlog[a].ion_key # NoKey /\ backlog[a].ion_key = backlog[b].ion_key => a = b
      BY DEF Waiting, BacklogNew
    <3>2. PICK a \in 1..Len(backlog) : a = i + s /\ backlog'[i] = backlog[a]
      BY <1>2
    <3>3. PICK b \in 1..Len(backlog) : b = j + s /\ backlog'[j] = backlog[b]
      BY <1>2
    <3>4. a = b
      BY <2>2, <3>1, <3>2, <3>3
    <3> QED
      BY <3>2, <3>3, <3>4
  <2> QED
    BY <2>1, <2>2 DEF BacklogNew
<1>6. InHandNew'
  <2>1. CASE InHand' = NoKey
    BY <2>1 DEF InHandNew
  <2>2. CASE InHand' # NoKey
    <3>1. /\ InHand' = InHand
          /\ qs.pc = "ion" => qs'.pc = "ion" /\ qs'.req.path = qs.req.path
      BY <2>2 DEF FewerWaiting
    <3>2. PICK k : k = InHand
      OBVIOUS
    <3>3. /\ Unrecorded(k) /\ \A r \in writing : k # r.ion_key
          /\ \A i \in 1..Len(backlog) : k # backlog[i].ion_key
          /\ \A j \in DOMAIN ion : ion[j] = k => qs.pc = "ion" /\ j \in Listed(qs.req.path)
      BY <2>2, <3>1, <3>2 DEF Waiting, InHandNew
    <3>4. Unrecorded(k)' /\ \A r \in writing' : k # r.ion_key
      BY <1>1, <1>3, <3>3
    <3>5. \A i \in 1..Len(backlog') : k # backlog'[i].ion_key
      BY <1>2, <3>3
    <3>6. ASSUME NEW j \in DOMAIN ion', ion'[j] = k
          PROVE  qs'.pc = "ion" /\ j \in Listed(qs.req.path)'
      <4>1. qs.pc = "ion" /\ j \in Listed(qs.req.path)
        BY <3>3, <3>6 DEF KeyFrame
      <4> QED
        BY <2>2, <3>1, <4>1 DEF Listed, KeyFrame
    <3> QED
      BY <3>1, <3>2, <3>4, <3>5, <3>6 DEF InHandNew, Unrecorded
  <2> QED
    BY <2>1, <2>2
<1> QED
  BY <1>4, <1>5, <1>6 DEF Waiting
-----------------------------------------------------------------------------
(* The databases as far as a file sees them, and the threads. *)
DataSame(f) ==
    /\ recorded'[f] = recorded[f] /\ dtc'[f] = dtc[f]
    /\ f \in DOMAIN md => f \in DOMAIN md' /\ md'[f] = md[f]
    /\ \A k \in Listed(f) : k \in DOMAIN ion => k \in DOMAIN ion' /\ ion'[k] = ion[k]
    /\ \A k \in Listed(f) : k \in iod => k \in iod'

StageSame(f) ==
    /\ RecordingOf(f)' <=> RecordingOf(f)
    /\ RecordingOf(f) => qs' = qs
    /\ Busy(f)' <=> Busy(f)
    /\ Busy(f) => fl' = fl

LEMMA KeptStays ==
  ASSUME NEW R, NEW d, NEW s, NEW last, NEW io, NEW id, NEW dt, NEW io2, NEW id2,
         Kept(R, d, s, last, io, id, dt), Len(R) \in Nat,
         \A k \in Members(R) : k \in DOMAIN io => k \in DOMAIN io2 /\ io2[k] = io[k],
         \A k \in Members(R) : k \in id => k \in id2
  PROVE  Kept(R, d, s, last, io2, id2, dt)
BY DEF Kept, Members

LEMMA StandingStays ==
  ASSUME Typed, NEW f \in Files, NEW d, Standing(f, d), DataSame(f), StageSame(f)
  PROVE  Standing(f, d)'
<1>1. recorded'[f] = recorded[f] /\ dtc'[f] = dtc[f] /\ Len(recorded[f]) \in Nat
  BY RecordedFacts DEF DataSame
<1>2. RecordingOf(f)' = RecordingOf(f) /\ Busy(f)' = Busy(f)
  BY DEF StageSame, RecordingOf, Busy
<1>3. Last(f)' = Last(f)
  BY <1>2 DEF StageSame, Last, Writing, RecordingOf
<1>4. Known(f)' = Known(f)
  BY <1>1, <1>2 DEF StageSame, Known, Writing, RecordingOf
<1>5. Stored(f, d)' = Stored(f, d)
  BY <1>2 DEF StageSame, Stored
<1>6. Kept(recorded[f], d, Stored(f, d), Last(f), ion', iod', dtc[f])
  BY <1>1, KeptStays DEF Standing, DataSame, Listed
<1> QED
  BY <1>1, <1>2, <1>3, <1>4, <1>5, <1>6 DEF Standing, DataSame, StageSame

LEMMA StandingsFrame ==
  ASSUME Typed, Standings, hurt \subseteq hurt',
         \A f \in Files \ hurt' : DataSame(f) /\ StageSame(f)
  PROVE  Standings'
<1>1. ASSUME NEW f \in Files \ hurt' PROVE \E d \in 0..Len(recorded'[f]) : Standing(f, d)'
  <2>1. PICK d \in 0..Len(recorded[f]) : Standing(f, d)
    BY DEF Standings
  <2>2. Standing(f, d)' /\ recorded'[f] = recorded[f]
    BY <2>1, StandingStays DEF DataSame
  <2> QED
    BY <2>2
<1> QED
  BY <1>1 DEF Standings

LEMMA SameIsSame ==
  ASSUME DbSame, NEW f
  PROVE  DataSame(f)
BY DEF DbSame, DataSame

LEMMA FrameKeepsRest ==
  ASSUME IInv, Typed', DbFrame, Waiting',
         qs' = qs \/ ~Recording', fl' = fl \/ fl'.pc \notin {"iod", "out", "ion", "clear"},
         hurt \subseteq hurt', removing' \subseteq hurt',
         \A f \in Files \ hurt' : DataSame(f) /\ StageSame(f)
  PROVE  Rest'
<1>1. Records'
  BY RecordsFrame DEF IInv, Rest, DbFrame
<1>2. Reached' /\ MdHeads'
  BY HeadsFrame DEF IInv, Rest
<1>3. CopyHeads' /\ NewHead' /\ FlushHead'
  BY CopyFrame, FlushFrame DEF IInv, Rest
<1>4. Standings'
  BY StandingsFrame DEF IInv, Rest
<1> QED
  BY <1>1, <1>2, <1>3, <1>4 DEF Rest, Heads, GoneIsHurt

LEMMA FrameKeeps ==
  ASSUME IInv, Typed', DbFrame, FewerWaiting,
         qs' = qs \/ ~Recording', fl' = fl \/ fl'.pc \notin {"iod", "out", "ion", "clear"},
         hurt \subseteq hurt', removing' \subseteq hurt',
         \A f \in Files \ hurt' : DataSame(f) /\ StageSame(f)
  PROVE  Rest'
<1>1. Waiting'
  BY WaitingFrame DEF IInv, Rest, DbFrame
<1> QED
  BY <1>1, FrameKeepsRest

(* The databases are as they were, and so is the stage of every file. *)
LEMMA SameKeeps ==
  ASSUME IInv, Typed', DbSame, FewerWaiting, removing' = removing,
         qs' = qs \/ ~Recording', fl' = fl \/ fl'.pc \notin {"iod", "out", "ion", "clear"},
         hurt \subseteq hurt', \A f \in Files \ hurt' : StageSame(f)
  PROVE  Rest'
<1>1. DbFrame
  BY SameIsFrame DEF IInv, Rest
<1>2. removing' \subseteq hurt'
  BY DEF IInv, Rest, GoneIsHurt
<1> QED
  BY <1>1, <1>2, SameIsSame, FrameKeeps

LEMMA Backlogs ==
  ASSUME Typed, \/ backlog' = backlog
                \/ backlog # <<>> /\ backlog' = Tail(backlog)
                \/ backlog' = <<>>
  PROVE  \E s \in {0, 1} : \A i \in 1..Len(backlog') :
            i + s \in 1..Len(backlog) /\ backlog'[i] = backlog[i + s]
<1>1. backlog \in Seq(Request) /\ Len(backlog) \in Nat
  BY DEF Typed, TypeOK, ClientTypeOK
<1>2. CASE backlog' = backlog
  <2>1. \A i \in 1..Len(backlog') : i + 0 \in 1..Len(backlog) /\ backlog'[i] = backlog[i + 0]
    BY <1>1, <1>2
  <2> QED
    BY <2>1
<1>3. CASE backlog # <<>> /\ backlog' = Tail(backlog)
  <2>1. \A i \in 1..Len(backlog') : i + 1 \in 1..Len(backlog) /\ backlog'[i] = backlog[i + 1]
    BY <1>1, <1>3
  <2> QED
    BY <2>1
<1>4. CASE backlog' = <<>>
  <2>1. \A i \in 1..Len(backlog') : i + 0 \in 1..Len(backlog) /\ backlog'[i] = backlog[i + 0]
    BY <1>4
  <2> QED
    BY <2>1
<1> QED
  BY <1>2, <1>3, <1>4

LEMMA StillWaiting ==
  ASSUME Typed, writing' = writing,
         \/ backlog' = backlog
         \/ backlog # <<>> /\ backlog' = Tail(backlog)
         \/ backlog' = <<>>,
         \/ qs' = qs
         \/ qs'.pc \notin {"print", "md", "tail", "ion"}
         \/ /\ qs.pc \in {"print", "md"} /\ qs'.pc \in {"print", "md", "tail", "ion"}
            /\ qs'.req = qs.req
  PROVE  FewerWaiting
BY Backlogs DEF FewerWaiting, InHand
-----------------------------------------------------------------------------
(* The steps that leave the databases alone. *)
LEMMA DieRest ==
  ASSUME IInv, Typed', NEW how, Die(how)
  PROVE  Rest'
<1>1. /\ UNCHANGED <<recorded, used, iod, ion, dtc, md, writing, removing, backlog, qs, fl, hurt>>
  BY DEF Die, dbVars, callVars, history
<1>2. FewerWaiting
  BY <1>1, StillWaiting DEF IInv
<1>3. DbSame
  BY <1>1 DEF DbSame
<1>4. \A f \in Files \ hurt' : StageSame(f)
  BY <1>1 DEF StageSame, RecordingOf, Recording, Busy
<1> QED
  BY <1>1, <1>2, <1>3, <1>4, SameKeeps

(* que_out_serv outside of the recording. *)
LEMMA ServMoves ==
  ASSUME IInv, Typed', PrintIon \/ GetFn \/ AddToHead
  PROVE  Rest'
<1>1. qs \in QsType
  BY DEF IInv, Typed, TypeOK, QsType
<1>2. CASE \E how : Die(how)
  BY <1>2, DieRest
<1>3. CASE ~\E how : Die(how)
  <2>1. /\ UNCHANGED <<recorded, used, iod, ion, dtc, md, writing, removing, backlog, fl, hurt>>
        /\ ~Recording /\ ~Recording'
        /\ \/ qs'.pc \notin {"print", "md", "tail", "ion"}
           \/ /\ qs.pc \in {"print", "md"} /\ qs'.pc \in {"print", "md", "tail", "ion"}
              /\ qs'.req = qs.req
    <3>1. CASE PrintIon
      BY <1>1, <1>3, <3>1 DEF PrintIon, QsType, dbVars, callVars, history, Recording
    <3>2. CASE GetFn
      BY <1>1, <1>3, <3>2 DEF GetFn, QsType, dbVars, callVars, history, Recording
    <3>3. CASE AddToHead
      BY <1>1, <1>3, <3>3 DEF AddToHead, QsIdle, dbVars, callVars, history, Recording
    <3> QED
      BY <3>1, <3>2, <3>3
  <2>2. FewerWaiting
    BY <2>1, StillWaiting DEF IInv
  <2>3. DbSame
    BY <2>1 DEF DbSame
  <2>4. \A f \in Files \ hurt' : StageSame(f)
    BY <2>1 DEF StageSame, RecordingOf, Busy
  <2> QED
    BY <2>1, <2>2, <2>3, <2>4, SameKeeps
<1> QED
  BY <1>2, <1>3

(* The flush outside of the chain. *)
LEMMA FlushMoves ==
  ASSUME IInv, Typed', Pick \/ Unlink \/ Free
  PROVE  Rest'
<1>1. fl \in FlType
  BY DEF IInv, Typed, TypeOK, FlType
<1>2. CASE \E how : Die(how)
  BY <1>2, DieRest
<1>3. CASE ~\E how : Die(how)
  <2>1. /\ UNCHANGED <<recorded, used, iod, ion, dtc, md, writing, removing, backlog, qs, hurt>>
        /\ fl.pc \notin {"iod", "out", "ion", "clear"} /\ fl'.pc \notin {"iod", "out", "ion", "clear"}
    <3>1. CASE Pick
      BY <1>1, <1>3, <3>1 DEF Pick, FlType, dbVars, callVars, history
    <3>2. CASE Unlink
      BY <1>1, <1>3, <3>2 DEF Unlink, FlType, dbVars, callVars, history
    <3>3. CASE Free
      BY <1>1, <1>3, <3>3 DEF Free, FlIdle, dbVars, callVars, history
    <3> QED
      BY <3>1, <3>2, <3>3
  <2>2. FewerWaiting
    BY <2>1, StillWaiting DEF IInv
  <2>3. DbSame
    BY <2>1 DEF DbSame
  <2>4. \A f \in Files \ hurt' : StageSame(f)
    BY <2>1 DEF StageSame, RecordingOf, Recording, Busy
  <2> QED
    BY <2>1, <2>2, <2>3, <2>4, SameKeeps
<1> QED
  BY <1>2, <1>3

(* A flush that ends early: its file is hurt unless nothing was taken yet. *)
LEMMA GiveUpKeeps ==
  ASSUME IInv, Typed', GiveUp, hurt \subseteq hurt',
         fl.pc = "open" \/ fl.file \in hurt',
         backlog' = backlog \/ (backlog # <<>> /\ backlog' = Tail(backlog))
  PROVE  Rest'
<1>1. /\ UNCHANGED <<recorded, used, iod, ion, dtc, md, writing, removing, qs>>
      /\ fl' = FlIdle /\ fl'.pc \notin {"iod", "out", "ion", "clear"}
  BY DEF GiveUp, dbVars, FlIdle
<1>2. FewerWaiting
  BY <1>1, StillWaiting DEF IInv
<1>3. DbSame
  BY <1>1 DEF DbSame
<1>4. \A f \in Files \ hurt' : StageSame(f)
  BY <1>1 DEF StageSame, RecordingOf, Recording, Busy
<1> QED
  BY <1>1, <1>2, <1>3, <1>4, SameKeeps

LEMMA RestartKeeps ==
  ASSUME IInv, Typed', Restart
  PROVE  Rest'
<1>1. /\ UNCHANGED <<recorded, used, iod, ion, dtc, md, writing, removing>>
      /\ backlog' = <<>> /\ qs' = QsIdle /\ fl' = FlIdle /\ hurt \subseteq hurt'
  BY DEF Restart, ServerStart, dbVars
<1>2. qs'.pc = "accept" /\ fl'.pc = "pick"
  BY <1>1 DEF QsIdle, FlIdle
<1>3. FewerWaiting
  BY <1>1, <1>2, StillWaiting DEF IInv
<1>4. DbSame
  BY <1>1 DEF DbSame
<1>5. \A f \in Files \ hurt' : ~RecordingOf(f) /\ ~Busy(f)
  <2>1. CASE md_mutex = "free"
    BY <2>1 DEF IInv, Typed, Turns, RecordingOf, Flushing, Busy
  <2>2. CASE md_mutex = "serv"
    BY <2>2 DEF Restart, IInv, Typed, Turns, RecordingOf, Flushing, Busy
  <2>3. CASE md_mutex = "flush"
    BY <2>3 DEF Restart, IInv, Typed, Turns, RecordingOf, Flushing, Busy
  <2> QED
    BY <2>1, <2>2, <2>3 DEF IInv, Typed, TypeOK
<1>6. \A f \in Files \ hurt' : StageSame(f)
  BY <1>2, <1>5 DEF StageSame, RecordingOf, Recording, Busy
<1> QED
  BY <1>1, <1>2, <1>3, <1>4, <1>6, SameKeeps DEF Recording
-----------------------------------------------------------------------------
(* A request on its way. *)
LEMMA BacklogFacts ==
  ASSUME Typed
  PROVE  /\ backlog \in Seq(Request) /\ Len(backlog) \in Nat
         /\ \A i \in 1..Len(backlog) : backlog[i] \in Request
BY DEF Typed, TypeOK, ClientTypeOK

LEMMA AcceptKeeps ==
  ASSUME IInv, Typed', Accept
  PROVE  Rest'
<1>1. /\ backlog \in Seq(Request) /\ backlog # <<>> /\ Len(backlog) \in Nat \ {0}
  BY BacklogFacts DEF IInv, Accept
<1>2. /\ UNCHANGED <<recorded, used, iod, ion, dtc, md, writing, removing, fl, hurt>>
      /\ backlog' = Tail(backlog) /\ qs.pc = "accept" /\ qs'.pc = "print"
      /\ qs'.req = backlog[1]
  BY <1>1 DEF Accept, QsIdle, dbVars, history
<1>3. DbSame /\ DbFrame
  BY <1>2, SameIsFrame DEF DbSame, IInv, Rest
<1>4. PICK k : k = backlog[1].ion_key
  OBVIOUS
<1>5. InHand = NoKey /\ InHand' = k
  BY <1>2, <1>4 DEF InHand
<1>6. /\ Len(backlog') = Len(backlog) - 1
      /\ \A i \in 1..Len(backlog') : i + 1 \in 2..Len(backlog) /\ backlog'[i] = backlog[i + 1]
  BY <1>1, <1>2
<1>7. WritingNew' /\ BacklogNew'
  <2>1. \A r \in writing : New(r.ion_key)'
    BY <1>3, NewStays DEF IInv, Rest, Waiting, WritingNew, DbFrame
  <2>2. WritingNew'
    BY <1>2, <2>1 DEF IInv, Rest, Waiting, WritingNew
  <2>3. ASSUME NEW i \in 1..Len(backlog'), backlog'[i].ion_key # NoKey
        PROVE  New(backlog[i].ion_key)' /\ \A r \in writing' : backlog'[i].ion_key # r.ion_key
    <3>1. PICK j \in 1..Len(backlog) : backlog'[i] = backlog[j]
      BY <1>6
    <3>2. PICK h : h = backlog'[i].ion_key
      OBVIOUS
    <3>3. New(h) /\ \A r \in writing : h # r.ion_key
      BY <2>3, <3>1, <3>2 DEF IInv, Rest, Waiting, BacklogNew
    <3>4. New(h)'
      BY <1>3, <3>3, NewStays DEF IInv, Rest, DbFrame
    <3> QED
      BY <1>2, <3>2, <3>3, <3>4 DEF New, Unrecorded
  <2>4. ASSUME NEW i \in 1..Len(backlog'), NEW j \in 1..Len(backlog'),
               backlog'[i].ion_key # NoKey, backlog'[i].ion_key = backlog'[j].ion_key
        PROVE  i = j
    <3>1. \A a, b \in 1..Len(backlog) :
              backlog[a].ion_key # NoKey /\ backlog[a].ion_key = backlog[b].ion_key => a = b
      BY DEF IInv, Rest, Waiting, BacklogNew
    <3>2. PICK a \in 1..Len(backlog) : a = i + 1 /\ backlog'[i] = backlog[a]
      BY <1>6
    <3>3. PICK b \in 1..Len(backlog) : b = j + 1 /\ backlog'[j] = backlog[b]
      BY <1>6
    <3>4. a = b
      BY <2>4, <3>1, <3>2, <3>3
    <3> QED
      BY <3>2, <3>3, <3>4
  <2> QED
    BY <2>2, <2>3, <2>4 DEF BacklogNew
<1>8. InHandNew'
  <2>1. CASE k = NoKey
    BY <1>5, <2>1 DEF InHandNew
  <2>2. CASE k # NoKey
    <3>1. New(k) /\ \A r \in writing : k # r.ion_key
      BY <1>1, <1>4, <2>2 DEF IInv, Rest, Waiting, BacklogNew
    <3>2. New(k)'
      BY <1>3, <3>1, NewStays DEF IInv, Rest, DbFrame
    <3>3. \A i \in 1..Len(backlog') : k # backlog'[i].ion_key
      <4>1. \A b \in 1..Len(backlog) : k = backlog[b].ion_key => b = 1
        <5>1. \A a, b \in 1..Len(backlog) :
                  backlog[a].ion_key # NoKey /\ backlog[a].ion_key = backlog[b].ion_key => a = b
          BY DEF IInv, Rest, Waiting, BacklogNew
        <5>2. 1 \in 1..Len(backlog)
          BY <1>1
        <5> QED
          BY <1>4, <2>2, <5>1, <5>2
      <4> QED
        BY <1>1, <1>6, <4>1
    <3> QED
      BY <1>2, <1>5, <3>1, <3>2, <3>3 DEF InHandNew, New, Unrecorded
  <2> QED
    BY <2>1, <2>2
<1>9. \A f \in Files \ hurt' : DataSame(f) /\ StageSame(f)
  BY <1>2, <1>3, SameIsSame DEF StageSame, RecordingOf, Recording, Busy
<1>10. ~Recording' /\ removing' \subseteq hurt' /\ fl' = fl /\ hurt \subseteq hurt'
  BY <1>2 DEF Recording, IInv, Rest, GoneIsHurt
<1> QED
  BY <1>3, <1>7, <1>8, <1>9, <1>10, FrameKeepsRest DEF Waiting

(* A request r is added to the backlog, its key not among the others. *)
LEMMA Sends ==
  ASSUME IInv, Typed', DbFrame, NEW r \in Request, backlog' = Append(backlog, r),
         writing' \subseteq writing, qs' = qs,
         r.ion_key # NoKey =>
            /\ New(r.ion_key) /\ InHand # r.ion_key
            /\ \A s \in writing' : s.ion_key # r.ion_key
            /\ \A i \in 1..Len(backlog) : backlog[i].ion_key # r.ion_key
  PROVE  Waiting'
<1>1. /\ backlog \in Seq(Request) /\ Len(backlog) \in Nat
  BY BacklogFacts DEF IInv
<1>2. /\ Len(backlog') = Len(backlog) + 1
      /\ \A i \in 1..Len(backlog) : backlog'[i] = backlog[i]
      /\ backlog'[Len(backlog) + 1] = r
  BY <1>1
<1>3. \A k : (Unrecorded(k) => Unrecorded(k)') /\ (New(k) => New(k)')
  BY NewStays DEF IInv, Rest, DbFrame
<1>4. WritingNew'
  <2>1. \A s \in writing' : New(s.ion_key)'
    BY <1>3 DEF IInv, Rest, Waiting, WritingNew
  <2> QED
    BY <2>1 DEF IInv, Rest, Waiting, WritingNew
<1>5. BacklogNew'
  <2>1. ASSUME NEW i \in 1..Len(backlog'), backlog'[i].ion_key # NoKey
        PROVE  New(backlog[i].ion_key)' /\ \A s \in writing' : backlog'[i].ion_key # s.ion_key
    <3>1. PICK h : h = backlog'[i].ion_key
      OBVIOUS
    <3>2. New(h) /\ \A s \in writing' : h # s.ion_key
      <4>1. CASE i = Len(backlog) + 1
        BY <1>2, <2>1, <3>1, <4>1
      <4>2. CASE i \in 1..Len(backlog)
        <5>1. backlog'[i] = backlog[i]
          BY <1>2, <4>2
        <5> QED
          BY <5>1, <2>1, <3>1, <4>2 DEF IInv, Rest, Waiting, BacklogNew
      <4> QED
        BY <1>1, <1>2, <4>1, <4>2
    <3>3. New(h)'
      BY <1>3, <3>2
    <3> QED
      BY <3>1, <3>2, <3>3 DEF New, Unrecorded
  <2>2. ASSUME NEW i \in 1..Len(backlog'), NEW j \in 1..Len(backlog'),
               backlog'[i].ion_key # NoKey, backlog'[i].ion_key = backlog'[j].ion_key
        PROVE  i = j
    <3>1. \A a, b \in 1..Len(backlog) :
              backlog[a].ion_key # NoKey /\ backlog[a].ion_key = backlog[b].ion_key => a = b
      BY DEF IInv, Rest, Waiting, BacklogNew
    <3>2. CASE i \in 1..Len(backlog) /\ j \in 1..Len(backlog)
      BY <1>2, <2>2, <3>1, <3>2
    <3>3. CASE i = Len(backlog) + 1 /\ j \in 1..Len(backlog)
      BY <1>2, <2>2, <3>3
    <3>4. CASE j = Len(backlog) + 1 /\ i \in 1..Len(backlog)
      BY <1>2, <2>2, <3>4
    <3> QED
      BY <1>1, <1>2, <3>2, <3>3, <3>4
  <2> QED
    BY <2>1, <2>2 DEF BacklogNew
<1>6. InHandNew'
  <2>1. InHand' = InHand
    BY DEF InHand
  <2>2. CASE InHand = NoKey
    BY <2>1, <2>2 DEF InHandNew
  <2>3. CASE InHand # NoKey
    <3>1. PICK k : k = InHand
      OBVIOUS
    <3>2. /\ Unrecorded(k) /\ \A s \in writing : k # s.ion_key
          /\ \A i \in 1..Len(backlog) : k # backlog[i].ion_key
          /\ \A j \in DOMAIN ion : ion[j] = k => qs.pc = "ion" /\ j \in Listed(qs.req.path)
      BY <2>3, <3>1 DEF IInv, Rest, Waiting, InHandNew
    <3>3. Unrecorded(k)'
      BY <1>3, <3>2
    <3>4. \A i \in 1..Len(backlog') : k # backlog'[i].ion_key
      BY <1>1, <1>2, <2>3, <3>1, <3>2
    <3>5. \A j \in DOMAIN ion' : ion'[j] = k => qs.pc = "ion" /\ j \in Listed(qs.req.path)'
      BY <3>2 DEF DbFrame, KeyFrame, Listed
    <3>6. \A s \in writing' : k # s.ion_key
      BY <3>2
    <3> QED
      BY <2>1, <3>1, <3>3, <3>4, <3>5, <3>6 DEF InHandNew, Unrecorded
  <2> QED
    BY <2>2, <2>3
<1> QED
  BY <1>4, <1>5, <1>6 DEF Waiting

LEMMA QueOutKeeps ==
  ASSUME IInv, Typed', NEW r \in writing, QueOut(r), UNCHANGED <<serverVars, recorded, hurt>>
  PROVE  Rest'
<1>1. /\ UNCHANGED <<recorded, used, iod, ion, dtc, md, removing, qs, fl, hurt>>
      /\ backlog' = Append(backlog, r) /\ writing' = writing \ {r}
  BY DEF QueOut, dbVars, serverVars
<1>2. DbSame /\ DbFrame
  BY <1>1, SameIsFrame DEF DbSame, IInv, Rest
<1>3. /\ r \in Request /\ New(r.ion_key) /\ r.ion_key \in Keys
      /\ \A s \in writing' : s.ion_key # r.ion_key
      /\ \A i \in 1..Len(backlog) : backlog[i].ion_key # r.ion_key
  BY <1>1, KeyFacts, ZenonT(60)
  DEF IInv, Typed, TypeOK, ClientTypeOK, AtHand, Rest, Waiting, WritingNew, BacklogNew
<1>4. InHand # r.ion_key
  BY <1>3, KeyFacts DEF IInv, Rest, Waiting, InHandNew
<1>5. Waiting'
  BY <1>1, <1>2, <1>3, <1>4, Sends
<1>6. \A f \in Files \ hurt' : DataSame(f) /\ StageSame(f)
  BY <1>1, <1>2, SameIsSame DEF StageSame, RecordingOf, Recording, Busy
<1>7. removing' \subseteq hurt' /\ fl' = fl /\ qs' = qs /\ hurt \subseteq hurt'
  BY <1>1 DEF IInv, Rest, GoneIsHurt
<1> QED
  BY <1>2, <1>5, <1>6, <1>7, FrameKeepsRest

LEMMA ReadFileKeeps ==
  ASSUME IInv, Typed', NEW f \in Files, ReadFile(f), UNCHANGED <<serverVars, recorded, hurt>>
  PROVE  Rest'
<1> DEFINE r == [io_type |-> "READ", path |-> f, ion_key |-> NoKey]
<1>1. /\ UNCHANGED <<recorded, iod, ion, dtc, md, writing, removing, qs, fl, hurt>>
      /\ backlog' = Append(backlog, r) /\ used' = used + 1
  BY DEF ReadFile, dbVars, serverVars
<1>2. r \in Request /\ r.ion_key = NoKey
  BY DEF Request
<1>3. DbFrame
  <2>1. used \in Nat /\ iod \subseteq 1..used
    BY RecordedFacts DEF IInv, Rest, Records, KnownKeys
  <2>2. iod' \subseteq 1..used'
    BY <1>1, <2>1
  <2> QED
    BY <1>1, <2>1, <2>2 DEF DbFrame, KeyFrame
<1> HIDE DEF r
<1>4. Waiting'
  BY <1>1, <1>2, <1>3, Sends
<1>5. \A g \in Files \ hurt' : DataSame(g) /\ StageSame(g)
  BY <1>1 DEF DataSame, StageSame, RecordingOf, Recording, Busy
<1>6. removing' \subseteq hurt' /\ fl' = fl /\ qs' = qs /\ hurt \subseteq hurt'
  BY <1>1 DEF IInv, Rest, GoneIsHurt
<1> QED
  BY <1>3, <1>4, <1>5, <1>6, FrameKeepsRest

LEMMA WriteFileKeeps ==
  ASSUME IInv, Typed', NEW f \in Files, WriteFile(f), UNCHANGED <<serverVars, recorded, hurt>>
  PROVE  Rest'
<1> DEFINE r == [io_type |-> "WRITE", path |-> f, ion_key |-> used + 1]
<1>1. /\ UNCHANGED <<recorded, ion, dtc, md, backlog, removing, qs, fl, hurt>>
      /\ used' = used + 1 /\ iod' = iod \union {used + 1} /\ writing' = writing \union {r}
  BY DEF WriteFile, serverVars
<1>2. r.ion_key = used + 1
  OBVIOUS
<1> HIDE DEF r
<1>3. used \in Nat /\ iod \subseteq 1..used /\ NoKey # used + 1
  BY RecordedFacts DEF IInv, Rest, Records, KnownKeys, NoKey
<1>4. DbFrame
  <2>1. iod' \subseteq 1..used'
    BY <1>1, <1>3
  <2> QED
    BY <1>1, <1>3, <2>1 DEF DbFrame, KeyFrame
<1>5. \A k : (Unrecorded(k) => Unrecorded(k)') /\ (New(k) => New(k)')
  BY <1>4, NewStays DEF IInv, Rest, DbFrame
<1>6. PICK n : n = used + 1
  OBVIOUS
<1>7. New(n)'
  <2>1. \A g \in Files : used + 1 \notin Listed(g)
    BY <1>3 DEF IInv, Rest, Records, KnownKeys
  <2>2. \A j \in DOMAIN ion : ion[j] # used + 1
    <3>1. \A j \in DOMAIN ion : ion[j] <= used
      BY DEF IInv, Rest, Records, KnownKeys
    <3> QED
      BY <1>3, <3>1
  <2> QED
    BY <1>1, <1>6, <2>1, <2>2 DEF New, Unrecorded, Listed
<1>8. /\ \A k : New(k) => k # used + 1
      /\ \A k : Unrecorded(k) => k # used + 1
  BY <1>3 DEF New, Unrecorded
<1>9. WritingNew'
  <2>1. ASSUME NEW s \in writing' PROVE New(s.ion_key)'
    <3>1. CASE s \in writing
      BY <1>5, <3>1 DEF IInv, Rest, Waiting, WritingNew
    <3>2. CASE s = r
      BY <1>1, <1>2, <1>6, <1>7, <3>2 DEF New, Unrecorded
    <3> QED
      BY <1>1, <3>1, <3>2
  <2>2. \A s \in writing : s.ion_key # used + 1
    BY <1>8 DEF IInv, Rest, Waiting, WritingNew
  <2>3. \A s, t \in writing' : s.ion_key = t.ion_key => s = t
    BY <1>1, <1>2, <2>2 DEF IInv, Rest, Waiting, WritingNew
  <2> QED
    BY <2>1, <2>3 DEF WritingNew
<1>10. BacklogNew'
  <2>1. ASSUME NEW i \in 1..Len(backlog), backlog[i].ion_key # NoKey
        PROVE  New(backlog[i].ion_key)' /\ \A s \in writing' : backlog[i].ion_key # s.ion_key
    <3>1. PICK k : k = backlog[i].ion_key
      OBVIOUS
    <3>2. New(k) /\ \A s \in writing : k # s.ion_key
      BY <2>1, <3>1 DEF IInv, Rest, Waiting, BacklogNew
    <3>3. New(k)' /\ k # used + 1
      BY <1>5, <1>8, <3>2
    <3> QED
      BY <1>1, <1>2, <3>1, <3>2, <3>3 DEF New, Unrecorded
  <2> QED
    BY <1>1, <2>1 DEF IInv, Rest, Waiting, BacklogNew
<1>11. InHandNew'
  <2>1. InHand' = InHand
    BY <1>1 DEF InHand
  <2>2. CASE InHand = NoKey
    BY <2>1, <2>2 DEF InHandNew
  <2>3. CASE InHand # NoKey
    <3>1. PICK k : k = InHand
      OBVIOUS
    <3>2. /\ Unrecorded(k) /\ \A s \in writing : k # s.ion_key
          /\ \A i \in 1..Len(backlog) : k # backlog[i].ion_key
          /\ \A j \in DOMAIN ion : ion[j] = k => qs.pc = "ion" /\ j \in Listed(qs.req.path)
      BY <2>3, <3>1 DEF IInv, Rest, Waiting, InHandNew
    <3>3. Unrecorded(k)' /\ k # used + 1
      BY <1>5, <1>8, <3>2
    <3>4. \A s \in writing' : k # s.ion_key
      BY <1>1, <1>2, <3>2, <3>3
    <3>5. \A j \in DOMAIN ion' : ion'[j] = k => qs.pc = "ion" /\ j \in Listed(qs.req.path)'
      BY <1>1, <3>2 DEF Listed
    <3> QED
      BY <1>1, <2>1, <3>1, <3>2, <3>3, <3>4, <3>5 DEF InHandNew, Unrecorded
  <2> QED
    BY <2>2, <2>3
<1>12. \A g \in Files \ hurt' : DataSame(g) /\ StageSame(g)
  BY <1>1 DEF DataSame, StageSame, RecordingOf, Recording, Busy
<1>13. removing' \subseteq hurt' /\ fl' = fl /\ qs' = qs /\ hurt \subseteq hurt'
  BY <1>1 DEF IInv, Rest, GoneIsHurt
<1> QED
  BY <1>4, <1>9, <1>10, <1>11, <1>12, <1>13, FrameKeepsRest DEF Waiting
-----------------------------------------------------------------------------
(* The calls that replace a file: it is hurt. *)
LEMMA ReplaceKeeps ==
  ASSUME IInv, Typed', NEW f \in Files, Replace(f)
  PROVE  Rest'
<1>1. /\ UNCHANGED <<recorded, ion, iod, used, writing, backlog, qs, fl>>
      /\ hurt' = hurt \union {f}
      /\ dtc' = [dtc EXCEPT ![f] = NoKey] \/ dtc' = [dtc EXCEPT ![f] = Gone]
      /\ md' = md \/ md' = Put(md, f, Clean)
      /\ removing' \subseteq removing \union {f}
  BY DEF Replace, CreateFile, Remove, callVars
<1>2. /\ \A g \in Files \ {f} : dtc'[g] = dtc[g] /\ dtc'[f] \in {NoKey, Gone}
      /\ dtc'[f] \in {NoKey, Gone}
  BY <1>1 DEF IInv, Typed, TypeOK, ClientTypeOK
<1>3. /\ DOMAIN md \subseteq DOMAIN md'
      /\ \A g \in DOMAIN md' : g # f => g \in DOMAIN md /\ md'[g] = md[g]
      /\ f \in DOMAIN md' => md'[f] = Clean \/ (f \in DOMAIN md /\ md'[f] = md[f])
  <2>1. CASE md' = md
    BY <2>1
  <2>2. CASE md' = Put(md, f, Clean)
    <3>1. /\ DOMAIN Put(md, f, Clean) = DOMAIN md \union {f}
          /\ Put(md, f, Clean)[f] = Clean
          /\ \A g \in DOMAIN md \ {f} : Put(md, f, Clean)[g] = md[g]
      BY DEF Put
    <3> QED
      BY <2>2, <3>1
  <2> QED
    BY <1>1, <2>1, <2>2
<1>4. DbFrame
  <2>1. used \in Nat /\ iod \subseteq 1..used
    BY RecordedFacts DEF IInv, Rest, Records, KnownKeys
  <2> QED
    BY <1>1, <1>2, <1>3, <2>1 DEF DbFrame, KeyFrame
<1>5. FewerWaiting
  BY <1>1, StillWaiting DEF IInv
<1>6. \A g \in Files \ hurt' : DataSame(g) /\ StageSame(g)
  BY <1>1, <1>2, <1>3 DEF DataSame, StageSame, RecordingOf, Recording, Busy
<1>7. removing' \subseteq hurt' /\ fl' = fl /\ qs' = qs /\ hurt \subseteq hurt'
  BY <1>1 DEF IInv, Rest, GoneIsHurt
<1> QED
  BY <1>4, <1>5, <1>6, <1>7, FrameKeeps
-----------------------------------------------------------------------------
(* The chain from a key, a link at a time: at lists the keys, n of them. *)
NextKey(k) == IF k \in DOMAIN ion THEN ion[k] ELSE k

Follows(at, n, h) ==
    /\ at \in [0..MaxCalls -> Keys \union {NoKey}] /\ at[0] = h
    /\ \A i \in 1..MaxCalls : at[i] = NextKey(at[i - 1])
    /\ n \in 0..(MaxCalls + 1)
    /\ \A i \in 0..MaxCalls : i < n <=> \A j \in 0..i : at[j] \in DOMAIN ion
    /\ Chain(h) = [i \in 1..n |-> at[i - 1]]

LEMMA ChainFollows ==
  ASSUME TypeOK, NEW h \in Keys \union {NoKey}
  PROVE  \E at, n : Follows(at, n, h)
<1> DEFINE K == Keys \union {NoKey}
           Rec(g) == [i \in 0..MaxCalls |->
               IF i = 0 THEN h
               ELSE IF g[i - 1] \in DOMAIN ion THEN ion[g[i - 1]] ELSE g[i - 1]]
<1>1. \A k \in K : NextKey(k) \in K
  BY Values DEF NextKey
<1>2. PICK s \in [K -> K] : \A k \in K : s[k] = NextKey(k)
  <2> DEFINE s == [k \in K |-> NextKey(k)]
  <2>1. s \in [K -> K] /\ \A k \in K : s[k] = NextKey(k)
    BY <1>1
  <2> QED
    BY <2>1
<1>3. PICK g : Iterates(g, s, h, K, MaxCalls)
  <2>1. h \in K /\ MaxCalls \in Nat
    OBVIOUS
  <2> HIDE DEF K
  <2> QED
    BY <1>2, <2>1, CanIterate
<1>4. g = Rec(g)
  <2>1. ASSUME NEW i \in 0..MaxCalls PROVE g[i] = Rec(g)[i]
    <3>1. CASE i = 0
      BY <1>3, <3>1 DEF Iterates
    <3>2. CASE i # 0
      <4>1. i \in 1..MaxCalls /\ i - 1 \in 0..MaxCalls
        BY <3>2
      <4>2. g[i - 1] \in K /\ g[i] = s[g[i - 1]]
        BY <1>3, <4>1 DEF Iterates
      <4> QED
        BY <1>2, <3>2, <4>2 DEF NextKey
    <3> QED
      BY <3>1, <3>2
  <2> QED
    BY <1>3, <2>1 DEF Iterates
<1> DEFINE at == CHOOSE a : a = Rec(a)
<1>5. at = Rec(at)
  BY <1>4
<1>6. ChainAt(h) = at
  BY DEF ChainAt
<1> HIDE DEF at
<1>7. at[0] = h /\ \A i \in 1..MaxCalls : at[i] = NextKey(at[i - 1])
  BY <1>5 DEF NextKey
<1>8. at \in [0..MaxCalls -> K]
  <2> DEFINE Good == {i \in Nat : i <= MaxCalls => at[i] \in K}
  <2>1. 0 \in Good
    BY <1>7
  <2>2. \A i \in Nat : i \in Good => i + 1 \in Good
    <3>1. ASSUME NEW i \in Nat, i \in Good, i + 1 <= MaxCalls PROVE i + 1 \in Good
      <4>1. at[i] \in K /\ i + 1 \in 1..MaxCalls /\ (i + 1) - 1 = i
        BY <3>1
      <4> QED
        BY <1>1, <1>7, <4>1
    <3> QED
      BY <3>1
  <2>3. \A i \in Nat : i \in Good
    <3> HIDE DEF Good
    <3> QED
      BY <2>1, <2>2, Induction
  <2>4. \A i \in 0..MaxCalls : at[i] \in K
    BY <2>3
  <2>5. \E D : at = [i \in 0..MaxCalls |-> D[i]]
    BY <1>5
  <2> QED
    BY <2>4, <2>5
<1> DEFINE S == {i \in 0..MaxCalls : \A j \in 0..i : at[j] \in DOMAIN ion}
           n == Cardinality(S)
<1>9. n \in 0..(MaxCalls + 1) /\ S = 0..(n - 1)
  <2>1. S \subseteq 0..MaxCalls /\ \A i \in S : \A j \in 0..i : j \in S
    OBVIOUS
  <2> HIDE DEF S
  <2> QED
    BY <2>1, InitialSegment
<1>10. \A i \in 0..MaxCalls : i < n <=> \A j \in 0..i : at[j] \in DOMAIN ion
  <2>1. \A i \in 0..MaxCalls : i \in S <=> \A j \in 0..i : at[j] \in DOMAIN ion
    OBVIOUS
  <2> HIDE DEF S, n
  <2> QED
    BY <1>9, <2>1
<1>11. Chain(h) = [i \in 1..n |-> at[i - 1]]
  BY <1>6 DEF Chain
<1> HIDE DEF n
<1> QED
  BY <1>7, <1>8, <1>9, <1>10, <1>11 DEF Follows

(* The keys of a chain are there, and are of one file. *)
LEMMA ChainListed ==
  ASSUME IInv, NEW f \in Files, NEW h \in Listed(f)
  PROVE  /\ Len(Chain(h)) \in Nat
         /\ \A i \in 1..Len(Chain(h)) : Chain(h)[i] \in DOMAIN ion /\ Chain(h)[i] \in Listed(f)
<1>1. TypeOK /\ h \in Keys
  BY RecordedFacts DEF IInv, Typed
<1>2. PICK at, n : Follows(at, n, h)
  BY <1>1, ChainFollows
<1>3. /\ n \in 0..(MaxCalls + 1) /\ at[0] = h
      /\ Chain(h) = [i \in 1..n |-> at[i - 1]]
      /\ \A i \in 1..MaxCalls : at[i] = NextKey(at[i - 1])
      /\ \A i \in 0..MaxCalls : i < n <=> \A j \in 0..i : at[j] \in DOMAIN ion
  BY <1>2 DEF Follows
<1>4. \A i \in 0..(n - 1) : at[i] \in DOMAIN ion
  BY <1>3
<1>5. ASSUME NEW k \in Listed(f), k \in DOMAIN ion, ion[k] \in DOMAIN ion PROVE ion[k] \in Listed(f)
  BY <1>5 DEF IInv, Rest, Records, LinksForward, Listed, Members
<1>6. \A i \in 0..(n - 1) : at[i] \in Listed(f)
  <2> DEFINE Good == {i \in Nat : i < n => at[i] \in Listed(f)}
  <2>1. 0 \in Good
    BY <1>3
  <2>2. \A i \in Nat : i \in Good => i + 1 \in Good
    <3>1. ASSUME NEW i \in Nat, i \in Good, i + 1 < n PROVE at[i + 1] \in Listed(f)
      <4>1. i + 1 \in 1..MaxCalls /\ (i + 1) - 1 = i /\ i \in 0..(n - 1) /\ i + 1 \in 0..(n - 1)
        BY <1>3, <3>1
      <4>2. at[i] \in Listed(f) /\ at[i] \in DOMAIN ion /\ at[i + 1] \in DOMAIN ion
        BY <1>3, <1>4, <3>1, <4>1
      <4>3. at[i + 1] = ion[at[i]]
        BY <1>3, <4>1, <4>2 DEF NextKey
      <4> QED
        BY <1>5, <4>2, <4>3
    <3> QED
      BY <3>1
  <2>3. \A i \in Nat : i \in Good
    <3> HIDE DEF Good
    <3> QED
      BY <2>1, <2>2, Induction
  <2> QED
    BY <1>3, <2>3
<1>7. Len(Chain(h)) = n /\ \A i \in 1..n : Chain(h)[i] = at[i - 1] /\ i - 1 \in 0..(n - 1)
  BY <1>3
<1> QED
  BY <1>3, <1>4, <1>6, <1>7

LEMMA DeInitKeeps ==
  ASSUME IInv, Typed', NEW f \in Files, DeInitFile(f), UNCHANGED <<serverVars, recorded, hurt>>
  PROVE  Rest'
<1>1. /\ UNCHANGED <<recorded, dtc, used, writing, backlog, qs, fl, hurt>>
      /\ f \in removing /\ removing' = removing \ {f}
  BY DEF DeInitFile, serverVars
<1>2. f \in hurt
  BY <1>1 DEF IInv, Rest, GoneIsHurt
<1>3. \E ks : /\ \A k \in ks : k \in DOMAIN ion /\ k \in Listed(f)
              /\ ion' = ion \/ ion' = Out(ion, ks)
              /\ iod' = iod \/ iod' = iod \ ks
              /\ md' = md \/ md' = Out(md, {f})
  <2>1. CASE f \notin DOMAIN md
    <3>1. UNCHANGED <<md, ion, iod>>
      BY <2>1 DEF DeInitFile
    <3> DEFINE ks == {}
    <3>2. \A k \in ks : k \in DOMAIN ion /\ k \in Listed(f)
      OBVIOUS
    <3>3. /\ \A k \in ks : k \in DOMAIN ion /\ k \in Listed(f)
          /\ ion' = ion \/ ion' = Out(ion, ks)
          /\ iod' = iod \/ iod' = iod \ ks
          /\ md' = md \/ md' = Out(md, {f})
      BY <3>1, <3>2
    <3> HIDE DEF ks
    <3> QED
      BY <3>3
  <2>2. CASE f \in DOMAIN md /\ ~md[f].dirty
    <3>1. PICK n \in 0..Len(<<>>) :
             /\ ion' = Out(ion, {(<<>>)[i] : i \in 1..n})
             /\ iod' = iod \ {(<<>>)[i] : i \in 1..n}
             /\ md' = md \/ md' = Out(md, {f})
      BY <2>2 DEF DeInitFile
    <3>2. {(<<>>)[i] : i \in 1..n} = {}
      BY <3>1
    <3> QED
      BY <3>1, <3>2
  <2>3. CASE f \in DOMAIN md /\ md[f].dirty
    <3>1. PICK n \in 0..Len(Chain(md[f].head)) :
             /\ ion' = Out(ion, {Chain(md[f].head)[i] : i \in 1..n})
             /\ iod' = iod \ {Chain(md[f].head)[i] : i \in 1..n}
             /\ md' = md \/ md' = Out(md, {f})
      BY <2>3, ZenonT(60) DEF DeInitFile
    <3>2. PICK h : h = md[f].head
      OBVIOUS
    <3>3. h \in Listed(f)
      BY <2>3, <3>2 DEF IInv, Rest, Heads, MdHeads, Owned, Listed
    <3>4. \A i \in 1..n : Chain(h)[i] \in DOMAIN ion /\ Chain(h)[i] \in Listed(f)
      BY <3>1, <3>2, <3>3, ChainListed
    <3> DEFINE ks == {Chain(h)[i] : i \in 1..n}
    <3>5. \A k \in ks : k \in DOMAIN ion /\ k \in Listed(f)
      BY <3>4
    <3> QED
      BY <3>1, <3>2, <3>5
  <2> QED
    BY <2>1, <2>2, <2>3
<1>4. PICK ks : /\ \A k \in ks : k \in DOMAIN ion /\ k \in Listed(f)
                /\ ion' = ion \/ ion' = Out(ion, ks)
                /\ iod' = iod \/ iod' = iod \ ks
                /\ md' = md \/ md' = Out(md, {f})
  BY <1>3
<1>5. /\ DOMAIN ion' \subseteq DOMAIN ion
      /\ \A k \in DOMAIN ion' : ion'[k] = ion[k]
      /\ \A k \in DOMAIN ion : k \notin ks => k \in DOMAIN ion'
  BY <1>4 DEF Out
<1>6. /\ DOMAIN md' \subseteq DOMAIN md
      /\ \A g \in DOMAIN md' : md'[g] = md[g]
      /\ \A g \in DOMAIN md : g # f => g \in DOMAIN md'
  BY <1>4 DEF Out
<1>7. iod' \subseteq iod /\ \A k \in iod : k \notin ks => k \in iod'
  BY <1>4
<1>8. DbFrame
  <2>1. used \in Nat /\ iod \subseteq 1..used
    BY RecordedFacts DEF IInv, Rest, Records, KnownKeys
  <2> QED
    BY <1>1, <1>4, <1>5, <1>6, <1>7, <2>1 DEF DbFrame, KeyFrame
<1>9. FewerWaiting
  BY <1>1, StillWaiting DEF IInv
<1>10. ASSUME NEW g \in Files \ hurt' PROVE DataSame(g) /\ StageSame(g)
  <2>1. g # f
    BY <1>1, <1>2
  <2>2. \A k \in Listed(g) : k \notin ks
    BY <1>4, <2>1 DEF IInv, Rest, Records, RecordedOnce, Listed, Members
  <2>3. DataSame(g)
    BY <1>1, <1>5, <1>6, <1>7, <2>1, <2>2 DEF DataSame
  <2> QED
    BY <1>1, <2>3 DEF StageSame, RecordingOf, Recording, Busy
<1>11. removing' \subseteq hurt' /\ fl' = fl /\ qs' = qs /\ hurt \subseteq hurt'
  BY <1>1 DEF IInv, Rest, GoneIsHurt
<1> QED
  BY <1>8, <1>9, <1>10, <1>11, FrameKeeps
-----------------------------------------------------------------------------
(* que_out_modify_md(). *)
LEMMA GetMdKeeps ==
  ASSUME IInv, Typed', GetMd
  PROVE  Rest'
<1>1. /\ Typed /\ qs \in QsType /\ md_mutex = "free" /\ qs.pc = "md"
  BY DEF GetMd, IInv, Typed, TypeOK, QsType
<1>2. CASE Die("fault")
  BY <1>2, DieRest
<1>3. CASE ~Die("fault")
  <2>1. PICK f \in Files : f = qs.req.path
    BY <1>1, RequestFacts DEF Typed, AtHand
  <2>2. /\ UNCHANGED <<recorded, used, iod, ion, dtc, md, writing, removing, backlog, fl, hurt>>
        /\ f \in DOMAIN md /\ qs'.req = qs.req /\ qs'.md = md[f]
        /\ qs'.pc = IF qs.req.io_type = "READ" THEN "put"
                    ELSE IF md[f].dirty THEN "tail" ELSE "ion"
    BY <1>1, <1>3, <2>1 DEF GetMd, QsType, dbVars, callVars, history
  <2>3. DbSame /\ DbFrame
    BY <2>2, SameIsFrame DEF DbSame, IInv, Rest
  <2>4. FewerWaiting
    BY <1>1, <2>2, StillWaiting
  <2>5. Records' /\ Waiting'
    BY <2>3, <2>4, RecordsFrame, WaitingFrame DEF IInv, Rest, DbFrame
  <2>6. Reached' /\ MdHeads'
    BY <2>3, HeadsFrame DEF IInv, Rest
  <2>7. CopyHeads'
    BY <2>1, <2>2 DEF CopyHeads, IInv, Rest, Heads, MdHeads
  <2>8. NewHead'
    BY <2>2 DEF NewHead
  <2>9. FlushHead'
    BY <2>2, <2>3, FlushFrame DEF IInv, Rest
  <2>10. ASSUME NEW g \in Files \ hurt' PROVE \E d \in 0..Len(recorded'[g]) : Standing(g, d)'
    <3>1. ~RecordingOf(g) /\ ~Busy(g) /\ ~Busy(g)'
      BY <1>1, <2>2 DEF Typed, Turns, RecordingOf, Flushing, Busy
    <3>2. PICK d \in 0..Len(recorded[g]) : Standing(g, d)
      BY <2>2 DEF IInv, Rest, Standings
    <3>3. CASE g # f
      <4>1. StageSame(g)
        BY <2>1, <2>2, <3>1, <3>3 DEF StageSame, RecordingOf, Busy
      <4> QED
        BY <1>1, <2>2, <2>3, <3>2, <4>1, SameIsSame, StandingStays
    <3>4. CASE g = f
      <4>1. Last(g) = NoKey /\ Last(g)' = NoKey
        BY <2>1, <2>2, <3>1, <3>4 DEF Last, Writing, RecordingOf
      <4>2. Known(g) = Len(recorded[g]) /\ Known(g)' = Len(recorded[g])
        BY <2>1, <2>2, <3>1, <3>4 DEF Known, Writing, RecordingOf
      <4>3. Stored(g, d) = d /\ Stored(g, d)' = d
        BY <3>1 DEF Stored
      <4>4. qs'.md = md'[g]
        BY <2>2, <3>4
      <4> QED
        BY <2>2, <3>1, <3>2, <4>1, <4>2, <4>3, <4>4 DEF Standing
    <3> QED
      BY <3>3, <3>4
  <2>11. GoneIsHurt' /\ Standings'
    BY <2>2, <2>10 DEF IInv, Rest, GoneIsHurt, Standings
  <2> QED
    BY <2>5, <2>6, <2>7, <2>8, <2>9, <2>11 DEF Rest, Heads
<1> QED
  BY <1>2, <1>3

LEMMA PutTailKeeps ==
  ASSUME IInv, Typed', PutTail
  PROVE  Rest'
<1>1. /\ Typed /\ TypeOK /\ qs \in QsType /\ qs.pc = "tail" /\ qs.md.dirty
      /\ qs.req.ion_key \in Keys
      /\ qs.req.io_type = "WRITE" /\ fl.pc \notin {"iod", "out", "ion", "clear"}
  BY RequestFacts DEF PutTail, IInv, Typed, AtHand, Turns, Recording, Flushing, TypeOK, QsType
<1>2. CASE Die("fault")
  BY <1>2, DieRest
<1>3. CASE ~Die("fault")
  <2>1. PICK f \in Files : f = qs.req.path
    BY <1>1, RequestFacts DEF Typed, AtHand
  <2>2. PICK t, k : t = qs.md.tail /\ k = qs.req.ion_key
    OBVIOUS
  <2>3. /\ UNCHANGED <<recorded, used, iod, dtc, md, writing, removing, backlog, fl, hurt>>
        /\ t \in DOMAIN ion /\ ion' = Put(ion, t, k)
        /\ qs' = [qs EXCEPT !.pc = "ion"]
    BY <1>3, <2>2 DEF PutTail, callVars, history
  <2>4. /\ DOMAIN ion' = DOMAIN ion /\ ion'[t] = k
        /\ \A j \in DOMAIN ion \ {t} : ion'[j] = ion[j]
    BY <2>3 DEF Put
  <2>5. /\ qs'.pc = "ion" /\ qs'.req = qs.req /\ qs'.md = qs.md
    BY <1>1, <2>3 DEF QsType
  <2>6. /\ Owned(recorded[f], dtc[f], ion, iod, qs.md) /\ t \in Listed(f)
    BY <1>1, <2>1, <2>2 DEF IInv, Rest, Heads, CopyHeads, Recording, Owned, Listed
  <2>7. InHand = k /\ InHand' = k /\ k # NoKey
    BY <1>1, <2>2, <2>5, KeyFacts DEF InHand
  <2>8. /\ Unrecorded(k) /\ k \notin DOMAIN ion
        /\ \A r \in writing : k # r.ion_key
        /\ \A i \in 1..Len(backlog) : k # backlog[i].ion_key
        /\ \A j \in DOMAIN ion : ion[j] # k
    BY <1>1, <2>7 DEF IInv, Rest, Waiting, InHandNew, Unrecorded, Records, KnownKeys
  <2>9. Records'
    <3>1. RecordedOnce'
      BY <2>3 DEF IInv, Rest, Records, RecordedOnce
    <3>2. LinksForward'
      BY <2>3, <2>4, <2>8 DEF IInv, Rest, Records, LinksForward
    <3>3. k <= used
      <4>1. k \in iod /\ iod \subseteq 1..used
        BY <2>8 DEF Unrecorded, IInv, Rest, Records, KnownKeys
      <4> QED
        BY <4>1
    <3>4. KnownKeys'
      BY <2>3, <2>4, <3>3 DEF IInv, Rest, Records, KnownKeys, Listed
    <3> QED
      BY <3>1, <3>2, <3>4 DEF Records
  <2>10. \A j : /\ Unrecorded(j) => Unrecorded(j)'
                /\ New(j) /\ j # k => New(j)'
    BY <2>3, <2>4 DEF New, Unrecorded, Listed
  <2>11. Waiting'
    <3>1. WritingNew'
      <4>1. ASSUME NEW r \in writing PROVE New(r.ion_key)'
        <5>1. PICK j : j = r.ion_key
          OBVIOUS
        <5>2. New(j) /\ j # k
          BY <2>8, <5>1 DEF IInv, Rest, Waiting, WritingNew
        <5>3. New(j)'
          BY <2>10, <5>2
        <5> QED
          BY <5>1, <5>3, <2>3 DEF New, Unrecorded
      <4> QED
        BY <2>3, <4>1 DEF IInv, Rest, Waiting, WritingNew
    <3>2. BacklogNew'
      <4>1. ASSUME NEW i \in 1..Len(backlog), backlog[i].ion_key # NoKey
            PROVE  New(backlog[i].ion_key)'
        <5>1. PICK j : j = backlog[i].ion_key
          OBVIOUS
        <5>2. New(j) /\ j # k
          BY <2>8, <4>1, <5>1 DEF IInv, Rest, Waiting, BacklogNew
        <5>3. New(j)'
          BY <2>10, <5>2
        <5> QED
          BY <5>1, <5>3, <2>3 DEF New, Unrecorded
      <4> QED
        BY <2>3, <4>1 DEF IInv, Rest, Waiting, BacklogNew
    <3>3. InHandNew'
      <4>1. Unrecorded(k)'
        BY <2>8, <2>10
      <4>2. \A j \in DOMAIN ion' : ion'[j] = k => j \in Listed(f)'
        BY <2>3, <2>4, <2>6, <2>8 DEF Listed
      <4> QED
        BY <2>1, <2>3, <2>5, <2>7, <2>8, <4>1, <4>2 DEF InHandNew, Unrecorded, Listed
    <3> QED
      BY <3>1, <3>2, <3>3 DEF Waiting
  <2>12. \A g \in Files : \A m : Owned(recorded[g], dtc[g], ion, iod, m) =>
                                    Owned(recorded[g], dtc[g], ion', iod, m)
    BY <2>4 DEF Owned, IfThere
  <2>13. Heads'
    <3>1. Reached'
      BY <2>3 DEF IInv, Rest, Heads, Reached, Listed
    <3>2. MdHeads'
      BY <1>1, <2>3, <2>12, Values DEF IInv, Rest, Heads, MdHeads
    <3>3. CopyHeads'
      BY <2>1, <2>3, <2>5, <2>6, <2>12 DEF CopyHeads
    <3>4. NewHead' /\ FlushHead'
      BY <1>1, <2>3, <2>5 DEF NewHead, FlushHead
    <3> QED
      BY <3>1, <3>2, <3>3, <3>4 DEF Heads
  <2>14. ASSUME NEW g \in Files \ hurt' PROVE \E d \in 0..Len(recorded'[g]) : Standing(g, d)'
    <3>1. PICK d \in 0..Len(recorded[g]) : Standing(g, d)
      BY <2>3 DEF IInv, Rest, Standings
    <3>2. ~Busy(g) /\ ~Busy(g)'
      BY <1>1, <2>3 DEF Busy
    <3>3. CASE g # f
      <4>1. t \notin Listed(g)
        BY <2>6, <3>3 DEF IInv, Rest, Records, RecordedOnce, Listed, Members
      <4>2. DataSame(g)
        BY <2>3, <2>4, <4>1 DEF DataSame
      <4>3. StageSame(g)
        BY <2>1, <2>3, <2>5, <3>2, <3>3 DEF StageSame, RecordingOf
      <4> QED
        BY <1>1, <2>3, <3>1, <4>2, <4>3, StandingStays
    <3>4. CASE g = f
      <4>1. RecordingOf(g) /\ RecordingOf(g)' /\ Writing(g) /\ Writing(g)'
        BY <1>1, <2>1, <2>5, <3>4 DEF RecordingOf, Recording, Writing
      <4>2. Last(g) = NoKey /\ Last(g)' = k
        BY <1>1, <2>2, <2>5, <4>1 DEF Last
      <4>3. Known(g) = Len(recorded[g]) /\ Known(g)' = Len(recorded[g])
        BY <1>1, <2>3, <2>5 DEF Known
      <4>4. Stored(g, d) = d /\ Stored(g, d)' = d
        BY <3>2 DEF Stored
      <4>5. qs.md = md[g] /\ md[g] = MetaFor(recorded[g], d, Len(recorded[g]))
        BY <3>1, <3>2, <4>1, <4>3 DEF Standing
      <4>6. d # Len(recorded[g]) /\ t = recorded[g][Len(recorded[g])]
        BY <1>1, <2>2, <4>5 DEF MetaFor, Clean
      <4>7. Kept(recorded[g], d, d, NoKey, ion, iod, dtc[g])
        BY <3>1, <4>2, <4>4 DEF Standing
      <4>8. Len(recorded[g]) \in Nat
        BY <1>1, RecordedFacts
      <4>9. \A i \in 1..Len(recorded[g]) : recorded[g][i] = t => i = Len(recorded[g])
        BY <4>6, <4>8 DEF IInv, Rest, Records, RecordedOnce
      <4>10. Kept(recorded[g], d, d, k, ion', iod, dtc[g])
        BY <2>3, <2>4, <4>6, <4>7, <4>9, <4>8 DEF Kept
      <4> QED
        BY <2>3, <2>5, <3>1, <3>2, <4>2, <4>3, <4>4, <4>5, <4>10 DEF Standing
    <3> QED
      BY <3>3, <3>4
  <2>15. GoneIsHurt' /\ Standings'
    BY <2>3, <2>14 DEF IInv, Rest, GoneIsHurt, Standings
  <2> QED
    BY <2>9, <2>11, <2>13, <2>15 DEF Rest
<1> QED
  BY <1>2, <1>3

(* A recording: the key is the last of its file, and linked to by its own. *)
LEMMA PutIonKeeps ==
  ASSUME IInv, Typed', PutIon
  PROVE  Rest'
<1>1. /\ Typed /\ TypeOK /\ qs \in QsType /\ qs.pc = "ion" /\ qs.req.ion_key \in Keys
      /\ qs.req.io_type = "WRITE" /\ fl.pc \notin {"iod", "out", "ion", "clear"}
  BY RequestFacts DEF PutIon, IInv, Typed, AtHand, Turns, Recording, Flushing, TypeOK, QsType
<1>2. PICK f \in Files : f = qs.req.path
  BY <1>1, RequestFacts DEF Typed, AtHand
<1>3. PICK k \in Keys : k = qs.req.ion_key
  BY <1>1
<1>4. PICK n \in Nat : n = Len(recorded[f])
  BY <1>1, RecordedFacts
<1>5. /\ UNCHANGED <<used, iod, dtc, md, writing, removing, backlog, fl, hurt>>
      /\ ion' = Put(ion, k, NoKey) /\ qs'.pc = "put" /\ qs'.req = qs.req /\ qs'.md = qs.md
      /\ recorded' = [recorded EXCEPT ![f] = Append(@, k)]
  BY <1>1, <1>2, <1>3 DEF PutIon, QsType, callVars
<1>6. /\ Len(recorded'[f]) = n + 1 /\ recorded'[f][n + 1] = k
      /\ \A i \in 1..n : recorded'[f][i] = recorded[f][i]
      /\ \A g \in Files \ {f} : recorded'[g] = recorded[g]
  BY <1>1, <1>4, <1>5, RecordedFacts DEF TypeOK
<1>7. /\ Listed(f)' = Listed(f) \union {k}
      /\ \A g \in Files \ {f} : Listed(g)' = Listed(g)
  <2>1. Members(recorded'[f]) = Members(recorded[f]) \union {k}
    BY <1>4, <1>6, SMTT(60) DEF Members
  <2> QED
    BY <1>6, <2>1 DEF Listed
<1>8. InHand = k /\ InHand' = NoKey /\ k \notin {NoKey, Gone, Zeros}
  BY <1>1, <1>3, <1>5, KeyFacts DEF InHand
<1>9. /\ k \in iod /\ k \notin DOMAIN ion /\ \A g \in Files : k \notin Listed(g)
      /\ \A r \in writing : k # r.ion_key
      /\ \A i \in 1..Len(backlog) : k # backlog[i].ion_key
      /\ \A j \in DOMAIN ion : ion[j] = k => j \in Listed(f)
  BY <1>2, <1>8 DEF IInv, Rest, Waiting, InHandNew, Unrecorded, Records, KnownKeys
<1>10. /\ DOMAIN ion' = DOMAIN ion \union {k} /\ ion'[k] = NoKey
       /\ \A j \in DOMAIN ion : ion'[j] = ion[j]
  BY <1>5, <1>9 DEF Put
<1>11. NoKey \notin DOMAIN ion'
  BY <1>1, <1>8, <1>10, Values, KeyFacts
<1>12. \A i \in 1..n : recorded[f][i] \in Listed(f) /\ recorded[f][i] # k
  BY <1>1, <1>4, <1>9, RecordedFacts
<1>13. \A g \in Files : /\ Len(recorded[g]) \in Nat
                        /\ \A i \in 1..Len(recorded[g]) : recorded[g][i] \in Listed(g)
  BY <1>1, RecordedFacts
<1>14. Records'
  <2>1. RecordedOnce'
    <3>1. ASSUME NEW g \in Files, NEW h \in Files,
                 NEW i \in 1..Len(recorded'[g]), NEW j \in 1..Len(recorded'[h]),
                 recorded'[g][i] = recorded'[h][j]
          PROVE  g = h /\ i = j
      <4>1. \A a, b \in Files : \A c \in 1..Len(recorded[a]), e \in 1..Len(recorded[b]) :
                recorded[a][c] = recorded[b][e] => a = b /\ c = e
        BY DEF IInv, Rest, Records, RecordedOnce
      <4>2. ASSUME NEW a \in Files, NEW c \in 1..Len(recorded'[a]), ~(a = f /\ c = n + 1)
            PROVE  c \in 1..Len(recorded[a]) /\ recorded'[a][c] = recorded[a][c]
        BY <1>4, <1>6, <4>2
      <4>3. ASSUME NEW a \in Files, NEW c \in 1..Len(recorded'[a]), ~(a = f /\ c = n + 1)
            PROVE  recorded'[a][c] # k
        <5>1. c \in 1..Len(recorded[a]) /\ recorded'[a][c] = recorded[a][c]
          BY <4>2, <4>3
        <5>2. recorded[a][c] \in Listed(a) /\ k \notin Listed(a)
          BY <1>9, <1>13, <5>1
        <5> QED
          BY <5>1, <5>2
      <4>4. CASE ~(g = f /\ i = n + 1) /\ ~(h = f /\ j = n + 1)
        <5>1. i \in 1..Len(recorded[g]) /\ recorded'[g][i] = recorded[g][i]
          BY <4>2, <4>4
        <5>2. j \in 1..Len(recorded[h]) /\ recorded'[h][j] = recorded[h][j]
          BY <4>2, <4>4
        <5> QED
          <6>1. recorded[g][i] = recorded[h][j]
            BY <3>1, <5>1, <5>2
          <6>2. g \in Files /\ h \in Files /\ i \in 1..Len(recorded[g]) /\ j \in 1..Len(recorded[h])
            BY <5>1, <5>2
          <6> QED
            BY <4>1, <6>1, <6>2
      <4>5. CASE g = f /\ i = n + 1
        BY <1>6, <3>1, <4>3, <4>5
      <4>6. CASE h = f /\ j = n + 1
        BY <1>6, <3>1, <4>3, <4>6
      <4> QED
        BY <4>4, <4>5, <4>6
    <3> QED
      BY <3>1 DEF RecordedOnce
  <2>2. LinksForward'
    <3>1. ASSUME NEW g \in Files, NEW i \in 1..Len(recorded'[g]),
                 recorded'[g][i] \in DOMAIN ion', ion'[recorded'[g][i]] \in DOMAIN ion'
          PROVE  \E j \in 1..Len(recorded'[g]) : i < j /\ ion'[recorded'[g][i]] = recorded'[g][j]
      <4>1. recorded'[g][i] # k
        BY <1>10, <1>11, <3>1
      <4>2. i \in 1..Len(recorded[g]) /\ recorded'[g][i] = recorded[g][i]
        BY <1>4, <1>6, <4>1
      <4>3. /\ recorded[g][i] \in DOMAIN ion /\ recorded[g][i] \in Listed(g)
            /\ ion'[recorded'[g][i]] = ion[recorded[g][i]]
        BY <1>10, <1>13, <3>1, <4>1, <4>2
      <4>4. CASE ion[recorded[g][i]] = k
        <5>1. g = f
          BY <1>9, <4>3, <4>4 DEF IInv, Rest, Records, RecordedOnce, Listed, Members
        <5> QED
          BY <1>4, <1>6, <4>2, <4>3, <4>4, <5>1
      <4>5. CASE ion[recorded[g][i]] # k
        <5>1. ion[recorded[g][i]] \in DOMAIN ion
          BY <1>10, <3>1, <4>3, <4>5
        <5>2. PICK j \in 1..Len(recorded[g]) : i < j /\ ion[recorded[g][i]] = recorded[g][j]
          BY <4>2, <4>3, <5>1 DEF IInv, Rest, Records, LinksForward
        <5>3. j \in 1..Len(recorded'[g]) /\ recorded'[g][j] = recorded[g][j]
          BY <1>4, <1>6
        <5> QED
          BY <4>3, <5>2, <5>3
      <4> QED
        BY <4>4, <4>5
    <3> QED
      BY <3>1 DEF LinksForward
  <2>3. KnownKeys'
    <3>1. /\ used \in Nat /\ iod \subseteq 1..used /\ k \in 1..used
          /\ \A j \in DOMAIN ion : ion[j] <= used
          /\ \A j \in DOMAIN ion : \E g \in Files : j \in Listed(g)
          /\ \A g \in Files : Listed(g) \subseteq 1..used
      BY <1>1, <1>9, RecordedFacts DEF IInv, Rest, Records, KnownKeys
    <3>2. \A j \in DOMAIN ion' : \E g \in Files : j \in Listed(g)'
      BY <1>7, <1>10, <3>1
    <3>3. \A j \in DOMAIN ion' : ion'[j] <= used'
      BY <1>5, <1>10, <3>1 DEF NoKey
    <3> QED
      BY <1>5, <1>7, <3>1, <3>2, <3>3 DEF KnownKeys
  <2> QED
    BY <2>1, <2>2, <2>3 DEF Records
<1>15. \A j : j # k /\ j # NoKey /\ New(j) => New(j)'
  BY <1>5, <1>7, <1>10 DEF New, Unrecorded
<1>16. Waiting'
  <2>1. WritingNew'
    <3>1. ASSUME NEW r \in writing PROVE New(r.ion_key)'
      <4>1. PICK j : j = r.ion_key
        OBVIOUS
      <4>2. New(j) /\ j # k /\ j # NoKey
        BY <1>1, <1>9, <4>1, KeyFacts DEF IInv, Rest, Waiting, WritingNew, Typed, AtHand
      <4>3. New(j)'
        BY <1>15, <4>2
      <4> QED
        BY <4>1, <4>3, <1>5 DEF New, Unrecorded
    <3> QED
      BY <1>5, <3>1 DEF IInv, Rest, Waiting, WritingNew
  <2>2. BacklogNew'
    <3>1. ASSUME NEW i \in 1..Len(backlog), backlog[i].ion_key # NoKey
          PROVE  New(backlog[i].ion_key)'
      <4>1. PICK j : j = backlog[i].ion_key
        OBVIOUS
      <4>2. New(j) /\ j # k /\ j # NoKey
        BY <1>9, <3>1, <4>1 DEF IInv, Rest, Waiting, BacklogNew
      <4>3. New(j)'
        BY <1>15, <4>2
      <4> QED
        BY <4>1, <4>3, <1>5 DEF New, Unrecorded
    <3> QED
      BY <1>5, <3>1 DEF IInv, Rest, Waiting, BacklogNew
  <2>3. InHandNew'
    BY <1>8 DEF InHandNew
  <2> QED
    BY <2>1, <2>2, <2>3 DEF Waiting
<1>17. \A g \in Files : dtc[g] \in Listed(g) \union {NoKey, Gone, Zeros}
  BY DEF IInv, Rest, Heads, Reached
<1>18. ASSUME NEW g \in Files, NEW h \in Listed(g), After(recorded[g], dtc[g], h)
       PROVE  After(recorded'[g], dtc[g], h)
  <2>1. dtc[g] # k /\ h # k
    BY <1>8, <1>9, <1>17
  <2>2. ASSUME NEW i \in 1..Len(recorded'[g]), recorded'[g][i] # k
        PROVE  i \in 1..Len(recorded[g]) /\ recorded'[g][i] = recorded[g][i]
    BY <1>4, <1>6, <2>2
  <2> QED
    BY <1>18, <2>1, <2>2 DEF After
<1>19. ASSUME NEW g \in Files, NEW m, Owned(recorded[g], dtc[g], ion, iod, m)
       PROVE  Owned(recorded'[g], dtc[g], ion', iod, m)
  <2>1. m.head \in Listed(g) /\ m.tail \in Listed(g) /\ m.head # k
    BY <1>9, <1>19 DEF Owned, Listed
  <2>2. IfThere(recorded'[g], dtc[g], ion', iod, m.head)
    BY <1>10, <1>18, <1>19, <2>1 DEF Owned, IfThere
  <2>3. Listed(g) \subseteq Members(recorded'[g])
    BY <1>7 DEF Listed
  <2> QED
    BY <2>1, <2>2, <2>3 DEF Owned
<1>20. Heads'
  <2>1. Reached'
    BY <1>5, <1>7, <1>17 DEF Reached
  <2>2. MdHeads'
    BY <1>1, <1>5, <1>19, Values DEF IInv, Rest, Heads, MdHeads
  <2>3. CopyHeads'
    <3>1. qs.md.dirty => Owned(recorded[f], dtc[f], ion, iod, qs.md)
      BY <1>1, <1>2 DEF IInv, Rest, Heads, CopyHeads, Recording
    <3> QED
      BY <1>2, <1>5, <1>19, <3>1 DEF CopyHeads
  <2>4. NewHead'
    <3>1. After(recorded'[f], dtc[f], k)
      <4>1. dtc[f] # k
        BY <1>8, <1>9, <1>17
      <4>2. ASSUME NEW i \in 1..(n + 1), recorded'[f][i] = k PROVE i = n + 1
        BY <1>4, <1>6, <1>12, <4>2
      <4> QED
        BY <1>4, <1>6, <4>1, <4>2 DEF After
    <3>2. recorded'[f] # <<>>
      BY <1>4, <1>6
    <3> QED
      BY <1>2, <1>3, <1>5, <1>6, <3>1, <3>2 DEF NewHead
  <2>5. FlushHead'
    BY <1>1, <1>5 DEF FlushHead
  <2> QED
    BY <2>1, <2>2, <2>3, <2>4, <2>5 DEF Heads
<1>21. ASSUME NEW g \in Files \ hurt' PROVE \E d \in 0..Len(recorded'[g]) : Standing(g, d)'
  <2>1. PICK d \in 0..Len(recorded[g]) : Standing(g, d)
    BY <1>5 DEF IInv, Rest, Standings
  <2>2. ~Busy(g) /\ ~Busy(g)'
    BY <1>1, <1>5 DEF Busy
  <2>3. CASE g # f
    <3>1. k \notin Listed(g) /\ recorded'[g] = recorded[g]
      BY <1>6, <1>9, <2>3
    <3>2. DataSame(g)
      BY <1>5, <1>10, <3>1 DEF DataSame
    <3>3. StageSame(g)
      BY <1>2, <1>5, <2>2, <2>3 DEF StageSame, RecordingOf
    <3> QED
      BY <1>1, <2>1, <3>1, <3>2, <3>3, StandingStays
  <2>4. CASE g = f
    <3>1. RecordingOf(g) /\ RecordingOf(g)' /\ Writing(g) /\ Writing(g)'
      BY <1>1, <1>2, <1>5, <2>4 DEF RecordingOf, Recording, Writing
    <3>2. Known(g) = n /\ Known(g)' = n
      BY <1>1, <1>4, <1>5, <1>6, <2>4, <3>1 DEF Known
    <3>3. Stored(g, d) = d /\ Stored(g, d)' = d
      BY <2>2 DEF Stored
    <3>4. qs.md = md[g] /\ md[g] = MetaFor(recorded[g], d, n)
      BY <2>1, <2>2, <3>1, <3>2 DEF Standing
    <3>5. d < n => Last(g) = k
      BY <1>1, <1>3, <3>1, <3>4 DEF Last, MetaFor
    <3>6. Last(g)' = NoKey
      BY <1>5 DEF Last
    <3>7. Kept(recorded[g], d, d, Last(g), ion, iod, dtc[g])
      BY <2>1, <3>3 DEF Standing
    <3>8. Kept(recorded'[g], d, d, NoKey, ion', iod, dtc[g])
      <4>1. d \in 0..n
        BY <1>4, <2>4
      <4>2. ASSUME NEW i \in (d + 1)..n
            PROVE  /\ recorded'[f][i] \in DOMAIN ion' /\ recorded'[f][i] \in iod
                   /\ ion'[recorded'[f][i]] = recorded'[f][i + 1]
        <5>1. /\ recorded[f][i] \in DOMAIN ion /\ recorded[f][i] \in iod
              /\ ion[recorded[f][i]] = IF i = n THEN k ELSE recorded[f][i + 1]
          BY <1>4, <2>4, <3>5, <3>7, <4>1 DEF Kept
        <5>2. recorded'[f][i] = recorded[f][i]
          BY <1>6, <4>1
        <5> QED
          BY <1>6, <1>10, <4>1, <5>1, <5>2
      <4>3. dtc[f] = IF d = 0 THEN NoKey ELSE recorded'[f][d]
        BY <1>6, <2>4, <3>7, <4>1 DEF Kept
      <4>4. recorded'[f][n + 1] \in DOMAIN ion' /\ recorded'[f][n + 1] \in iod
        BY <1>6, <1>9, <1>10
      <4> QED
        BY <1>6, <1>10, <2>4, <4>1, <4>2, <4>3, <4>4 DEF Kept
    <3>9. MetaFor(recorded'[g], d, n) = MetaFor(recorded[g], d, n)
      <4>1. CASE d = n
        BY <4>1 DEF MetaFor
      <4>2. CASE d # n
        <5>1. d + 1 \in 1..n /\ n \in 1..n
          BY <1>4, <2>4, <4>2
        <5> QED
          BY <1>6, <2>4, <4>2, <5>1 DEF MetaFor
      <4> QED
        BY <4>1, <4>2
    <3>10. f \in DOMAIN md /\ d <= n
      BY <1>4, <2>1, <2>4 DEF Standing
    <3>11. d \in 0..Len(recorded'[g])
      BY <1>4, <1>6, <2>4
    <3>12. Standing(g, d)'
      BY <1>5, <2>2, <2>4, <3>2, <3>3, <3>4, <3>6, <3>8, <3>9, <3>10 DEF Standing
    <3> QED
      BY <3>11, <3>12
  <2> QED
    BY <2>3, <2>4
<1>22. GoneIsHurt' /\ Standings'
  BY <1>5, <1>21 DEF IInv, Rest, GoneIsHurt, Standings
<1> QED
  BY <1>14, <1>16, <1>20, <1>22 DEF Rest

(* What is put back of a file is what was read, or has the key as its last. *)
LEMMA PutMdKeeps ==
  ASSUME IInv, Typed', PutMd
  PROVE  Rest'
<1>1. /\ Typed /\ TypeOK /\ qs \in QsType /\ qs.pc = "put" /\ qs.req \in Request /\ qs.md \in Meta
      /\ Recording /\ fl.pc \notin {"iod", "out", "ion", "clear"}
  BY DEF PutMd, IInv, Typed, AtHand, Turns, Recording, Flushing, TypeOK, QsType
<1>2. PICK f \in Files : f = qs.req.path
  BY <1>1, RequestFacts
<1>3. PICK k, m : /\ k = qs.req.ion_key
                  /\ m = IF qs.req.io_type = "READ" THEN qs.md ELSE Recorded(qs.md, k)
  OBVIOUS
<1>4. PICK n \in Nat : n = Len(recorded[f])
  BY <1>1, RecordedFacts
<1>5. /\ UNCHANGED <<recorded, used, iod, ion, dtc, writing, removing, backlog, fl, hurt>>
      /\ md' = Put(md, f, m) /\ qs'.pc = "find"
  BY <1>1, <1>2, <1>3 DEF PutMd, QsType, callVars, history
<1>6. KeyFrame
  <2>1. used \in Int
    BY <1>1, RecordedFacts
  <2> QED
    BY <1>5, <2>1 DEF KeyFrame, IInv, Rest, Records, KnownKeys
<1>7. FewerWaiting
  BY <1>1, <1>5, StillWaiting
<1>8. Records' /\ Waiting'
  BY <1>1, <1>6, <1>7, RecordsFrame, WaitingFrame DEF IInv, Rest
<1>9. DOMAIN md' = DOMAIN md \union {f} /\ md'[f] = m /\ \A g \in DOMAIN md \ {f} : md'[g] = md[g]
  BY <1>5 DEF Put
<1>10. qs.md.dirty => Owned(recorded[f], dtc[f], ion, iod, qs.md)
  BY <1>1, <1>2 DEF IInv, Rest, Heads, CopyHeads
<1>11. ASSUME qs.req.io_type = "WRITE"
       PROVE  /\ n > 0 /\ recorded[f][n] = k /\ After(recorded[f], dtc[f], k)
              /\ m = Recorded(qs.md, k) /\ k \in Members(recorded[f])
  <2>1. /\ recorded[f] # <<>> /\ recorded[f][n] = k /\ After(recorded[f], dtc[f], k)
    BY <1>1, <1>2, <1>3, <1>4, <1>11 DEF IInv, Rest, Heads, NewHead
  <2>2. recorded[f] \in Seq(Keys)
    BY <1>1, RecordedFacts
  <2>3. n > 0
    BY <1>4, <2>1, <2>2
  <2> QED
    BY <1>3, <1>4, <1>11, <2>1, <2>3 DEF Members
<1>12. qs.req.io_type \in {"READ", "WRITE"}
  BY <1>1 DEF Request
<1>13. m.dirty => Owned(recorded[f], dtc[f], ion, iod, m)
  <2>1. CASE qs.req.io_type = "READ"
    BY <1>3, <1>10, <2>1
  <2>2. CASE qs.req.io_type = "WRITE"
    <3>1. m = [dirty |-> TRUE, head |-> IF qs.md.dirty THEN qs.md.head ELSE k, tail |-> k]
      BY <1>11, <2>2 DEF Recorded
    <3> QED
      BY <1>10, <1>11, <2>2, <3>1 DEF Owned, IfThere
  <2> QED
    BY <1>12, <2>1, <2>2
<1>14. Heads'
  <2>1. Reached'
    BY <1>5 DEF IInv, Rest, Heads, Reached, Listed
  <2>2. MdHeads'
    BY <1>5, <1>9, <1>13 DEF IInv, Rest, Heads, MdHeads
  <2>3. CopyHeads' /\ NewHead'
    BY <1>5 DEF CopyHeads, NewHead, Recording
  <2>4. FlushHead'
    BY <1>1, <1>5 DEF FlushHead
  <2> QED
    BY <2>1, <2>2, <2>3, <2>4 DEF Heads
<1>15. ASSUME NEW g \in Files \ hurt' PROVE \E d \in 0..Len(recorded'[g]) : Standing(g, d)'
  <2>1. PICK d \in 0..Len(recorded[g]) : Standing(g, d)
    BY <1>5 DEF IInv, Rest, Standings
  <2>2. ~Busy(g) /\ ~Busy(g)' /\ ~RecordingOf(g)'
    BY <1>1, <1>5 DEF Busy, RecordingOf, Recording
  <2>3. CASE g # f
    <3>1. DataSame(g)
      BY <1>5, <1>9, <2>3 DEF DataSame
    <3>2. StageSame(g)
      BY <1>2, <2>2, <2>3 DEF StageSame, RecordingOf
    <3> QED
      BY <1>1, <1>5, <2>1, <3>1, <3>2, StandingStays
  <2>4. CASE g = f
    <3>1. RecordingOf(g)
      BY <1>1, <1>2, <2>4 DEF RecordingOf
    <3>2. Last(g) = NoKey /\ Last(g)' = NoKey
      BY <1>1, <1>5 DEF Last
    <3>3. Stored(g, d) = d /\ Stored(g, d)' = d
      BY <2>2 DEF Stored
    <3>4. Known(g)' = n
      BY <1>4, <1>5, <2>4 DEF Known
    <3>5. d \in 0..n /\ md[f] = qs.md /\ qs.md = MetaFor(recorded[f], d, Known(f)) /\ d <= Known(f)
      BY <1>4, <2>1, <2>2, <2>4, <3>1 DEF Standing
    <3>6. m = MetaFor(recorded[f], d, n)
      <4>1. CASE qs.req.io_type = "READ"
        <5>1. Known(f) = n
          BY <1>4, <4>1 DEF Known, Writing
        <5> QED
          BY <1>3, <3>5, <4>1, <5>1
      <4>2. CASE qs.req.io_type = "WRITE"
        <5>1. Known(f) = n - 1
          BY <1>1, <1>4, <2>4, <3>1, <4>2 DEF Known, Writing
        <5>2. m = [dirty |-> TRUE, head |-> IF qs.md.dirty THEN qs.md.head ELSE k, tail |-> k]
          BY <1>11, <4>2 DEF Recorded
        <5>3. CASE d = n - 1
          <6>1. qs.md = Clean /\ d + 1 = n /\ d # n
            BY <3>5, <5>1, <5>3 DEF MetaFor
          <6>2. m = [dirty |-> TRUE, head |-> k, tail |-> k]
            BY <5>2, <6>1 DEF Clean
          <6>3. recorded[f][d + 1] = k /\ recorded[f][n] = k
            BY <1>11, <4>2, <6>1
          <6> QED
            BY <6>1, <6>2, <6>3 DEF MetaFor
        <5>4. CASE d # n - 1
          <6>1. qs.md = [dirty |-> TRUE, head |-> recorded[f][d + 1], tail |-> recorded[f][n - 1]]
            BY <3>5, <5>1, <5>4 DEF MetaFor
          <6>2. d # n
            BY <3>5, <5>1
          <6>3. m = [dirty |-> TRUE, head |-> recorded[f][d + 1], tail |-> k]
            BY <5>2, <6>1
          <6>4. recorded[f][n] = k
            BY <1>11, <4>2
          <6> QED
            BY <6>2, <6>3, <6>4 DEF MetaFor
        <5> QED
          BY <5>3, <5>4
      <4> QED
        BY <1>12, <4>1, <4>2
    <3>7. Standing(g, d)'
      BY <1>4, <1>5, <1>9, <2>1, <2>2, <2>4, <3>2, <3>3, <3>4, <3>5, <3>6 DEF Standing
    <3> QED
      BY <1>5, <3>7
  <2> QED
    BY <2>3, <2>4
<1>16. GoneIsHurt' /\ Standings'
  BY <1>5, <1>15 DEF IInv, Rest, GoneIsHurt, Standings
<1> QED
  BY <1>8, <1>14, <1>16 DEF Rest
-----------------------------------------------------------------------------
(* flush2data_center() starts on the chain of a dirty file, or leaves it. *)
LEMMA OpenKeeps ==
  ASSUME IInv, Typed', Open
  PROVE  Rest'
<1>1. /\ Typed /\ TypeOK /\ fl \in FlType /\ fl.pc = "open" /\ md_mutex = "free" /\ ~Recording
  BY DEF Open, IInv, Typed, Turns, TypeOK, FlType
<1>2. CASE \E how : Die(how)
  BY <1>2, DieRest
<1>3. CASE GiveUp
  <2>2. hurt \subseteq hurt' /\ (backlog' = backlog \/ (backlog # <<>> /\ backlog' = Tail(backlog)))
    <3>1. fl'.pc = "pick"
      BY <1>3 DEF GiveUp, FlIdle
    <3>2. ~Die("fault")
      BY <1>1, <3>1 DEF Die
    <3> QED
      BY <1>1, <3>1, <3>2 DEF Open, CloseStaleFd, FlType, history, callVars
  <2> QED
    BY <1>1, <1>3, <2>2, GiveUpKeeps
<1>4. CASE ~GiveUp /\ ~\E how : Die(how)
  <2>1. PICK f \in Files : f = fl.file
    BY <1>1, <1>4, Values DEF Open, FlushMissing, LeaveDirty
  <2>2. /\ UNCHANGED <<recorded, used, iod, ion, dtc, md, writing, removing, backlog, qs, hurt>>
        /\ f \in DOMAIN md /\ md[f].dirty
        /\ fl'.pc = "iod" /\ fl'.file = f /\ fl'.head = md[f].head
    BY <1>1, <1>4, <2>1 DEF Open, FlushMissing, LeaveDirty, FlType, dbVars, callVars, history
  <2>3. DbSame /\ DbFrame
    BY <1>1, <2>2, SameIsFrame DEF DbSame, IInv, Rest
  <2>4. FewerWaiting
    BY <1>1, <2>2, StillWaiting
  <2>5. Records' /\ Waiting'
    BY <1>1, <2>3, <2>4, RecordsFrame, WaitingFrame DEF IInv, Rest, DbFrame
  <2>6. Reached' /\ MdHeads' /\ CopyHeads' /\ NewHead'
    BY <1>1, <2>2, <2>3, HeadsFrame, CopyFrame DEF IInv, Rest
  <2>7. Owned(recorded[f], dtc[f], ion, iod, md[f])
    BY <2>2 DEF IInv, Rest, Heads, MdHeads
  <2>8. FlushHead'
    BY <2>2, <2>7 DEF FlushHead, Owned, Listed
  <2>9. ASSUME NEW g \in Files \ hurt' PROVE \E d \in 0..Len(recorded'[g]) : Standing(g, d)'
    <3>1. PICK d \in 0..Len(recorded[g]) : Standing(g, d)
      BY <2>2 DEF IInv, Rest, Standings
    <3>2. ~Busy(g) /\ ~RecordingOf(g) /\ ~RecordingOf(g)' /\ ~Writing(g) /\ ~Writing(g)'
      BY <1>1, <2>2 DEF Busy, RecordingOf, Recording, Writing
    <3>3. CASE g # f
      <4>1. StageSame(g)
        BY <2>2, <3>2, <3>3 DEF StageSame, Busy
      <4> QED
        BY <1>1, <2>2, <2>3, <3>1, <4>1, SameIsSame, StandingStays
    <3>4. CASE g = f
      <4>1. Last(g) = NoKey /\ Last(g)' = NoKey
        BY <3>2 DEF Last
      <4>2. Known(g) = Len(recorded[g]) /\ Known(g)' = Len(recorded[g])
        BY <2>2, <3>2 DEF Known
      <4>3. Stored(g, d) = d /\ Stored(g, d)' = d
        BY <2>2, <3>2 DEF Stored
      <4>4. md[g] = MetaFor(recorded[g], d, Len(recorded[g]))
        BY <3>1, <3>2, <4>2 DEF Standing
      <4>5. d # Len(recorded[g]) /\ md[g].head = recorded[g][d + 1]
        BY <2>2, <3>4, <4>4 DEF MetaFor, Clean
      <4>6. Len(recorded[g]) \in Nat /\ Busy(g)'
        BY <1>1, <2>2, <3>4, RecordedFacts DEF Busy
      <4>7. d < Len(recorded[g])
        BY <4>5, <4>6
      <4>8. Standing(g, d)'
        BY <2>2, <3>1, <3>2, <3>4, <4>1, <4>2, <4>3, <4>5, <4>6, <4>7 DEF Standing
      <4> QED
        BY <2>2, <4>8
    <3> QED
      BY <3>3, <3>4
  <2>10. GoneIsHurt' /\ Standings'
    BY <2>2, <2>9 DEF IInv, Rest, GoneIsHurt, Standings
  <2> QED
    BY <2>5, <2>6, <2>8, <2>10 DEF Rest, Heads
<1> QED
  BY <1>2, <1>3, <1>4

LEMMA LeaveHurtKeeps ==
  ASSUME IInv, Typed', LeaveHurt
  PROVE  Rest'
<1>1. GiveUp /\ hurt \subseteq hurt' /\ fl.file \in hurt' /\ backlog' = backlog
  BY DEF LeaveHurt, LeaveDirty
<1> QED
  BY <1>1, GiveUpKeeps

LEMMA CallFailsKeeps ==
  ASSUME IInv, Typed', CallFails
  PROVE  Rest'
BY LeaveHurtKeeps DEF CallFails

(* A key is written, or zeros: it was after the one before. *)
LEMMA WriteIodKeeps ==
  ASSUME IInv, Typed', WriteIod
  PROVE  Rest'
<1>1. /\ Typed /\ TypeOK /\ fl \in FlType /\ fl.pc = "iod" /\ ~Recording
  BY DEF WriteIod, IInv, Typed, Turns, Flushing, Recording, TypeOK, FlType
<1>2. CASE \E how : Die(how)
  BY <1>2, DieRest
<1>3. CASE ~\E how : Die(how)
  <2>1. PICK h : h = fl.head
    OBVIOUS
  <2>2. PICK f \in Files : f = fl.file
    BY <1>1 DEF Typed, AtHand, Flushing
  <2>3. f = fl.file /\ h = fl.head
    BY <2>1, <2>2
  <2>4. /\ UNCHANGED <<recorded, used, ion, iod, md, writing, removing, backlog, qs, hurt>>
        /\ h \in DOMAIN ion
        /\ dtc' = [dtc EXCEPT ![f] = IF @ = Gone THEN Gone ELSE IF h \in iod THEN h ELSE Zeros]
        /\ fl'.pc = "out" /\ fl'.file = f /\ fl'.head = h
    BY <1>1, <1>3, <2>3 DEF WriteIod, FlType, callVars, history
  <2>5. /\ dtc'[f] = IF dtc[f] = Gone THEN Gone ELSE IF h \in iod THEN h ELSE Zeros
        /\ \A g \in Files \ {f} : dtc'[g] = dtc[g]
    BY <1>1, <2>4 DEF TypeOK, ClientTypeOK
  <2>6. KeyFrame
    <3>1. used \in Nat /\ iod \subseteq 1..used
      BY <1>1, RecordedFacts DEF IInv, Rest, Records, KnownKeys
    <3> QED
      BY <2>4, <3>1 DEF KeyFrame
  <2>7. FewerWaiting
    BY <1>1, <2>4, StillWaiting
  <2>8. Records' /\ Waiting'
    BY <1>1, <2>6, <2>7, RecordsFrame, WaitingFrame DEF IInv, Rest
  <2>9. h \in Listed(f)
    BY <1>1, <2>3, <2>4 DEF IInv, Rest, Heads, FlushHead
  <2>10. f \in DOMAIN md /\ md[f].dirty => md[f].head = h \/ md[f].head \notin iod
    BY <1>1, <2>3, <2>4 DEF IInv, Rest, Heads, FlushHead
  <2>11. Reached'
    BY <2>4, <2>5, <2>9 DEF IInv, Rest, Heads, Reached, Listed
  <2>12. MdHeads'
    <3>1. ASSUME NEW g \in DOMAIN md, md[g].dirty
          PROVE  Owned(recorded[g], dtc'[g], ion, iod', md[g])
      <4>1. Owned(recorded[g], dtc[g], ion, iod, md[g]) /\ g \in Files
        BY <1>1, <3>1, Values DEF IInv, Rest, Heads, MdHeads
      <4>2. CASE g = f
        <5>1. PICK R : R = recorded[f]
          OBVIOUS
        <5>2. NoKey \notin Members(R) /\ Gone \notin Members(R) /\ Zeros \notin Members(R)
          BY <1>1, <5>1, RecordedFacts, KeyFacts DEF Listed
        <5>3. \A i, j \in 1..Len(R) : R[i] = R[j] => i = j
          BY <5>1 DEF IInv, Rest, Records, RecordedOnce
        <5>4. After(R, dtc'[f], h)
          <6>1. \A i \in 1..Len(R) : dtc'[f] = R[i] => dtc'[f] = h
            BY <2>5, <5>2 DEF Members
          <6>2. Len(R) \in Nat
            BY <1>1, <5>1, RecordedFacts
          <6> QED
            BY <5>3, <6>1, <6>2 DEF After
        <5> QED
          BY <2>10, <3>1, <4>1, <4>2, <5>1, <5>4, <2>4 DEF Owned, IfThere
      <4>3. CASE g # f
        BY <2>4, <2>5, <4>1, <4>3 DEF Owned, IfThere
      <4> QED
        BY <4>2, <4>3
    <3> QED
      BY <2>4, <3>1 DEF MdHeads
  <2>13. CopyHeads' /\ NewHead'
    BY <1>1, <2>4 DEF CopyHeads, NewHead, Recording
  <2>14. FlushHead'
    BY <2>4, <2>5, <2>9, <2>10 DEF FlushHead, Listed
  <2>15. ASSUME NEW g \in Files \ hurt' PROVE \E d \in 0..Len(recorded'[g]) : Standing(g, d)'
    <3>1. PICK d \in 0..Len(recorded[g]) : Standing(g, d)
      BY <2>4 DEF IInv, Rest, Standings
    <3>2. ~RecordingOf(g) /\ ~RecordingOf(g)' /\ ~Writing(g) /\ ~Writing(g)'
      BY <1>1, <2>4 DEF RecordingOf, Recording, Writing
    <3>3. CASE g # f
      <4>2. DataSame(g)
        BY <2>4, <2>5, <3>3 DEF DataSame
      <4>3. StageSame(g)
        BY <2>3, <2>4, <3>2, <3>3 DEF StageSame, Busy
      <4> QED
        BY <1>1, <2>4, <3>1, <4>2, <4>3, StandingStays
    <3>4. CASE g = f
      <4>1. Last(g) = NoKey /\ Last(g)' = NoKey
        BY <3>2 DEF Last
      <4>2. Known(g)' = Known(g)
        BY <2>4, <3>2 DEF Known
      <4>3. Busy(g) /\ Busy(g)' /\ Len(recorded[g]) \in Nat
        BY <1>1, <2>3, <2>4, <3>4, RecordedFacts DEF Busy
      <4>4. Stored(g, d) = d /\ Stored(g, d)' = d + 1
        BY <1>1, <2>4, <4>3 DEF Stored
      <4>5. /\ Kept(recorded[g], d, d, NoKey, ion, iod, dtc[g])
            /\ d < Len(recorded[g]) /\ h = recorded[g][d + 1]
        BY <1>1, <2>3, <3>1, <3>4, <4>1, <4>3, <4>4 DEF Standing
      <4>6. h \in iod
        BY <4>3, <4>5 DEF Kept
      <4>7. dtc'[g] = recorded[g][d + 1]
        <5>1. dtc[g] # Gone
          BY <1>1, <4>3, <4>5, RecordedFacts, KeyFacts DEF Kept
        <5> QED
          BY <2>5, <3>4, <4>5, <4>6, <5>1
      <4>8. Kept(recorded[g], d, d + 1, NoKey, ion, iod, dtc'[g])
        BY <2>4, <4>3, <4>5, <4>7 DEF Kept
      <4>9. Standing(g, d)'
        BY <2>4, <3>1, <3>2, <4>1, <4>2, <4>3, <4>4, <4>5, <4>8 DEF Standing
      <4> QED
        BY <2>4, <4>9
    <3> QED
      BY <3>3, <3>4
  <2>16. GoneIsHurt' /\ Standings'
    BY <2>4, <2>15 DEF IInv, Rest, GoneIsHurt, Standings
  <2> QED
    BY <2>8, <2>11, <2>12, <2>13, <2>14, <2>16 DEF Rest, Heads
<1> QED
  BY <1>2, <1>3

(* Its data is deleted. *)
LEMMA OutIodKeeps ==
  ASSUME IInv, Typed', OutIod
  PROVE  Rest'
<1>1. /\ Typed /\ TypeOK /\ fl \in FlType /\ fl.pc = "out" /\ ~Recording
  BY DEF OutIod, IInv, Typed, Turns, Flushing, Recording, TypeOK, FlType
<1>2. CASE LeaveHurt
  BY <1>2, LeaveHurtKeeps
<1>3. CASE fl.head \in iod
  <2>1. PICK h : h = fl.head
    OBVIOUS
  <2>2. PICK f \in Files : f = fl.file
    BY <1>1 DEF Typed, AtHand, Flushing
  <2>3. f = fl.file /\ h = fl.head
    BY <2>1, <2>2
  <2>4. /\ UNCHANGED <<recorded, used, ion, dtc, md, writing, removing, backlog, qs, hurt>>
        /\ h \in iod /\ iod' = iod \ {h}
        /\ fl'.pc = "ion" /\ fl'.file = f /\ fl'.head = h
    BY <1>1, <1>3, <2>3 DEF OutIod, FlType, callVars, history, Flushed
  <2>5. /\ h \in Listed(f) /\ dtc[f] \in {h, NoKey, Gone, Zeros}
        /\ f \in DOMAIN md /\ md[f].dirty => md[f].head \notin iod'
    BY <1>1, <2>3, <2>4 DEF IInv, Rest, Heads, FlushHead
  <2>6. DbFrame
    <3>1. used \in Nat /\ iod \subseteq 1..used
      BY <1>1, RecordedFacts DEF IInv, Rest, Records, KnownKeys
    <3> QED
      BY <2>4, <2>5, <3>1 DEF DbFrame, KeyFrame
  <2>7. FewerWaiting
    BY <1>1, <2>4, StillWaiting
  <2>8. Records' /\ Waiting'
    BY <1>1, <2>6, <2>7, RecordsFrame, WaitingFrame DEF IInv, Rest, DbFrame
  <2>9. Reached' /\ MdHeads' /\ CopyHeads' /\ NewHead'
    BY <1>1, <2>4, <2>6, HeadsFrame, CopyFrame DEF IInv, Rest
  <2>10. FlushHead'
    BY <2>4, <2>5 DEF FlushHead, Listed
  <2>11. ASSUME NEW g \in Files \ hurt' PROVE \E d \in 0..Len(recorded'[g]) : Standing(g, d)'
    <3>1. PICK d \in 0..Len(recorded[g]) : Standing(g, d)
      BY <2>4 DEF IInv, Rest, Standings
    <3>2. ~RecordingOf(g) /\ ~RecordingOf(g)' /\ ~Writing(g) /\ ~Writing(g)'
      BY <1>1, <2>4 DEF RecordingOf, Recording, Writing
    <3>3. CASE g # f
      <4>1. h \notin Listed(g)
        BY <2>5, <3>3 DEF IInv, Rest, Records, RecordedOnce, Listed, Members
      <4>2. DataSame(g)
        BY <2>4, <4>1 DEF DataSame
      <4>3. StageSame(g)
        BY <2>3, <2>4, <3>2, <3>3 DEF StageSame, Busy
      <4> QED
        BY <1>1, <2>4, <3>1, <4>2, <4>3, StandingStays
    <3>4. CASE g = f
      <4>1. Last(g) = NoKey /\ Last(g)' = NoKey
        BY <3>2 DEF Last
      <4>2. Known(g)' = Known(g)
        BY <2>4, <3>2 DEF Known
      <4>3. Busy(g) /\ Busy(g)' /\ Len(recorded[g]) \in Nat
        BY <1>1, <2>3, <2>4, <3>4, RecordedFacts DEF Busy
      <4>4. Stored(g, d) = d + 1 /\ Stored(g, d)' = d + 1
        BY <1>1, <2>4, <4>3 DEF Stored
      <4>5. /\ Kept(recorded[g], d, d + 1, NoKey, ion, iod, dtc[g])
            /\ d < Len(recorded[g]) /\ h = recorded[g][d + 1]
        BY <1>1, <2>3, <3>1, <3>4, <4>1, <4>3, <4>4 DEF Standing
      <4>6. \A i \in 1..Len(recorded[g]) : recorded[g][i] = h => i = d + 1
        BY <4>3, <4>5 DEF IInv, Rest, Records, RecordedOnce
      <4>7. Kept(recorded[g], d, d + 1, NoKey, ion, iod', dtc[g])
        BY <2>4, <4>3, <4>5, <4>6 DEF Kept
      <4>8. Standing(g, d)'
        BY <2>4, <3>1, <3>2, <4>1, <4>2, <4>3, <4>4, <4>5, <4>7 DEF Standing
      <4> QED
        BY <2>4, <4>8
    <3> QED
      BY <3>3, <3>4
  <2>12. GoneIsHurt' /\ Standings'
    BY <2>4, <2>11 DEF IInv, Rest, GoneIsHurt, Standings
  <2> QED
    BY <2>8, <2>9, <2>10, <2>12 DEF Rest, Heads
<1> QED
  BY <1>2, <1>3 DEF OutIod

(* The key is taken out of the chain, which goes on at the next one. *)
LEMMA OutIonKeeps ==
  ASSUME IInv, Typed', OutIon
  PROVE  Rest'
<1>1. /\ Typed /\ TypeOK /\ fl \in FlType /\ fl.pc = "ion" /\ ~Recording
  BY DEF OutIon, IInv, Typed, Turns, Flushing, Recording, TypeOK, FlType
<1>2. CASE LeaveHurt
  BY <1>2, LeaveHurtKeeps
<1>3. CASE fl.head \in DOMAIN ion
  <2>1. PICK h : h = fl.head
    OBVIOUS
  <2>2. PICK f \in Files : f = fl.file
    BY <1>1 DEF Typed, AtHand, Flushing
  <2>3. PICK x : x = ion[h]
    OBVIOUS
  <2>4. /\ UNCHANGED <<recorded, used, iod, dtc, md, writing, removing, backlog, qs, hurt>>
        /\ h \in DOMAIN ion /\ ion' = Out(ion, {h})
        /\ fl'.pc = (IF x = NoKey THEN "clear" ELSE "iod") /\ fl'.file = f /\ fl'.head = x
    BY <1>1, <1>3, <2>1, <2>2, <2>3 DEF OutIon, FlType, callVars, history, Flushed
  <2>5. /\ DOMAIN ion' = DOMAIN ion \ {h}
        /\ \A j \in DOMAIN ion' : ion'[j] = ion[j]
    BY <2>4 DEF Out
  <2>6. KeyFrame
    <3>1. used \in Nat /\ iod \subseteq 1..used
      BY <1>1, RecordedFacts DEF IInv, Rest, Records, KnownKeys
    <3> QED
      BY <2>4, <2>5, <3>1 DEF KeyFrame
  <2>7. FewerWaiting
    BY <1>1, <2>4, StillWaiting
  <2>8. Records' /\ Waiting'
    BY <1>1, <2>6, <2>7, RecordsFrame, WaitingFrame DEF IInv, Rest
  <2>9. /\ h \in Listed(f) /\ dtc[f] \in {h, NoKey, Gone, Zeros}
        /\ f \in DOMAIN md /\ md[f].dirty => md[f].head \notin iod
    BY <1>1, <2>1, <2>2 DEF IInv, Rest, Heads, FlushHead
  <2>10. DbFrame
    BY <2>4, <2>6 DEF DbFrame
  <2>11. Reached' /\ MdHeads' /\ CopyHeads' /\ NewHead'
    BY <1>1, <2>4, <2>10, HeadsFrame, CopyFrame DEF IInv, Rest
  <2>12. PICK i \in 1..Len(recorded[f]) : recorded[f][i] = h
    BY <2>9 DEF Listed, Members
  <2>13. \A e \in 1..Len(recorded[f]) : recorded[f][e] = h => e = i
    BY <2>12 DEF IInv, Rest, Records, RecordedOnce
  <2>14. ASSUME x \in DOMAIN ion'
         PROVE  x \in Listed(f) /\ After(recorded[f], dtc[f], x)
    <3>1. PICK j \in 1..Len(recorded[f]) : i < j /\ x = recorded[f][j]
      BY <2>4, <2>5, <2>14, <2>3, <2>12 DEF IInv, Rest, Records, LinksForward
    <3>2. \A e \in 1..Len(recorded[f]) : recorded[f][e] = x => e = j
      BY <3>1 DEF IInv, Rest, Records, RecordedOnce
    <3>3. \A e \in 1..Len(recorded[f]) : recorded[f][e] \notin {NoKey, Gone, Zeros}
      BY <1>1, RecordedFacts, KeyFacts
    <3> QED
      BY <2>9, <2>13, <3>1, <3>2, <3>3 DEF After, Listed, Members
  <2>15. FlushHead'
    <3>1. x \in DOMAIN ion' => x \in Members(recorded[f])
      BY <2>14 DEF Listed
    <3>2. IfThere(recorded'[f], dtc'[f], ion', iod', x)
      BY <2>4, <2>14 DEF IfThere
    <3>3. f \in DOMAIN md' /\ md'[f].dirty => md'[f].head \notin iod'
      BY <2>4, <2>9
    <3> QED
      BY <2>4, <3>1, <3>2, <3>3 DEF FlushHead, Listed
  <2>16. ASSUME NEW g \in Files \ hurt' PROVE \E d \in 0..Len(recorded'[g]) : Standing(g, d)'
    <3>1. PICK d \in 0..Len(recorded[g]) : Standing(g, d)
      BY <2>4 DEF IInv, Rest, Standings
    <3>2. ~RecordingOf(g) /\ ~RecordingOf(g)' /\ ~Writing(g) /\ ~Writing(g)'
      BY <1>1, <2>4 DEF RecordingOf, Recording, Writing
    <3>3. CASE g # f
      <4>1. h \notin Listed(g)
        BY <2>9, <3>3 DEF IInv, Rest, Records, RecordedOnce, Listed, Members
      <4>2. DataSame(g)
        BY <2>4, <2>5, <4>1 DEF DataSame
      <4>3. StageSame(g)
        BY <2>2, <2>4, <3>2, <3>3 DEF StageSame, Busy
      <4> QED
        BY <1>1, <2>4, <3>1, <4>2, <4>3, StandingStays
    <3>4. CASE g = f
      <4>1. Last(g) = NoKey /\ Last(g)' = NoKey
        BY <3>2 DEF Last
      <4>2. Known(g) = Len(recorded[g]) /\ Known(g)' = Len(recorded[g])
        BY <2>4, <3>2 DEF Known
      <4>3. Busy(g) /\ Busy(g)' /\ Len(recorded[g]) \in Nat
        BY <1>1, <2>2, <2>4, <3>4, RecordedFacts DEF Busy
      <4>4. Stored(g, d) = d + 1 /\ Stored(g, d + 1)' = d + 1
        BY <1>1, <2>4, <4>3 DEF Stored
      <4>5. /\ Kept(recorded[g], d, d + 1, NoKey, ion, iod, dtc[g])
            /\ d < Len(recorded[g]) /\ h = recorded[g][d + 1]
        BY <1>1, <2>1, <3>1, <3>4, <4>1, <4>3, <4>4 DEF Standing
      <4>6. \A e \in 1..Len(recorded[g]) : recorded[g][e] = h => e = d + 1
        BY <4>3, <4>5 DEF IInv, Rest, Records, RecordedOnce
      <4>7. Kept(recorded[g], d + 1, d + 1, NoKey, ion', iod, dtc[g])
        BY <2>5, <4>3, <4>5, <4>6 DEF Kept
      <4>8. x = IF d + 1 = Len(recorded[g]) THEN NoKey ELSE recorded[g][d + 2]
        BY <2>3, <4>3, <4>5 DEF Kept
      <4>9. x = NoKey <=> d + 1 = Len(recorded[g])
        <5>1. CASE d + 1 = Len(recorded[g])
          BY <4>8, <5>1
        <5>2. CASE d + 1 # Len(recorded[g])
          <6>1. d + 2 \in 1..Len(recorded[g]) /\ x = recorded[g][d + 2]
            BY <4>3, <4>5, <4>8, <5>2
          <6>2. x \in Keys
            BY <1>1, <6>1, RecordedFacts
          <6> QED
            BY <5>2, <6>2, KeyFacts
        <5> QED
          BY <5>1, <5>2
      <4>10. /\ d + 1 \in 0..Len(recorded[g]) /\ g \in DOMAIN md
             /\ x # NoKey => d + 1 < Len(recorded[g]) /\ x = recorded[g][(d + 1) + 1]
        BY <3>1, <4>3, <4>5, <4>8, <4>9 DEF Standing
      <4>11. Standing(g, d + 1)'
        <5> DEFINE e == d + 1
        <5>1. /\ Kept(recorded[g], e, e, NoKey, ion', iod, dtc[g]) /\ Stored(g, e)' = e
              /\ e \in 0..Len(recorded[g]) /\ (x = NoKey <=> e = Len(recorded[g]))
              /\ x # NoKey => e < Len(recorded[g]) /\ x = recorded[g][e + 1]
          BY <4>4, <4>7, <4>9, <4>10
        <5> HIDE DEF e
        <5>2. Standing(g, e)'
          BY <2>4, <3>2, <4>1, <4>2, <4>3, <4>10, <5>1 DEF Standing
        <5> QED
          BY <5>2 DEF e
      <4> QED
        BY <2>4, <4>10, <4>11
    <3> QED
      BY <3>3, <3>4
  <2>17. GoneIsHurt' /\ Standings'
    BY <2>4, <2>16 DEF IInv, Rest, GoneIsHurt, Standings
  <2> QED
    BY <2>8, <2>11, <2>15, <2>17 DEF Rest, Heads
<1> QED
  BY <1>2, <1>3 DEF OutIon

(* The metadata of a flushed file is cleaned, or its file is hurt. *)
LEMMA ClearMdKeeps ==
  ASSUME IInv, Typed', ClearMd
  PROVE  Rest'
<1>1. /\ Typed /\ TypeOK /\ fl \in FlType /\ fl.pc = "clear" /\ ~Recording
  BY DEF ClearMd, IInv, Typed, Turns, Flushing, Recording, TypeOK, FlType
<1>2. PICK f \in Files : f = fl.file
  BY <1>1 DEF Typed, AtHand, Flushing
<1>3. /\ UNCHANGED <<recorded, used, ion, iod, dtc, writing, removing, backlog, qs>>
      /\ fl'.pc = "unlink" /\ hurt \subseteq hurt'
      /\ \/ md' = Put(md, f, Clean) /\ hurt' = hurt
         \/ md' = md /\ f \in hurt'
  BY <1>1, <1>2 DEF ClearMd, FlType, callVars, Cleared
<1>4. FewerWaiting
  BY <1>1, <1>3, StillWaiting
<1>5. \A g \in Files \ {f} : StageSame(g)
  BY <1>2, <1>3 DEF StageSame, RecordingOf, Recording, Busy
<1>6. CASE md' = md /\ f \in hurt'
  <2>1. DbSame
    BY <1>3, <1>6 DEF DbSame
  <2> QED
    BY <1>3, <1>4, <1>5, <1>6, <2>1, SameKeeps
<1>7. CASE md' = Put(md, f, Clean) /\ hurt' = hurt
  <2>1. /\ DOMAIN md' = DOMAIN md \union {f} /\ md'[f] = Clean
        /\ \A g \in DOMAIN md \ {f} : md'[g] = md[g]
    BY <1>7 DEF Put
  <2>2. DbFrame
    <3>1. used \in Nat /\ iod \subseteq 1..used
      BY <1>1, RecordedFacts DEF IInv, Rest, Records, KnownKeys
    <3> QED
      BY <1>3, <2>1, <3>1 DEF DbFrame, KeyFrame
  <2>3. Records' /\ Waiting'
    BY <1>1, <1>4, <2>2, RecordsFrame, WaitingFrame DEF IInv, Rest, DbFrame
  <2>4. Heads'
    BY <1>1, <1>3, <2>2, HeadsFrame, CopyFrame, FlushFrame DEF IInv, Rest, Heads
  <2>5. ASSUME NEW g \in Files \ hurt' PROVE \E d \in 0..Len(recorded'[g]) : Standing(g, d)'
    <3>1. PICK d \in 0..Len(recorded[g]) : Standing(g, d)
      BY <1>7 DEF IInv, Rest, Standings
    <3>2. ~RecordingOf(g) /\ ~RecordingOf(g)' /\ ~Writing(g) /\ ~Writing(g)' /\ ~Busy(g)'
      BY <1>1, <1>3 DEF RecordingOf, Recording, Writing, Busy
    <3>3. CASE g # f
      <4>1. DataSame(g)
        BY <1>3, <2>1, <3>3 DEF DataSame
      <4> QED
        BY <1>1, <1>3, <1>5, <3>1, <3>3, <4>1, StandingStays
    <3>4. CASE g = f
      <4>1. Last(g) = NoKey /\ Last(g)' = NoKey
        BY <3>2 DEF Last
      <4>2. Known(g) = Len(recorded[g]) /\ Known(g)' = Len(recorded[g])
        BY <1>3, <3>2 DEF Known
      <4>3. Stored(g, d) = d /\ Stored(g, d)' = d
        BY <1>1, <3>2 DEF Stored
      <4>4. d = Len(recorded[g])
        BY <1>1, <1>2, <3>1, <3>4 DEF Standing, Busy
      <4>5. md'[g] = MetaFor(recorded[g], d, Len(recorded[g])) /\ g \in DOMAIN md'
        BY <2>1, <3>4, <4>4 DEF MetaFor
      <4>6. Standing(g, d)'
        BY <1>3, <3>1, <3>2, <4>1, <4>2, <4>3, <4>4, <4>5 DEF Standing
      <4> QED
        BY <1>3, <4>6
    <3> QED
      BY <3>3, <3>4
  <2>6. GoneIsHurt' /\ Standings'
    BY <1>3, <2>5 DEF IInv, Rest, GoneIsHurt, Standings
  <2> QED
    BY <2>3, <2>4, <2>6 DEF Rest
<1> QED
  BY <1>3, <1>6, <1>7
-----------------------------------------------------------------------------
LEMMA IInvInit == Init => IInv
<1> SUFFICES ASSUME Init PROVE IInv
  OBVIOUS
<1>1. /\ \A f \in Files : recorded[f] = <<>> /\ dtc[f] = NoKey /\ md[f] = Clean
      /\ DOMAIN md = Files /\ DOMAIN ion = {} /\ iod = {} /\ used = 0 /\ writing = {}
      /\ removing = {} /\ backlog = <<>> /\ qs = QsIdle /\ fl = FlIdle
  BY DEF Init, ClientInit
<1>2. qs.pc = "accept" /\ fl.pc = "pick"
  BY <1>1 DEF QsIdle, FlIdle
<1>3. \A f \in Files : Len(recorded[f]) = 0 /\ Listed(f) = {}
  BY <1>1 DEF Listed, Members
<1>4. Records
  BY <1>1, <1>3 DEF Records, RecordedOnce, KnownKeys, LinksForward
<1>5. Waiting
  <2>1. InHand = NoKey
    BY <1>2 DEF InHand
  <2> QED
    BY <1>1, <2>1 DEF Waiting, WritingNew, BacklogNew, InHandNew
<1>6. Heads
  BY <1>1, <1>2 DEF Heads, Reached, MdHeads, CopyHeads, NewHead, FlushHead, Recording, Clean
<1>7. ASSUME NEW f \in Files PROVE Standing(f, 0) /\ 0 \in 0..Len(recorded[f])
  <2>1. ~Recording /\ ~RecordingOf(f) /\ ~Writing(f) /\ ~Busy(f)
    BY <1>2 DEF Recording, RecordingOf, Writing, Busy
  <2>2. Last(f) = NoKey /\ Known(f) = 0 /\ Stored(f, 0) = 0
    BY <1>3, <2>1 DEF Last, Known, Stored
  <2>3. Kept(recorded[f], 0, 0, NoKey, ion, iod, dtc[f])
    BY <1>1, <1>3 DEF Kept
  <2>4. md[f] = MetaFor(recorded[f], 0, 0)
    BY <1>1 DEF MetaFor
  <2> QED
    BY <1>1, <1>3, <2>1, <2>2, <2>3, <2>4 DEF Standing
<1>8. Standings /\ GoneIsHurt
  BY <1>1, <1>7 DEF Standings, GoneIsHurt
<1> QED
  BY TypedInit, <1>4, <1>5, <1>6, <1>8 DEF IInv, Rest

LEMMA StutterKeeps ==
  ASSUME IInv, Typed', UNCHANGED vars
  PROVE  Rest'
<1>1. /\ UNCHANGED <<recorded, used, iod, ion, dtc, md, writing, removing, backlog, qs, fl, hurt>>
  BY DEF vars, dbVars, callVars, serverVars, history
<1>2. FewerWaiting
  BY <1>1, StillWaiting DEF IInv
<1>3. DbSame
  BY <1>1 DEF DbSame
<1>4. \A f \in Files \ hurt' : StageSame(f)
  BY <1>1 DEF StageSame, RecordingOf, Recording, Busy
<1> QED
  BY <1>1, <1>2, <1>3, <1>4, SameKeeps

LEMMA IInvStep == IInv /\ [Next]_vars => IInv'
<1> SUFFICES ASSUME IInv, [Next]_vars PROVE IInv'
  OBVIOUS
<1>1. Typed'
  BY TypedStep DEF IInv
<1>2. CASE UNCHANGED vars
  BY <1>1, <1>2, StutterKeeps DEF IInv
<1>3. CASE QueOutServ
  BY <1>1, <1>3, AcceptKeeps, ServMoves, GetMdKeeps, PutTailKeeps, PutIonKeeps, PutMdKeeps
  DEF QueOutServ, IInv
<1>4. CASE Flush
  BY <1>1, <1>4, FlushMoves, OpenKeeps, WriteIodKeeps, OutIodKeeps, OutIonKeeps, CallFailsKeeps,
    ClearMdKeeps
  DEF Flush, IInv
<1>5. CASE /\ (\E f \in Files : Call(f)) \/ ((\E r \in writing : QueOut(r)) /\ UNCHANGED hurt)
           /\ UNCHANGED <<listVars, serverVars, recorded, stray, calm>>
  BY <1>1, <1>5, WriteFileKeeps, ReadFileKeeps, DeInitKeeps, QueOutKeeps DEF Call, IInv
<1>6. CASE (\E f \in Files : Replace(f)) \/ Restart
  BY <1>1, <1>6, ReplaceKeeps, RestartKeeps DEF IInv
<1> QED
  BY <1>2, <1>3, <1>4, <1>5, <1>6 DEF Next
-----------------------------------------------------------------------------
(* No file has more recordings than there are keys. *)
LEMMA FewRecorded ==
  ASSUME IInv, NEW f \in Files
  PROVE  Len(recorded[f]) \in 0..MaxCalls
<1>1. PICK n \in Nat : n = Len(recorded[f])
  BY RecordedFacts DEF IInv
<1>2. ASSUME n > MaxCalls PROVE FALSE
  <2> DEFINE g == [i \in 1..n |-> recorded[f][i]]
  <2>1. g \in [1..n -> Keys]
    BY <1>1, RecordedFacts DEF IInv
  <2>2. /\ IsFiniteSet(1..n) /\ Cardinality(1..n) = n
        /\ IsFiniteSet(Keys) /\ Cardinality(Keys) = MaxCalls
    BY <1>2, FS_Interval DEF Keys
  <2> HIDE DEF g
  <2>3. PICK x, y \in 1..n : x # y /\ g[x] = g[y]
    BY <1>2, <2>1, <2>2, FS_PigeonHole
  <2>4. recorded[f][x] = recorded[f][y]
    BY <2>3 DEF g
  <2> QED
    BY <1>1, <2>3, <2>4 DEF IInv, Rest, Records, RecordedOnce
<1> QED
  BY <1>1, <1>2

(* The chain of a file that nobody is at: its keys from d + 1 on. *)
LEMMA ChainIsRest ==
  ASSUME IInv, NEW f \in Files, NEW d \in 0..Len(recorded[f]), d < Len(recorded[f]),
         Kept(recorded[f], d, d, NoKey, ion, iod, dtc[f])
  PROVE  Chain(recorded[f][d + 1]) = SubSeq(recorded[f], d + 1, Len(recorded[f]))
<1>1. PICK n \in 0..MaxCalls : n = Len(recorded[f])
  BY FewRecorded
<1>2. PICK h : h = recorded[f][d + 1]
  OBVIOUS
<1>3. TypeOK /\ Typed /\ h \in Keys /\ d \in 0..n /\ d < n
  BY <1>1, <1>2, RecordedFacts DEF IInv, Typed
<1>4. PICK at, c : Follows(at, c, h)
  BY <1>3, ChainFollows
<1>5. /\ c \in 0..(MaxCalls + 1) /\ at[0] = h
      /\ Chain(h) = [i \in 1..c |-> at[i - 1]]
      /\ \A i \in 1..MaxCalls : at[i] = NextKey(at[i - 1])
      /\ \A i \in 0..MaxCalls : i < c <=> \A j \in 0..i : at[j] \in DOMAIN ion
  BY <1>4 DEF Follows
<1>6. n \in Nat /\ d \in Nat /\ c \in Nat /\ d < n /\ n <= MaxCalls
  BY <1>1, <1>3, <1>5
<1>7. \A i \in (d + 1)..n : /\ recorded[f][i] \in DOMAIN ion
                            /\ ion[recorded[f][i]] = IF i = n THEN NoKey ELSE recorded[f][i + 1]
  BY <1>1 DEF Kept
<1>8. /\ (d + 1)..(n - 1) \subseteq (d + 1)..n /\ n \in (d + 1)..n
      /\ \A i \in (d + 1)..(n - 1) : i # n
  BY <1>6
<1>9. /\ \A i \in (d + 1)..n : recorded[f][i] \in DOMAIN ion
      /\ \A i \in (d + 1)..(n - 1) : ion[recorded[f][i]] = recorded[f][i + 1]
      /\ ion[recorded[f][n]] = NoKey
  BY <1>7, <1>8
<1>10. \A i \in 0..(n - d - 1) : at[i] = recorded[f][d + 1 + i]
  <2> DEFINE Good == {i \in Nat : i < n - d => at[i] = recorded[f][d + 1 + i]}
  <2>1. 0 \in Good
    BY <1>2, <1>3, <1>5
  <2>2. ASSUME NEW i \in Nat, i \in Good, i + 1 < n - d
        PROVE  at[i + 1] = recorded[f][d + 1 + (i + 1)]
    <3>1. i + 1 \in 1..MaxCalls /\ (i + 1) - 1 = i /\ d + 1 + i \in (d + 1)..(n - 1)
      BY <1>1, <1>3, <2>2
    <3>2. at[i] = recorded[f][d + 1 + i]
      BY <2>2
    <3>3. at[i + 1] = NextKey(at[i])
      BY <1>5, <3>1
    <3>4. at[i] \in DOMAIN ion /\ ion[at[i]] = recorded[f][(d + 1 + i) + 1]
      BY <1>9, <3>1, <3>2
    <3>5. (d + 1 + i) + 1 = d + 1 + (i + 1)
      BY <1>3
    <3> QED
      BY <3>3, <3>4, <3>5 DEF NextKey
  <2>3. \A i \in Nat : i \in Good
    <3>1. \A i \in Nat : i \in Good => i + 1 \in Good
      BY <2>2
    <3> HIDE DEF Good
    <3> QED
      BY <2>1, <3>1, Induction
  <2> QED
    BY <1>3, <2>3
<1>11. c = n - d
  <2>1. \A j \in 0..(n - d - 1) : at[j] \in DOMAIN ion
    <3>1. \A j \in 0..(n - d - 1) : d + 1 + j \in (d + 1)..n
      BY <1>3
    <3> QED
      BY <1>9, <1>10, <3>1
  <2>2. n - d - 1 < c
    <3>1. n - d - 1 \in 0..MaxCalls
      BY <1>1, <1>3
    <3> QED
      BY <1>5, <2>1, <3>1
  <2>3. at[n - d] = NoKey
    <3>1. /\ n - d \in 1..MaxCalls /\ (n - d) - 1 = n - d - 1
          /\ n - d - 1 \in 0..(n - d - 1) /\ d + 1 + (n - d - 1) = n
      BY <1>6
    <3>2. at[n - d - 1] = recorded[f][n]
      BY <1>10, <3>1
    <3>3. n \in (d + 1)..n
      BY <1>3
    <3> QED
      BY <1>5, <1>9, <3>1, <3>2, <3>3 DEF NextKey
  <2>4. NoKey \notin DOMAIN ion
    BY <1>3, Values, KeyFacts
  <2>5. ~(n - d < c)
    <3>1. n - d \in 0..MaxCalls /\ n - d \in 0..(n - d)
      BY <1>1, <1>3
    <3> QED
      BY <1>5, <2>3, <2>4, <3>1
  <2> QED
    BY <1>6, <2>2, <2>5
<1>12. SubSeq(recorded[f], d + 1, n) = [i \in 1..(n - d) |-> recorded[f][d + i]]
  BY <1>1, <1>3, RecordedFacts
<1>13. \A i \in 1..(n - d) : at[i - 1] = recorded[f][d + i]
  <2>1. ASSUME NEW i \in 1..(n - d) PROVE at[i - 1] = recorded[f][d + i]
    <3>1. i - 1 \in 0..(n - d - 1) /\ d + 1 + (i - 1) = d + i
      BY <1>1, <1>3
    <3> QED
      BY <1>10, <3>1
  <2> QED
    BY <2>1
<1> QED
  BY <1>1, <1>2, <1>5, <1>11, <1>12, <1>13

LEMMA IInvAlways == Spec => []IInv
BY IInvInit, IInvStep, PTL DEF Spec

LEMMA KeptAndChained == IInv => NothingLost
<1> SUFFICES ASSUME IInv, md_mutex = "free", NEW f \in Files \ hurt
             PROVE  LET done == Len(recorded[f]) - Len(Pending(f))
                    IN /\ f \in DOMAIN md
                       /\ done >= 0
                       /\ Pending(f) = SubSeq(recorded[f], done + 1, Len(recorded[f]))
                       /\ \A i \in DOMAIN Pending(f) : Pending(f)[i] \in iod
                       /\ md[f].dirty => /\ Pending(f) # <<>>
                                         /\ md[f].tail = recorded[f][Len(recorded[f])]
                       /\ dtc[f] = IF done = 0 THEN NoKey ELSE recorded[f][done]
  BY DEF NothingLost
<1>1. PICK n \in Nat : n = Len(recorded[f])
  BY RecordedFacts DEF IInv
<1>2. PICK d \in 0..n : Standing(f, d)
  BY <1>1 DEF IInv, Rest, Standings
<1>3. ~Recording /\ ~RecordingOf(f) /\ ~Writing(f) /\ ~Busy(f)
  BY DEF IInv, Typed, Turns, Flushing, Recording, RecordingOf, Writing, Busy
<1>4. Last(f) = NoKey /\ Known(f) = n /\ Stored(f, d) = d
  BY <1>1, <1>3 DEF Last, Known, Stored
<1>5. /\ Kept(recorded[f], d, d, NoKey, ion, iod, dtc[f])
      /\ f \in DOMAIN md /\ md[f] = MetaFor(recorded[f], d, n)
  BY <1>2, <1>3, <1>4 DEF Standing
<1>6. PICK p : p = Pending(f)
  OBVIOUS
<1>7. recorded[f] \in Seq(Keys) /\ \A i \in 1..n : recorded[f][i] \in Keys
  BY <1>1, RecordedFacts DEF IInv
<1>8. p = SubSeq(recorded[f], d + 1, n)
  <2>1. CASE d = n
    <3>1. p = <<>>
      BY <1>5, <1>6, <2>1 DEF Pending, MetaFor, Clean
    <3>2. SubSeq(recorded[f], d + 1, n) = <<>>
      BY <1>1, <1>7, <2>1
    <3> QED
      BY <3>1, <3>2
  <2>2. CASE d # n
    <3>1. p = Chain(recorded[f][d + 1])
      BY <1>5, <1>6, <2>2 DEF Pending, MetaFor
    <3> QED
      BY <1>1, <1>5, <2>2, <3>1, ChainIsRest
  <2> QED
    BY <2>1, <2>2
<1>9. Len(p) = n - d /\ \A i \in 1..(n - d) : p[i] = recorded[f][d + i]
  BY <1>1, <1>7, <1>8
<1>10. n - Len(p) = d
  BY <1>9
<1>11. \A i \in DOMAIN p : p[i] \in iod
  <2>1. DOMAIN p = 1..(n - d)
    BY <1>1, <1>7, <1>8
  <2>2. \A i \in 1..(n - d) : d + i \in (d + 1)..n
    OBVIOUS
  <2> QED
    BY <1>1, <1>5, <1>9, <2>1, <2>2 DEF Kept
<1>12. md[f].dirty => p # <<>> /\ md[f].tail = recorded[f][n]
  <2>1. CASE d = n
    BY <1>5, <2>1 DEF MetaFor, Clean
  <2>2. CASE d # n
    BY <1>5, <1>9, <2>2 DEF MetaFor
  <2> QED
    BY <2>1, <2>2
<1>13. dtc[f] = IF d = 0 THEN NoKey ELSE recorded[f][d]
  BY <1>5 DEF Kept
<1>14. Len(recorded[f]) - Len(Pending(f)) = d
  BY <1>1, <1>6, <1>10
<1>15. Pending(f) = SubSeq(recorded[f], d + 1, Len(recorded[f]))
  BY <1>1, <1>6, <1>8
<1>16. d >= 0 /\ f \in DOMAIN md
  BY <1>5
<1>17. \A i \in DOMAIN Pending(f) : Pending(f)[i] \in iod
  BY <1>6, <1>11
<1>18. md[f].dirty => Pending(f) # <<>> /\ md[f].tail = recorded[f][Len(recorded[f])]
  BY <1>1, <1>6, <1>12
<1> QED
  BY <1>13, <1>14, <1>15, <1>16, <1>17, <1>18

(* Nothing recorded is lost: while nobody holds md_mutex, the databases hold,
   in the order of recording, all that the data centre file does not. *)
THEOREM NothingRecordedLost == Spec => []NothingLost
BY IInvAlways, KeptAndChained, PTL

LEMMA LaterIsFurther ==
  ASSUME IInv, NEW f \in Files, NEW k \in Listed(f), NEW h \in Listed(f),
         After(recorded[f], k, h), k # h
  PROVE  Place(f, k) < Place(f, h)
<1>1. DOMAIN recorded[f] = 1..Len(recorded[f])
  BY DEF IInv, Typed, TypeOK
<1>2. /\ Place(f, k) \in 1..Len(recorded[f]) /\ recorded[f][Place(f, k)] = k
      /\ Place(f, h) \in 1..Len(recorded[f]) /\ recorded[f][Place(f, h)] = h
  BY <1>1 DEF Place, Listed, Members
<1> QED
  BY <1>2 DEF After

(* Only the flush writes to a data centre file, the key at hand or zeros. *)
Writes(f) ==
    /\ fl.pc = "iod" /\ f = fl.file /\ fl.head \in DOMAIN ion
    /\ dtc'[f] = IF fl.head \in iod THEN fl.head ELSE Zeros

LEMMA WhoWrites ==
  ASSUME IInv, [Next]_vars, NEW f \in Files
  PROVE  Writes(f) \/ dtc'[f] \in {dtc[f], NoKey, Gone}
<1>1. CASE WriteIod
  <2>1. CASE Die("fault")
    BY <2>1 DEF Die, dbVars
  <2>2. CASE fl.head \in DOMAIN ion
    <3>1. /\ fl.pc = "iod"
          /\ dtc' = [dtc EXCEPT ![fl.file] =
                        IF @ = Gone THEN Gone ELSE IF fl.head \in iod THEN fl.head ELSE Zeros]
      BY <1>1, <2>2 DEF WriteIod
    <3> QED
      BY <2>2, <3>1 DEF Writes, IInv, Typed, TypeOK, ClientTypeOK
  <2> QED
    BY <1>1, <2>1, <2>2 DEF WriteIod
<1>2. CASE \E g \in Files : Replace(g)
  <2>1. PICK g \in Files : dtc' = [dtc EXCEPT ![g] = NoKey] \/ dtc' = [dtc EXCEPT ![g] = Gone]
    BY <1>2 DEF Replace, CreateFile, Remove
  <2> QED
    BY <2>1 DEF IInv, Typed, TypeOK, ClientTypeOK
<1>3. UNCHANGED vars => dtc' = dtc
  BY DEF vars, dbVars
<1>4. QueOutServ => dtc' = dtc
  BY DEF QueOutServ, Accept, PrintIon, GetMd, PutTail, PutIon, PutMd, GetFn, AddToHead, Die, dbVars
<1>5. Flush => WriteIod \/ dtc' = dtc
  BY DEF Flush, Pick, Open, OutIod, OutIon, CallFails, ClearMd, Unlink, Free, LeaveHurt, LeaveDirty,
    GiveUp, Die, dbVars
<1>6. ASSUME NEW g \in Files, Call(g) PROVE dtc' = dtc
  BY <1>6 DEF Call, WriteFile, ReadFile, DeInitFile, dbVars
<1>7. ASSUME NEW r \in writing, QueOut(r) PROVE dtc' = dtc
  BY <1>7 DEF QueOut, dbVars
<1>8. Restart => dtc' = dtc
  BY DEF Restart, dbVars
<1> QED
  BY <1>1, <1>2, <1>3, <1>4, <1>5, <1>6, <1>7, <1>8 DEF Next

LEMMA MovesOn ==
  ASSUME IInv, [Next]_vars, NEW f \in Files, dtc'[f] \in Keys, dtc[f] \in Keys, dtc'[f] # dtc[f]
  PROVE  Place(f, dtc[f]) < Place(f, dtc'[f])
<1>1. Writes(f) /\ fl.head \in iod /\ dtc'[f] = fl.head
  BY WhoWrites, KeyFacts DEF Writes
<1>2. fl.head \in Listed(f) /\ After(recorded[f], dtc[f], fl.head)
  BY <1>1 DEF Writes, IInv, Rest, Heads, FlushHead, IfThere
<1>3. dtc[f] \in Listed(f)
  BY KeyFacts DEF IInv, Rest, Heads, Reached
<1> QED
  BY <1>1, <1>2, <1>3, LaterIsFurther

(* The data of the key at hand is there while nobody cut a flush short. *)
LEMMA NoZeros ==
  ASSUME IInv, [Next]_vars, NEW f \in Files, dtc'[f] = Zeros
  PROVE  f \in hurt
<1> SUFFICES ASSUME f \notin hurt PROVE FALSE
  OBVIOUS
<1>1. PICK n \in Nat : n = Len(recorded[f]) /\ \A i \in 1..n : recorded[f][i] \in Keys
  BY RecordedFacts DEF IInv
<1>2. PICK d \in 0..n : Standing(f, d)
  BY <1>1 DEF IInv, Rest, Standings
<1>3. CASE Writes(f)
  <2>1. Busy(f) /\ Stored(f, d) = d
    BY <1>3 DEF Writes, Busy, Stored
  <2>2. fl.head \in iod
    BY <1>1, <1>2, <1>3, <2>1 DEF Standing, Kept, Writes
  <2> QED
    BY <1>3, <2>2, RecordedFacts, KeyFacts DEF Writes, IInv, Rest, Heads, FlushHead
<1>4. CASE dtc[f] = Zeros
  <2>1. PICK e : e = Stored(f, d)
    OBVIOUS
  <2> QED
    BY <1>1, <1>2, <1>4, <2>1, KeyFacts DEF Standing, Kept
<1> QED
  BY <1>3, <1>4, WhoWrites, KeyFacts

(* The data centre file of every file, hurt or not, only moves on to writes that
   were recorded later, through restarts, failed calls and removals; and zeros get
   into it only when the file is hurt. *)
THEOREM ReplayedInOrder == Spec => InOrder
<1>1. IInv /\ [Next]_vars =>
         [\A f \in Files :
             /\ dtc'[f] \in Keys /\ dtc[f] \in Keys /\ dtc'[f] # dtc[f] =>
                   Place(f, dtc[f]) < Place(f, dtc'[f])
             /\ dtc'[f] = Zeros => f \in hurt]_vars
  BY MovesOn, NoZeros
<1> QED
  BY <1>1, IInvAlways, PTL DEF Spec, InOrder
-----------------------------------------------------------------------------
(* The list, while it is calm: the nodes that the flush has not come to, from
   update along prev to the head, which may be its own prev. *)
Queue(q, up, hd, nd, lv) ==
    /\ q \in Seq(Nodes)
    /\ \A i, j \in 1..Len(q) : q[i] = q[j] => i = j
    /\ \A i \in 1..Len(q) : q[i] \in lv /\ (i # Len(q) => nd[q[i]].prev = q[i + 1])
    /\ up = IF q = <<>> THEN Null ELSE q[1]
    /\ q # <<>> => hd = q[Len(q)] /\ nd[hd].prev \in {Null, hd}

OnQueue(q, nd, f) == \E i \in 1..Len(q) : nd[q[i]].file_name = f

DirtyFiles == {f \in DOMAIN md \ stray : md[f].dirty}

Attended(q, f) ==
    \/ qs.pc \in {"find", "link"} /\ qs.req.path = f
    \/ fl.file = f
    \/ OnQueue(q, node, f)

(* Only the first node of the queue can be the one the flush is at: the head, put
   back on the list. *)
Queued(q) ==
    /\ Queue(q, update, file_node_list_head, node, live)
    /\ fl.pc # "pick" => \A i \in 1..Len(q) : q[i] = fl.fn => i = 1
    /\ \A f \in DirtyFiles : Attended(q, f)

NoNext == \A n \in Nodes : node[n].next = Null
HeadAtHand ==
    /\ fl.pc = "free" => (fl.isHead <=> fl.fn = file_node_list_head)
    /\ qs.pc = "link" /\ qs.fn \in live => qs.fn = file_node_list_head

Calm == calm => NoNext /\ HeadAtHand /\ \E q : Queued(q)
PickIdle == fl.pc = "pick" => fl = FlIdle
AtNode == fl.pc # "pick" => node[fl.fn].file_name = fl.file
FlushedClean ==
    fl.pc \in {"unlink", "free"} /\ fl.file \in DOMAIN md /\ md[fl.file].dirty =>
        fl.file \in stray /\ qs.pc \notin {"find", "link"}

ListInv == PickIdle /\ AtNode /\ FlushedClean /\ Calm

(* No file gets dirty, none gets its place on the list back. *)
FewerDirty ==
    /\ stray \subseteq stray'
    /\ \A f \in DOMAIN md' : md'[f].dirty => f \in DOMAIN md /\ md[f].dirty

(* A step that leaves the list alone. *)
LEMMA ListFrame ==
  ASSUME Calm, UNCHANGED listVars, calm' => calm, FewerDirty,
         qs.pc \in {"find", "link"} => qs'.pc \in {"find", "link"} /\ qs'.req = qs.req,
         qs'.pc = "link" => qs.pc = "link" /\ qs'.fn = qs.fn,
         fl.file \in DirtyFiles' => fl'.file = fl.file,
         fl'.pc # "pick" => fl.pc # "pick" /\ fl'.fn = fl.fn,
         fl'.pc = "free" => fl.pc = "free" /\ fl'.isHead = fl.isHead
  PROVE  Calm'
<1> SUFFICES ASSUME calm' PROVE NoNext' /\ HeadAtHand' /\ \E q : Queued(q)'
  BY DEF Calm
<1>1. UNCHANGED <<file_node_list_head, update, node, live>>
  BY DEF listVars
<1>2. PICK q : Queued(q)
  BY DEF Calm
<1>3. NoNext' /\ HeadAtHand'
  BY <1>1 DEF Calm, NoNext, HeadAtHand
<1>4. DirtyFiles' \subseteq DirtyFiles
  BY DEF FewerDirty, DirtyFiles
<1>5. \A f \in DirtyFiles' : Attended(q, f)'
  BY <1>1, <1>2, <1>4 DEF Queued, Attended
<1>6. Queued(q)'
  BY <1>1, <1>2, <1>5 DEF Queued
<1> QED
  BY <1>3, <1>6

(* que_out_serv up to the recording, and the client calls. *)
LEMMA QuietKeeps ==
  ASSUME ListInv, UNCHANGED <<listVars, fl>>, calm' => calm, FewerDirty,
         qs.pc \in {"find", "link"} <=> qs'.pc \in {"find", "link"},
         qs.pc \in {"find", "link"} => qs'.req = qs.req,
         qs'.pc = "link" => qs.pc = "link" /\ qs'.fn = qs.fn
  PROVE  ListInv'
<1>1. Calm'
  BY ListFrame DEF ListInv
<1>2. PickIdle' /\ AtNode'
  BY DEF ListInv, PickIdle, AtNode, listVars
<1>3. FlushedClean'
  BY DEF ListInv, FlushedClean, FewerDirty
<1> QED
  BY <1>1, <1>2, <1>3 DEF ListInv

LEMMA DieListed ==
  ASSUME ListInv, NEW how, Die(how)
  PROVE  ListInv'
<1>1. /\ UNCHANGED <<listVars, fl, qs, md, stray>> /\ calm' = calm
  BY DEF Die, dbVars, history
<1>2. FewerDirty
  BY <1>1 DEF FewerDirty
<1> QED
  BY <1>1, <1>2, QuietKeeps

LEMMA ServListed ==
  ASSUME IInv, ListInv, Accept \/ PrintIon \/ GetMd \/ PutTail \/ PutIon
  PROVE  ListInv'
<1>1. CASE \E how : Die(how)
  BY <1>1, DieListed
<1>2. CASE ~\E how : Die(how)
  <2>1. qs \in QsType
    BY DEF IInv, Typed, TypeOK, QsType
  <2>2. /\ UNCHANGED <<listVars, fl, md, stray, calm>>
        /\ qs.pc \notin {"find", "link"} /\ qs'.pc \notin {"find", "link"}
    <3>1. CASE Accept
      BY <3>1 DEF Accept, QsIdle, dbVars, history
    <3>2. CASE PrintIon
      BY <1>2, <2>1, <3>2 DEF PrintIon, QsType, dbVars, history
    <3>3. CASE GetMd
      BY <1>2, <2>1, <3>3 DEF GetMd, QsType, dbVars, history
    <3>4. CASE PutTail
      BY <1>2, <2>1, <3>4 DEF PutTail, QsType, dbVars, history
    <3>5. CASE PutIon
      BY <2>1, <3>5 DEF PutIon, QsType
    <3> QED
      BY <3>1, <3>2, <3>3, <3>4, <3>5
  <2>3. FewerDirty
    BY <2>2 DEF FewerDirty
  <2> QED
    BY <2>2, <2>3, QuietKeeps
<1> QED
  BY <1>1, <1>2

(* The walk from the head ends at the head: no node has a next. *)
LEMMA SeenIsHead ==
  ASSUME IInv, NoNext, NEW f
  PROVE  NodesSeen(f)[Cardinality(Nodes)] \in {file_node_list_head, Null}
<1>1. PICK N \in Nat : N = Cardinality(Nodes)
  BY PoolAssumption, FS_CardinalityType
<1>2. /\ file_node_list_head \in Pointers /\ live \subseteq Nodes /\ Null \notin Nodes
      /\ \A p \in live : node[p].next = Null
  BY DEF IInv, Typed, TypeOK, NoNext
<1> DEFINE S == {file_node_list_head, Null}
           step(p) == IF p \notin live \/ Names(f, p) THEN p ELSE node[p].next
           Rec(g) == [i \in 0..Cardinality(Nodes) |->
               IF i = 0 THEN file_node_list_head
               ELSE LET p == g[i - 1]
                    IN IF p \notin live \/ Names(f, p) THEN p ELSE node[p].next]
<1>3. PICK s \in [S -> S] : \A p \in S : s[p] = step(p)
  <2> DEFINE s == [p \in S |-> step(p)]
  <2>1. \A p \in S : step(p) \in S
    BY <1>2
  <2>2. s \in [S -> S] /\ \A p \in S : s[p] = step(p)
    BY <2>1
  <2> QED
    BY <2>2
<1>4. PICK g : Iterates(g, s, file_node_list_head, S, N)
  <2>1. file_node_list_head \in S
    OBVIOUS
  <2> HIDE DEF S
  <2> QED
    BY <1>3, <2>1, CanIterate
<1>5. g = Rec(g)
  <2>1. ASSUME NEW i \in 0..N PROVE g[i] = Rec(g)[i]
    <3>1. CASE i = 0
      BY <1>1, <1>4, <3>1 DEF Iterates
    <3>2. CASE i # 0
      <4>1. i \in 1..N /\ i - 1 \in 0..N
        BY <1>1, <3>2
      <4>2. g[i - 1] \in S /\ g[i] = s[g[i - 1]]
        BY <1>4, <4>1 DEF Iterates
      <4>3. g[i] = step(g[i - 1])
        BY <1>3, <4>2, SMTT(60)
      <4> QED
        BY <1>1, <3>2, <4>3
    <3> QED
      BY <3>1, <3>2
  <2> QED
    BY <1>1, <1>4, <2>1 DEF Iterates
<1> DEFINE at == CHOOSE a : a = Rec(a)
<1>6. at = Rec(at)
  BY <1>5, ZenonT(60)
<1>7. NodesSeen(f) = at
  BY DEF NodesSeen
<1> HIDE DEF at
<1>8. at[0] \in S /\ \A i \in 1..N : at[i] = step(at[i - 1])
  BY <1>1, <1>6
<1>9. \A i \in 0..N : at[i] \in S
  <2> DEFINE Good == {i \in Nat : i <= N => at[i] \in S}
  <2>1. 0 \in Good
    BY <1>8
  <2>2. \A i \in Nat : i \in Good => i + 1 \in Good
    <3>1. ASSUME NEW i \in Nat, i \in Good, i + 1 <= N PROVE i + 1 \in Good
      <4>1. at[i] \in S /\ i + 1 \in 1..N /\ (i + 1) - 1 = i
        BY <1>1, <3>1
      <4>2. at[i + 1] = step(at[i])
        BY <1>8, <4>1
      <4>3. step(at[i]) \in S
        BY <1>2, <4>1
      <4> QED
        BY <4>2, <4>3
    <3> QED
      BY <3>1
  <2>3. \A i \in Nat : i \in Good
    <3> HIDE DEF Good
    <3> QED
      BY <2>1, <2>2, Induction
  <2> QED
    BY <2>3
<1> QED
  BY <1>1, <1>7, <1>9

LEMMA GetFnListed ==
  ASSUME IInv, ListInv, GetFn
  PROVE  ListInv'
<1>1. CASE \E how : Die(how)
  BY <1>1, DieListed
<1>2. CASE ~\E how : Die(how)
  <2>1. PICK fn : fn = NodesSeen(qs.req.path)[Cardinality(Nodes)]
    OBVIOUS
  <2>2. /\ UNCHANGED <<listVars, fl, md, stray, calm>>
        /\ qs.pc = "find" /\ qs'.pc = "link" /\ qs'.req = qs.req /\ qs'.fn = fn
    BY <1>2, <2>1 DEF GetFn, IInv, Typed, TypeOK, dbVars, history
  <2>3. UNCHANGED <<file_node_list_head, update, node, live>> /\ DirtyFiles' = DirtyFiles
    BY <2>2 DEF listVars, DirtyFiles
  <2>4. ASSUME calm' PROVE NoNext' /\ HeadAtHand' /\ \E q : Queued(q)'
    <3>1. NoNext /\ HeadAtHand /\ \E q : Queued(q)
      BY <2>2, <2>4 DEF ListInv, Calm
    <3>2. fn \in {file_node_list_head, Null} /\ Null \notin live
      BY <2>1, <3>1, SeenIsHead DEF IInv, Typed, TypeOK
    <3>3. HeadAtHand'
      BY <2>2, <2>3, <3>1, <3>2 DEF HeadAtHand
    <3>4. PICK q : Queued(q)
      BY <3>1
    <3>5. \A f \in DirtyFiles' : Attended(q, f)'
      BY <2>2, <2>3, <3>4 DEF Queued, Attended
    <3>6. Queued(q)'
      BY <2>2, <2>3, <3>4, <3>5 DEF Queued
    <3> QED
      BY <2>3, <3>1, <3>3, <3>6 DEF NoNext
  <2> QED
    BY <2>2, <2>3, <2>4 DEF ListInv, PickIdle, AtNode, FlushedClean, Calm
<1> QED
  BY <1>1, <1>2

LEMMA CallsListed ==
  ASSUME IInv, ListInv,
         \/ /\ (\E f \in Files : Call(f)) \/ ((\E r \in writing : QueOut(r)) /\ UNCHANGED hurt)
            /\ UNCHANGED <<listVars, serverVars, recorded, stray, calm>>
         \/ \E f \in Files : Replace(f)
         \/ UNCHANGED vars
  PROVE  ListInv'
<1>1. UNCHANGED <<listVars, fl, qs, stray, calm>>
  BY DEF serverVars, Replace, vars, history
<1>2. FewerDirty
  <2>1. ASSUME md' = md PROVE FewerDirty
    BY <1>1, <2>1 DEF FewerDirty
  <2>2. ASSUME NEW f \in Files, WriteFile(f) \/ ReadFile(f) PROVE md' = md
    BY <2>2 DEF WriteFile, ReadFile, dbVars
  <2>3. ASSUME NEW f \in Files, DeInitFile(f) PROVE FewerDirty
    <3>1. md' = md \/ md' = Out(md, {f})
      <4>1. CASE f \notin DOMAIN md
        BY <2>3, <4>1 DEF DeInitFile
      <4>2. CASE f \in DOMAIN md
        BY <2>3, <4>2 DEF DeInitFile
      <4> QED
        BY <4>1, <4>2
    <3> QED
      BY <1>1, <3>1 DEF Out, FewerDirty
  <2>4. ASSUME NEW r \in writing, QueOut(r) PROVE md' = md
    BY <2>4 DEF QueOut, dbVars
  <2>5. ASSUME NEW f \in Files, Replace(f) PROVE FewerDirty
    <3>1. md' = md \/ md' = Put(md, f, Clean)
      BY <2>5 DEF Replace, CreateFile, Remove
    <3> QED
      BY <1>1, <3>1 DEF Put, FewerDirty, Clean
  <2>6. CASE UNCHANGED vars
    BY <2>1, <2>6 DEF vars, dbVars
  <2> QED
    BY <2>1, <2>2, <2>3, <2>4, <2>5, <2>6 DEF Call
<1> QED
  BY <1>1, <1>2, QuietKeeps

LEMMA PutMdListed ==
  ASSUME IInv, ListInv, PutMd
  PROVE  ListInv'
<1>1. /\ UNCHANGED <<listVars, fl, stray, calm>> /\ qs.pc = "put"
      /\ qs' = [qs EXCEPT !.pc = "find", !.md = Clean]
      /\ md' = Put(md, qs.req.path, IF qs.req.io_type = "READ" THEN qs.md
                                    ELSE Recorded(qs.md, qs.req.ion_key))
  BY DEF PutMd, history
<1>2. qs \in QsType
  BY DEF IInv, Typed, TypeOK, QsType
<1>3. qs'.pc = "find" /\ qs'.req = qs.req
  BY <1>1, <1>2 DEF QsType
<1>4. fl.pc \notin {"unlink", "free"}
  BY <1>1 DEF IInv, Typed, Turns, Recording, Flushing
<1>5. \A f \in DirtyFiles' : f \in DirtyFiles \/ f = qs.req.path
  BY <1>1 DEF DirtyFiles, Put
<1>6. UNCHANGED <<file_node_list_head, update, node, live>>
  BY <1>1 DEF listVars
<1>7. ASSUME calm' PROVE NoNext' /\ HeadAtHand' /\ \E q : Queued(q)'
  <2>1. NoNext /\ HeadAtHand /\ \E q : Queued(q)
    BY <1>1, <1>7 DEF ListInv, Calm
  <2>2. PICK q : Queued(q)
    BY <2>1
  <2>3. ASSUME NEW f \in DirtyFiles' PROVE Attended(q, f)'
    <3>1. CASE f = qs.req.path
      BY <1>3, <3>1 DEF Attended
    <3>2. CASE f \in DirtyFiles
      <4>1. Attended(q, f) /\ qs.pc \notin {"find", "link"}
        BY <1>1, <2>2, <3>2 DEF Queued
      <4> QED
        BY <1>1, <1>6, <4>1 DEF Attended
    <3> QED
      BY <1>5, <3>1, <3>2
  <2>4. Queued(q)'
    BY <1>1, <1>6, <2>2, <2>3 DEF Queued
  <2> QED
    BY <1>1, <1>3, <1>6, <2>1, <2>4 DEF NoNext, HeadAtHand
<1> QED
  BY <1>1, <1>4, <1>6, <1>7 DEF ListInv, PickIdle, AtNode, FlushedClean, Calm

(* The flush lets go of a node without unlinking it: of a clean file, or one that
   is stray from now on. *)
LEMMA GiveUpListed ==
  ASSUME ListInv, GiveUp, stray \subseteq stray', fl.file \notin DirtyFiles'
  PROVE  ListInv'
<1>1. UNCHANGED <<listVars, qs, md, calm>> /\ fl' = FlIdle /\ fl'.pc = "pick"
  BY DEF GiveUp, dbVars, FlIdle
<1>2. FewerDirty
  BY <1>1 DEF FewerDirty
<1>3. Calm'
  BY <1>1, <1>2, ListFrame DEF ListInv
<1> QED
  BY <1>1, <1>3 DEF ListInv, PickIdle, AtNode, FlushedClean

LEMMA LeaveListed ==
  ASSUME ListInv, LeaveDirty
  PROVE  ListInv'
<1>1. GiveUp /\ stray' = stray \union {fl.file}
  BY DEF LeaveDirty
<1>2. fl.file \notin DirtyFiles'
  BY <1>1 DEF DirtyFiles
<1> QED
  BY <1>1, <1>2, GiveUpListed

(* The flush goes on with the file it is at. *)
LEMMA GoOnListed ==
  ASSUME ListInv, UNCHANGED <<listVars, qs, calm, md, stray>>,
         fl'.file = fl.file, fl'.fn = fl.fn, fl.pc # "pick", fl'.pc \in {"iod", "out", "ion", "clear"}
  PROVE  ListInv'
<1>1. FewerDirty
  BY DEF FewerDirty
<1>2. Calm'
  BY <1>1, ListFrame DEF ListInv
<1> QED
  BY <1>2 DEF ListInv, PickIdle, AtNode, FlushedClean, listVars

LEMMA OpenListed ==
  ASSUME IInv, ListInv, Open
  PROVE  ListInv'
<1>1. fl.pc = "open" /\ fl \in FlType
  BY DEF Open, IInv, Typed, TypeOK, FlType
<1>2. CASE \E how : Die(how)
  BY <1>2, DieListed
<1>3. CASE ~md[fl.file].dirty /\ GiveUp /\ UNCHANGED stray
  <2>1. fl.file \notin DirtyFiles'
    BY <1>3 DEF GiveUp, dbVars, DirtyFiles
  <2> QED
    BY <1>3, <2>1, GiveUpListed
<1>4. CASE LeaveDirty
  BY <1>4, LeaveListed
<1>5. CASE /\ fl' = [fl EXCEPT !.pc = "iod", !.head = md[fl.file].head]
           /\ UNCHANGED <<dbVars, callVars, listVars, qs, state, troubles, history>>
  <2>1. UNCHANGED <<listVars, qs, calm, md, stray>>
    BY <1>5 DEF dbVars, history
  <2>2. fl'.file = fl.file /\ fl'.fn = fl.fn /\ fl'.pc = "iod"
    BY <1>1, <1>5 DEF FlType
  <2> QED
    BY <1>1, <2>1, <2>2, GoOnListed
<1> QED
  BY <1>2, <1>3, <1>4, <1>5 DEF Open

LEMMA FlushListed ==
  ASSUME IInv, ListInv, WriteIod \/ OutIod \/ OutIon \/ CallFails
  PROVE  ListInv'
<1>1. fl.pc \in {"iod", "out", "ion"} /\ fl \in FlType
  BY DEF WriteIod, OutIod, OutIon, CallFails, IInv, Typed, TypeOK, FlType
<1>2. CASE \E how : Die(how)
  BY <1>2, DieListed
<1>3. CASE LeaveHurt
  BY <1>3, LeaveListed DEF LeaveHurt
<1>4. CASE ~LeaveHurt /\ ~\E how : Die(how)
  <2>1. UNCHANGED <<listVars, qs, calm, md, stray>>
    BY <1>4 DEF WriteIod, OutIod, OutIon, CallFails, history
  <2>2. fl'.file = fl.file /\ fl'.fn = fl.fn /\ fl'.pc \in {"iod", "out", "ion", "clear"}
    <3>1. CASE WriteIod
      BY <1>1, <1>4, <3>1 DEF FlType, WriteIod
    <3>2. CASE OutIod
      BY <1>1, <1>4, <3>2 DEF FlType, OutIod
    <3>3. CASE OutIon
      BY <1>1, <1>4, <3>3 DEF FlType, OutIon
    <3> QED
      BY <1>4, <3>1, <3>2, <3>3 DEF CallFails
  <2> QED
    BY <1>1, <2>1, <2>2, GoOnListed
<1> QED
  BY <1>2, <1>3, <1>4

LEMMA ClearMdListed ==
  ASSUME IInv, ListInv, ClearMd
  PROVE  ListInv'
<1>1. fl \in FlType
  BY DEF IInv, Typed, TypeOK, FlType
<1>2. fl'.file = fl.file /\ fl'.fn = fl.fn /\ fl'.pc = "unlink" /\ fl.pc = "clear"
  BY <1>1 DEF ClearMd, FlType
<1>3. UNCHANGED <<listVars, qs, calm>>
  BY DEF ClearMd
<1>4. \/ md' = Put(md, fl.file, Clean) /\ UNCHANGED stray
      \/ md' = md /\ stray' = stray \union {fl.file} /\ qs.pc = "print"
  BY DEF ClearMd, Cleared, Printing
<1>5. FewerDirty
  BY <1>4 DEF FewerDirty, Put, Clean
<1>6. FlushedClean'
  BY <1>2, <1>3, <1>4 DEF FlushedClean, Put, Clean
<1>7. Calm'
  BY <1>2, <1>3, <1>5, ListFrame DEF ListInv
<1> QED
  BY <1>2, <1>3, <1>6, <1>7 DEF ListInv, PickIdle, AtNode, listVars

(* Nothing is on the list, and every dirty file is stray. *)
LEMMA RestartListed ==
  ASSUME Restart
  PROVE  ListInv'
<1>1. /\ fl' = FlIdle /\ fl'.pc = "pick" /\ qs' = QsIdle /\ qs'.pc = "accept"
      /\ update' = Null /\ node' = [n \in Nodes |-> Blank]
      /\ md' = md /\ stray' = {f \in DOMAIN md : md[f].dirty}
  BY DEF Restart, ServerStart, FlIdle, QsIdle, dbVars
<1>2. NoNext' /\ HeadAtHand'
  BY <1>1 DEF NoNext, HeadAtHand, Blank
<1>3. DirtyFiles' = {}
  BY <1>1 DEF DirtyFiles
<1>4. PICK q : q = <<>>
  OBVIOUS
<1>5. Queue(q, update, file_node_list_head, node, live)'
  <2>1. q \in Seq(Nodes) /\ Len(q) = 0
    BY <1>4
  <2> QED
    BY <1>1, <1>4, <2>1 DEF Queue
<1>6. Queued(q)'
  BY <1>1, <1>3, <1>5 DEF Queued
<1> QED
  BY <1>1, <1>2, <1>6 DEF ListInv, PickIdle, AtNode, FlushedClean, Calm

(* What add2file_node_list_head() makes of the nodes: fn, which got the name of n,
   is the head, and the prev of the old head, which may be fn itself. *)
LinkedTo(fn, n) ==
    /\ node'[fn].file_name = n.file_name /\ node'[fn].next = Null
    /\ node'[fn].prev = IF fn = file_node_list_head THEN fn ELSE Null
    /\ \A a \in Nodes \ {fn} :
          /\ node'[a].file_name = node[a].file_name /\ node'[a].next = node[a].next
          /\ node'[a].prev = IF a = file_node_list_head THEN fn ELSE node[a].prev

LEMMA LinkedFacts ==
  ASSUME IInv, NoNext, NEW fn \in Nodes, NEW n \in FileNode, node' = Linked(fn, n),
         file_node_list_head \in Nodes \union {Null}
  PROVE  LinkedTo(fn, n)
<1>1. node \in [Nodes -> FileNode] /\ Null \notin Nodes
  BY DEF IInv, Typed, TypeOK
<1>2. AsHead(n) = [n EXCEPT !.prev = Null, !.next = Null]
  BY DEF AsHead, NoNext
<1>3. AsHead(n) \in FileNode /\ AsHead(n).file_name = n.file_name
      /\ AsHead(n).prev = Null /\ AsHead(n).next = Null
  BY <1>2 DEF FileNode, Pointers
<1>4. node'[fn] = IF fn = file_node_list_head THEN [AsHead(n) EXCEPT !.prev = fn] ELSE AsHead(n)
  BY <1>1 DEF Linked
<1>5. /\ node'[fn].file_name = n.file_name /\ node'[fn].next = Null
      /\ node'[fn].prev = IF fn = file_node_list_head THEN fn ELSE Null
  BY <1>3, <1>4 DEF FileNode
<1>6. ASSUME NEW a \in Nodes \ {fn}
      PROVE  /\ node'[a].file_name = node[a].file_name /\ node'[a].next = node[a].next
             /\ node'[a].prev = IF a = file_node_list_head THEN fn ELSE node[a].prev
  <2>1. node[a] \in FileNode
    BY <1>1
  <2>2. node'[a] = IF a = file_node_list_head THEN [node[a] EXCEPT !.prev = fn] ELSE node[a]
    BY <1>1, <1>6 DEF Linked
  <2> QED
    BY <2>1, <2>2 DEF FileNode
<1> QED
  BY <1>5, <1>6 DEF LinkedTo

(* A new node is put at the end of the queue, the head's. *)
LEMMA NewNodeQueued ==
  ASSUME IInv, NEW q, Queue(q, update, file_node_list_head, node, live),
         NEW fn \in Nodes, fn \notin live, NEW n, LinkedTo(fn, n),
         live' = live \union {fn}, file_node_list_head' = fn,
         file_node_list_head \in live \union {Null},
         update' = IF update = Null THEN fn ELSE update
  PROVE  \E p \in Seq(Nodes) :
            /\ Queue(p, update, file_node_list_head, node, live)'
            /\ Len(p) = Len(q) + 1 /\ p[Len(p)] = fn
            /\ \A i \in 1..Len(q) : p[i] = q[i]
<1>1. PICK l \in Nat : l = Len(q)
  BY DEF Queue
<1>2. node \in [Nodes -> FileNode] /\ live \subseteq Nodes /\ Null \notin Nodes
  BY DEF IInv, Typed, TypeOK
<1>3. /\ node'[fn].prev = Null
      /\ \A a \in live : node'[a].prev = IF a = file_node_list_head THEN fn ELSE node[a].prev
  BY <1>2 DEF LinkedTo
<1>4. PICK p \in Seq(Nodes) : p = Append(q, fn)
  <2>1. q \in Seq(Nodes)
    BY DEF Queue
  <2>2. Append(q, fn) \in Seq(Nodes)
    BY <2>1
  <2> QED
    BY <2>2
<1>5. /\ Len(p) = l + 1 /\ p[l + 1] = fn /\ p # <<>>
      /\ \A i \in 1..l : p[i] = q[i] /\ q[i] \in live /\ q[i] # fn
  BY <1>1, <1>4 DEF Queue
<1>6. \A i \in 1..(l + 1) : i \in 1..l \/ i = l + 1
  OBVIOUS
<1>7. \A i, j \in 1..Len(p) : p[i] = p[j] => i = j
  BY <1>1, <1>5, <1>6 DEF Queue
<1>8. ASSUME NEW i \in 1..Len(p)
      PROVE  p[i] \in live' /\ (i # Len(p) => node'[p[i]].prev = p[i + 1])
  <2>1. CASE i = l + 1
    BY <1>5, <2>1
  <2>2. CASE i \in 1..l /\ i # l
    <3>1. i + 1 \in 1..l /\ l \in 1..l
      BY <2>2
    <3>2. q[i] \in live /\ node[q[i]].prev = q[i + 1] /\ file_node_list_head = q[l]
      BY <1>1, <2>2, <3>1 DEF Queue
    <3>3. q[i] # file_node_list_head
      BY <1>1, <2>2, <3>1, <3>2 DEF Queue
    <3>4. p[i] = q[i] /\ p[i + 1] = q[i + 1]
      BY <1>5, <2>2, <3>1
    <3> QED
      BY <1>3, <3>2, <3>3, <3>4
  <2>3. CASE i \in 1..l /\ i = l
    <3>1. q[l] \in live /\ file_node_list_head = q[l]
      BY <1>1, <2>3 DEF Queue
    <3>2. p[i] = q[l] /\ p[i + 1] = fn
      BY <1>5, <2>3
    <3> QED
      BY <1>3, <3>1, <3>2
  <2> QED
    BY <1>5, <1>6, <2>1, <2>2, <2>3
<1>9. update' = p[1]
  <2>1. CASE l = 0
    <3>1. q = <<>>
      <4>1. q \in Seq(Nodes) /\ Len(q) = 0
        BY <1>1, <2>1 DEF Queue
      <4> QED
        BY <4>1
    <3>2. update = Null
      BY <3>1 DEF Queue
    <3> QED
      BY <1>5, <2>1, <3>2
  <2>2. CASE l # 0
    BY <1>1, <1>2, <1>5, <2>2 DEF Queue
  <2> QED
    BY <2>1, <2>2
<1>10. Queue(p, update, file_node_list_head, node, live)'
  BY <1>3, <1>4, <1>5, <1>7, <1>8, <1>9 DEF Queue
<1> QED
  BY <1>1, <1>4, <1>5, <1>10

(* The head is put on the list again: it is its own prev, and the queue as it was,
   or the head alone. *)
LEMMA HeadQueued ==
  ASSUME IInv, NEW q, Queue(q, update, file_node_list_head, node, live),
         NEW fn \in live, fn = file_node_list_head, NEW n, LinkedTo(fn, n),
         live' = live, file_node_list_head' = fn,
         update' = IF update = Null THEN fn ELSE update
  PROVE  \E p \in Seq(Nodes) :
            /\ Queue(p, update, file_node_list_head, node, live)'
            /\ p[Len(p)] = fn /\ p # <<>>
            /\ p = q \/ (q = <<>> /\ p = <<fn>>)
<1>1. node \in [Nodes -> FileNode] /\ live \subseteq Nodes /\ Null \notin Nodes
  BY DEF IInv, Typed, TypeOK
<1>2. /\ node'[fn].prev = fn
      /\ \A a \in live \ {fn} : node'[a].prev = node[a].prev
  BY <1>1 DEF LinkedTo
<1>3. CASE q = <<>>
  <2> DEFINE p == <<fn>>
  <2>1. p \in Seq(Nodes) /\ Len(p) = 1 /\ p[1] = fn /\ p # <<>>
    BY <1>1
  <2>2. update' = fn
    BY <1>3 DEF Queue
  <2> HIDE DEF p
  <2>3. Queue(p, update, file_node_list_head, node, live)'
    BY <1>2, <2>1, <2>2 DEF Queue
  <2> QED
    BY <1>3, <2>1, <2>3 DEF p
<1>4. CASE q # <<>>
  <2>1. PICK l \in Nat : l = Len(q) /\ l # 0
    BY <1>4 DEF Queue
  <2>2. q \in Seq(Nodes) /\ fn = q[l] /\ l \in 1..l /\ 1 \in 1..l /\ update = q[1] /\ q[1] # Null
    BY <1>1, <1>4, <2>1 DEF Queue
  <2>3. ASSUME NEW i \in 1..l, i # l PROVE node'[q[i]].prev = q[i + 1]
    <3>1. q[i] # fn /\ q[i] \in live /\ node[q[i]].prev = q[i + 1]
      BY <2>1, <2>2, <2>3 DEF Queue
    <3> QED
      BY <1>2, <3>1
  <2>4. Queue(q, update, file_node_list_head, node, live)'
    BY <1>2, <1>4, <2>1, <2>2, <2>3 DEF Queue
  <2> QED
    BY <1>4, <2>1, <2>2, <2>4
<1> QED
  BY <1>3, <1>4

(* que_out_serv puts a node at the head end of the list. *)
LEMMA AddToHeadListed ==
  ASSUME IInv, ListInv, AddToHead
  PROVE  ListInv'
<1>1. CASE \E how : Die(how)
  BY <1>1, DieListed
<1>2. CASE ~\E how : Die(how)
  <2>1. PICK f \in Files : f = qs.req.path
    BY RequestFacts DEF AddToHead, IInv, Typed, AtHand
  <2>2. PICK fn \in IF qs.fn = Null THEN Nodes \ live ELSE {qs.fn} :
           /\ \E n \in IF qs.fn = Null THEN NewNodes(f) ELSE {node[fn]} :
                 /\ node' = Linked(fn, n)
                 /\ stray' = IF n.file_name = f THEN stray \ {f} ELSE stray \union {f}
           /\ live' = live \union {fn}
           /\ file_node_list_head' = fn
           /\ update' = IF update = Null THEN fn ELSE update
    BY <1>2, <2>1 DEF AddToHead
  <2>3. PICK n \in IF qs.fn = Null THEN NewNodes(f) ELSE {node[fn]} :
           /\ node' = Linked(fn, n)
           /\ stray' = IF n.file_name = f THEN stray \ {f} ELSE stray \union {f}
    BY <2>2
  <2>4. /\ qs.pc = "link" /\ qs' = QsIdle /\ qs'.pc = "accept"
        /\ UNCHANGED <<md, fl>>
        /\ calm' = (calm /\ ~(fl.pc = "free" /\ fl.isHead))
        /\ file_node_list_head \in live \union {Null} /\ qs.fn \in live \union {Null}
    BY <1>2 DEF AddToHead, QsIdle, dbVars
  <2>5. /\ node \in [Nodes -> FileNode] /\ live \subseteq Nodes /\ Null \notin Nodes
        /\ fl.pc # "pick" => fl.fn \in live
    BY DEF IInv, Typed, TypeOK, AtHand
  <2>6. fn \in Nodes /\ n \in FileNode /\ (fn \in live => n = node[fn])
    <3>1. CASE qs.fn = Null
      <4>1. n \in FileNode
        BY <2>1, <2>3, <3>1, IdleTypes, ZenonT(60) DEF NewNodes, FileNode
      <4> QED
        BY <2>2, <3>1, <4>1
    <3>2. CASE qs.fn # Null
      BY <2>2, <2>3, <2>4, <2>5, <3>2
    <3> QED
      BY <3>1, <3>2
  <2>7. AtNode'
    <3>1. \A a \in live : node'[a].file_name = node[a].file_name
      <4>1. ASSUME NEW a \in live PROVE node'[a].file_name = node[a].file_name
        <5>1. AsHead(n).file_name = n.file_name
          BY <2>6 DEF AsHead, FileNode
        <5>2. \A m \in FileNode : [m EXCEPT !.prev = fn].file_name = m.file_name
          BY DEF FileNode
        <5>3. AsHead(n) \in [file_name : FileNames \union {Null}, next : {AsHead(n).next}, prev : Pointers]
          BY <2>6 DEF AsHead, FileNode, Pointers
        <5>4. [AsHead(n) EXCEPT !.prev = fn].file_name = n.file_name
          BY <5>1, <5>3
        <5>5. CASE a = fn
          BY <2>3, <2>5, <2>6, <5>1, <5>4, <5>5 DEF Linked
        <5>6. CASE a # fn
          BY <2>3, <2>5, <2>6, <5>2, <5>6 DEF Linked
        <5> QED
          BY <5>5, <5>6
      <4> QED
        BY <4>1
    <3> QED
      BY <2>4, <2>5, <3>1 DEF ListInv, AtNode
  <2>8. FlushedClean'
    BY <2>4 DEF ListInv, FlushedClean
  <2>9. ASSUME calm' PROVE NoNext' /\ HeadAtHand' /\ \E q : Queued(q)'
    <3>1. calm /\ ~(fl.pc = "free" /\ fl.isHead)
      BY <2>4, <2>9
    <3>2. NoNext /\ HeadAtHand /\ \E q : Queued(q)
      BY <3>1 DEF ListInv, Calm
    <3>3. PICK q : Queued(q)
      BY <3>2
    <3>4. Queue(q, update, file_node_list_head, node, live)
      BY <3>3 DEF Queued
    <3>5. LinkedTo(fn, n)
      BY <2>3, <2>4, <2>5, <2>6, <3>2, LinkedFacts
    <3>6. /\ node'[fn].file_name = n.file_name /\ node'[fn].next = Null
          /\ \A a \in Nodes \ {fn} :
                node'[a].file_name = node[a].file_name /\ node'[a].next = node[a].next
      BY <3>5 DEF LinkedTo
    <3>7. NoNext'
      BY <3>2, <3>6 DEF NoNext
    <3>8. fn \in live => fn = file_node_list_head
      BY <2>2, <2>4, <3>2 DEF HeadAtHand
    <3>9. HeadAtHand'
      <4>1. fl.pc = "free" => ~fl.isHead /\ fl.fn # file_node_list_head /\ fl.fn \in live
        BY <2>5, <3>1, <3>2 DEF HeadAtHand
      <4>2. fl.pc = "free" => fl.fn # fn
        BY <3>8, <4>1
      <4> QED
        BY <2>2, <2>4, <4>1, <4>2 DEF HeadAtHand
    <3>10. PICK p \in Seq(Nodes) :
             /\ Queue(p, update, file_node_list_head, node, live)'
             /\ \E i \in 1..Len(p) : p[i] = fn
             /\ \A i \in 1..Len(q) : i \in 1..Len(p) /\ p[i] = q[i]
             /\ fl.pc # "pick" => \A i \in 1..Len(p) : p[i] = fl.fn => i = 1
      <4>1. CASE fn \in live
        <5>1. live' = live
          BY <2>2, <4>1
        <5>2. PICK p \in Seq(Nodes) :
                 /\ Queue(p, update, file_node_list_head, node, live)'
                 /\ p[Len(p)] = fn /\ p # <<>>
                 /\ p = q \/ (q = <<>> /\ p = <<fn>>)
          BY <2>2, <3>4, <3>5, <3>8, <4>1, <5>1, HeadQueued, ZenonT(60)
        <5>3. Len(p) \in 1..Len(p) /\ (q = <<>> => Len(q) = 0)
          BY <5>2
        <5>4. p = <<fn>> => Len(p) = 1
          OBVIOUS
        <5>5. fl.pc # "pick" => \A i \in 1..Len(p) : p[i] = fl.fn => i = 1
          BY <3>3, <5>2, <5>4 DEF Queued
        <5> QED
          BY <5>2, <5>3, <5>5
      <4>2. CASE fn \notin live
        <5>1. PICK p \in Seq(Nodes) :
                 /\ Queue(p, update, file_node_list_head, node, live)'
                 /\ Len(p) = Len(q) + 1 /\ p[Len(p)] = fn
                 /\ \A i \in 1..Len(q) : p[i] = q[i]
          BY <2>2, <2>4, <2>6, <3>4, <3>5, <4>2, NewNodeQueued
        <5>2. PICK l \in Nat : l = Len(q)
          BY <3>4 DEF Queue
        <5>3. Len(p) = l + 1 /\ \A i \in 1..(l + 1) : i \in 1..l \/ i = l + 1
          BY <5>1, <5>2
        <5>4. l + 1 \in 1..Len(p) /\ \A i \in 1..l : i \in 1..Len(p)
          BY <5>3
        <5>5. fl.pc # "pick" => \A i \in 1..Len(p) : p[i] = fl.fn => i = 1
          BY <2>5, <3>3, <4>2, <5>1, <5>2, <5>3 DEF Queued
        <5> QED
          BY <5>1, <5>2, <5>3, <5>4, <5>5
      <4> QED
        BY <4>1, <4>2
    <3>11. ASSUME NEW g \in DirtyFiles' PROVE Attended(p, g)'
      <4>1. CASE g = f
        <5>1. n.file_name = f
          BY <2>3, <4>1 DEF DirtyFiles
        <5>2. OnQueue(p, node, g)'
          BY <3>6, <3>10, <4>1, <5>1 DEF OnQueue
        <5> QED
          BY <5>2 DEF Attended
      <4>2. CASE g # f
        <5>1. g \in DirtyFiles
          BY <2>3, <2>4, <4>2 DEF DirtyFiles
        <5>2. fl.file = g \/ OnQueue(q, node, g)
          BY <2>1, <3>3, <4>2, <5>1 DEF Queued, Attended
        <5>3. ASSUME NEW i \in 1..Len(q), node[q[i]].file_name = g
              PROVE  i \in 1..Len(p) /\ node'[p[i]].file_name = g
          <6>1. i \in 1..Len(p) /\ p[i] = q[i] /\ q[i] \in live
            BY <3>4, <3>10 DEF Queue
          <6>2. node'[q[i]].file_name = node[q[i]].file_name
            BY <2>5, <2>6, <3>6, <6>1
          <6> QED
            BY <5>3, <6>1, <6>2
        <5> QED
          BY <2>4, <5>2, <5>3 DEF Attended, OnQueue
      <4> QED
        BY <4>1, <4>2
    <3>12. Queued(p)'
      BY <2>4, <3>10, <3>11 DEF Queued
    <3> QED
      BY <3>7, <3>9, <3>12
  <2> QED
    BY <2>4, <2>7, <2>8, <2>9 DEF ListInv, PickIdle, Calm
<1> QED
  BY <1>1, <1>2

(* Without its first node the queue is one again. *)
LEMMA TailQueued ==
  ASSUME NEW q, Queue(q, update, file_node_list_head, node, live), q # <<>>, Len(q) # 1
  PROVE  \E p \in Seq(Nodes) :
            /\ Queue(p, node[q[1]].prev, file_node_list_head, node, live) /\ p # <<>>
            /\ \A i \in 1..Len(p) : p[i] # q[1]
            /\ \A i \in 1..Len(q) : i # 1 => i - 1 \in 1..Len(p) /\ p[i - 1] = q[i]
<1>1. PICK l \in Nat : l = Len(q) /\ l # 0 /\ l # 1 /\ q \in Seq(Nodes)
  <2>1. q \in Seq(Nodes)
    BY DEF Queue
  <2>2. Len(q) \in Nat /\ Len(q) # 0
    BY <2>1
  <2> QED
    BY <2>1, <2>2, Zenon
<1>2. PICK p \in Seq(Nodes) : p = Tail(q)
  <2>1. Tail(q) \in Seq(Nodes)
    BY <1>1
  <2> QED
    BY <2>1
<1>3. Len(p) = l - 1 /\ \A i \in 1..(l - 1) : p[i] = q[i + 1]
  BY <1>1, <1>2
<1>4. \A i \in 1..(l - 1) : i + 1 \in 1..l /\ i + 1 # 1
  BY <1>1
<1>5. 1 \in 1..l /\ 1 \in 1..(l - 1) /\ l - 1 \in 1..(l - 1) /\ (l - 1) + 1 = l /\ l \in 1..l
  BY <1>1
<1>6. ASSUME NEW i \in 1..Len(p), NEW j \in 1..Len(p), p[i] = p[j] PROVE i = j
  <2>1. i \in 1..(l - 1) /\ j \in 1..(l - 1)
    BY <1>3
  <2>2. q[i + 1] = q[j + 1] /\ i + 1 \in 1..l /\ j + 1 \in 1..l
    BY <1>3, <1>4, <1>6, <2>1
  <2>3. i + 1 = j + 1
    BY <1>1, <2>2 DEF Queue
  <2> QED
    BY <2>1, <2>3
<1>7. ASSUME NEW i \in 1..(l - 1)
      PROVE  p[i] \in live /\ (i # l - 1 => node[p[i]].prev = p[i + 1])
  <2>1. p[i] = q[i + 1] /\ i + 1 \in 1..l
    BY <1>3, <1>4
  <2>2. CASE i = l - 1
    BY <1>1, <2>1, <2>2 DEF Queue
  <2>3. CASE i # l - 1
    <3>1. i + 1 \in 1..(l - 1) /\ i + 1 # l
      BY <1>1, <2>3
    <3> QED
      BY <1>1, <1>3, <2>1, <3>1 DEF Queue
  <2> QED
    BY <2>2, <2>3
<1>8. p # <<>> /\ p[1] = q[2] /\ p[Len(p)] = q[l]
  <2>1. Len(p) # 0 /\ p[1] = q[1 + 1] /\ p[l - 1] = q[(l - 1) + 1]
    BY <1>1, <1>3, <1>5
  <2> QED
    BY <1>3, <1>5, <2>1
<1>9. node[q[1]].prev = p[1] /\ file_node_list_head = p[Len(p)]
  <2>1. node[q[1]].prev = q[1 + 1]
    BY <1>1, <1>5 DEF Queue
  <2> QED
    BY <1>1, <1>8, <2>1 DEF Queue
<1>10. Queue(p, node[q[1]].prev, file_node_list_head, node, live)
  <2>1. node[file_node_list_head].prev \in {Null, file_node_list_head}
    BY DEF Queue
  <2> QED
    BY <1>3, <1>6, <1>7, <1>8, <1>9, <2>1 DEF Queue
<1>11. ASSUME NEW i \in 1..Len(p) PROVE p[i] # q[1]
  BY <1>1, <1>3, <1>4, <1>5 DEF Queue
<1>12. ASSUME NEW i \in 1..Len(q), i # 1 PROVE i - 1 \in 1..Len(p) /\ p[i - 1] = q[i]
  <2>1. i - 1 \in 1..(l - 1) /\ (i - 1) + 1 = i
    BY <1>1, <1>12
  <2> QED
    BY <1>3, <2>1
<1> QED
  BY <1>8, <1>10, <1>11, <1>12

(* The flush takes the node at update, the first of the queue; a head that is its
   own prev stays on it. *)
LEMMA PickListed ==
  ASSUME IInv, ListInv, Pick
  PROVE  ListInv'
<1>1. CASE \E how : Die(how)
  BY <1>1, DieListed
<1>2. CASE ~\E how : Die(how)
  <2>1. /\ fl.pc = "pick" /\ update \in live /\ qs.pc # "link"
        /\ fl' = [fl EXCEPT !.pc = "open", !.fn = update, !.file = node[update].file_name]
        /\ update' = node[update].prev
        /\ UNCHANGED <<md, file_node_list_head, node, live, qs, stray, calm>>
    BY <1>2 DEF Pick, dbVars, history
  <2>2. fl'.pc = "open" /\ fl'.fn = update /\ fl'.file = node[update].file_name
    BY <2>1 DEF IInv, Typed, TypeOK
  <2>3. DirtyFiles' = DirtyFiles
    BY <2>1 DEF DirtyFiles
  <2>4. ASSUME calm' PROVE NoNext' /\ HeadAtHand' /\ \E q : Queued(q)'
    <3>1. NoNext /\ HeadAtHand /\ \E q : Queued(q)
      BY <2>1, <2>4 DEF ListInv, Calm
    <3>2. PICK q : Queued(q)
      BY <3>1
    <3>3. Queue(q, update, file_node_list_head, node, live)
      BY <3>2 DEF Queued
    <3>4. q \in Seq(Nodes) /\ q # <<>> /\ update = q[1] /\ Len(q) \in Nat \ {0}
      <4>1. update # Null
        BY <2>1 DEF IInv, Typed, TypeOK
      <4> QED
        BY <3>3, <4>1 DEF Queue
    <3>5. PICK p \in Seq(Nodes) :
             /\ Queue(p, update, file_node_list_head, node, live)'
             /\ \A i \in 1..Len(p) : p[i] = q[1] => i = 1
             /\ \A i \in 1..Len(q) : i # 1 => i - 1 \in 1..Len(p) /\ p[i - 1] = q[i]
      <4>1. CASE Len(q) # 1
        <5>1. PICK p \in Seq(Nodes) :
                 /\ Queue(p, node[q[1]].prev, file_node_list_head, node, live) /\ p # <<>>
                 /\ \A i \in 1..Len(p) : p[i] # q[1]
                 /\ \A i \in 1..Len(q) : i # 1 => i - 1 \in 1..Len(p) /\ p[i - 1] = q[i]
          BY <3>3, <3>4, <4>1, TailQueued
        <5>2. Queue(p, update, file_node_list_head, node, live)'
          BY <2>1, <3>4, <5>1 DEF Queue
        <5> QED
          BY <5>1, <5>2
      <4>2. CASE Len(q) = 1 /\ update' = q[1]
        <5>1. Queue(q, update, file_node_list_head, node, live)'
          BY <2>1, <3>3, <3>4, <4>2 DEF Queue
        <5>2. \A i \in 1..Len(q) : i = 1
          BY <4>2
        <5> QED
          BY <3>4, <5>1, <5>2
      <4>3. CASE Len(q) = 1 /\ update' = Null
        <5> DEFINE p == <<>>
        <5>1. p \in Seq(Nodes) /\ Len(p) = 0
          OBVIOUS
        <5>2. \A i \in 1..Len(q) : i = 1
          BY <4>3
        <5>3. Queue(p, update, file_node_list_head, node, live)'
          BY <4>3, <5>1 DEF Queue
        <5> HIDE DEF p
        <5>4. \A i \in 1..Len(p) : p[i] = q[1] => i = 1
          BY <5>1
        <5> QED
          BY <5>1, <5>2, <5>3, <5>4, Zenon
      <4>4. Len(q) = 1 => update' \in {Null, q[1]}
        BY <2>1, <3>3, <3>4 DEF Queue
      <4> QED
        BY <4>1, <4>2, <4>3, <4>4
    <3>6. ASSUME NEW f \in DirtyFiles PROVE Attended(p, f)'
      <4>1. Attended(q, f)
        BY <3>2 DEF Queued
      <4>2. fl.file # f
        <5>1. fl.file = Null
          BY <2>1 DEF ListInv, PickIdle, FlIdle
        <5>2. f \in Files
          BY Values DEF DirtyFiles, IInv, Typed
        <5> QED
          BY <5>1, <5>2, PoolAssumption
      <4>3. CASE OnQueue(q, node, f)
        <5>1. PICK i \in 1..Len(q) : node[q[i]].file_name = f
          BY <4>3 DEF OnQueue
        <5>2. CASE i = 1
          BY <2>2, <3>4, <5>1, <5>2 DEF Attended
        <5>3. CASE i # 1
          <6>1. i - 1 \in 1..Len(p) /\ node'[p[i - 1]].file_name = f
            BY <2>1, <3>5, <5>1, <5>3
          <6> QED
            BY <6>1 DEF Attended, OnQueue
        <5> QED
          BY <5>2, <5>3
      <4> QED
        BY <2>1, <4>1, <4>2, <4>3 DEF Attended
    <3>7. Queued(p)'
      BY <2>2, <2>3, <3>4, <3>5, <3>6 DEF Queued
    <3>8. HeadAtHand'
      BY <2>1, <2>2 DEF HeadAtHand
    <3> QED
      BY <2>1, <3>1, <3>7, <3>8 DEF NoNext
  <2> QED
    BY <2>1, <2>2, <2>4 DEF ListInv, PickIdle, AtNode, FlushedClean, Calm
<1> QED
  BY <1>1, <1>2

(* The node is taken out of a list whose nodes have no next. *)
LEMMA UnlinkListed ==
  ASSUME IInv, ListInv, Unlink
  PROVE  ListInv'
<1>1. CASE \E how : Die(how)
  BY <1>1, DieListed
<1>2. CASE ~\E how : Die(how)
  <2>1. /\ fl.pc = "unlink"
        /\ node' = [a \in Nodes |->
              IF a = node[fl.fn].prev THEN [node[a] EXCEPT !.next = node[fl.fn].next]
              ELSE IF a = node[fl.fn].next THEN [node[a] EXCEPT !.prev = node[fl.fn].prev]
              ELSE node[a]]
        /\ fl' = [fl EXCEPT !.pc = "free", !.isHead = fl.fn = file_node_list_head]
        /\ UNCHANGED <<md, file_node_list_head, update, live, qs, stray, calm>>
    BY <1>2 DEF Unlink, dbVars, history
  <2>2. /\ fl'.pc = "free" /\ fl'.fn = fl.fn /\ fl'.file = fl.file
        /\ fl'.isHead = (fl.fn = file_node_list_head)
    BY <2>1 DEF IInv, Typed, TypeOK
  <2>3. DirtyFiles' = DirtyFiles
    BY <2>1 DEF DirtyFiles
  <2>4. fl.fn \in Nodes /\ Null \notin Nodes /\ node \in [Nodes -> FileNode] /\ live \subseteq Nodes
    BY <2>1 DEF IInv, Typed, TypeOK, AtHand
  <2>5. AtNode'
    <3>1. node[fl.fn] \in FileNode /\ node[fl.fn].file_name = fl.file
      BY <2>1, <2>4 DEF ListInv, AtNode
    <3>2. node'[fl.fn].file_name = fl.file
      BY <2>1, <2>4, <3>1 DEF FileNode
    <3> QED
      BY <2>2, <3>2 DEF AtNode
  <2>6. ASSUME calm' PROVE NoNext' /\ HeadAtHand' /\ \E q : Queued(q)'
    <3>1. NoNext /\ HeadAtHand /\ \E q : Queued(q)
      BY <2>1, <2>6 DEF ListInv, Calm
    <3>2. PICK q : Queued(q)
      BY <3>1
    <3>3. node[fl.fn].next = Null
      BY <2>4, <3>1 DEF NoNext
    <3>4. ASSUME NEW a \in Nodes
          PROVE  /\ node'[a].prev = node[a].prev /\ node'[a].file_name = node[a].file_name
                 /\ node'[a].next = Null
      <4>1. node'[a] = node[a] \/ node'[a] = [node[a] EXCEPT !.next = Null]
        BY <2>1, <2>4, <3>3
      <4>2. node[a] \in FileNode /\ node[a].next = Null
        BY <2>4, <3>1 DEF NoNext
      <4> QED
        BY <4>1, <4>2 DEF FileNode
    <3>5. \A i \in 1..Len(q) : q[i] \in Nodes
      BY <2>4, <3>2 DEF Queued, Queue
    <3>6. q # <<>> => file_node_list_head \in Nodes
      BY <3>2, <3>5 DEF Queued, Queue
    <3>7. Queue(q, update, file_node_list_head, node, live)'
      BY <2>1, <3>2, <3>4, <3>5, <3>6 DEF Queued, Queue
    <3>8. ASSUME NEW f \in DirtyFiles PROVE Attended(q, f)'
      <4>1. Attended(q, f)
        BY <3>2 DEF Queued
      <4>2. OnQueue(q, node, f) => OnQueue(q, node, f)'
        BY <3>4, <3>5 DEF OnQueue
      <4> QED
        BY <2>1, <2>2, <4>1, <4>2 DEF Attended
    <3>9. Queued(q)'
      BY <2>1, <2>2, <2>3, <3>2, <3>7, <3>8 DEF Queued
    <3>10. NoNext' /\ HeadAtHand'
      BY <2>1, <2>2, <3>1, <3>4 DEF NoNext, HeadAtHand
    <3> QED
      BY <3>9, <3>10
  <2> QED
    BY <2>1, <2>2, <2>5, <2>6 DEF ListInv, PickIdle, FlushedClean, Calm
<1> QED
  BY <1>1, <1>2

(* The node is freed: its file is clean or stray, and it is not its own prev. *)
LEMMA FreeListed ==
  ASSUME IInv, ListInv, Free
  PROVE  ListInv'
<1>1. /\ fl.pc = "free"
      /\ file_node_list_head' = IF fl.isHead THEN node[fl.fn].next ELSE file_node_list_head
      /\ update' = IF fl.fn = update THEN node[fl.fn].prev ELSE update
      /\ node' = [node EXCEPT ![fl.fn] = Blank]
      /\ live' = live \ {fl.fn}
      /\ fl' = FlIdle /\ fl'.pc = "pick"
      /\ calm' = (calm /\ node[fl.fn].prev # fl.fn)
      /\ UNCHANGED <<md, qs, stray>>
  BY DEF Free, dbVars, FlIdle
<1>2. DirtyFiles' = DirtyFiles /\ fl.file \notin DirtyFiles
  BY <1>1 DEF DirtyFiles, ListInv, FlushedClean
<1>3. ASSUME calm' PROVE NoNext' /\ HeadAtHand' /\ \E q : Queued(q)'
  <2>1. NoNext /\ HeadAtHand /\ node[fl.fn].prev # fl.fn /\ \E q : Queued(q)
    BY <1>1, <1>3 DEF ListInv, Calm
  <2>2. PICK q : Queued(q)
    BY <2>1
  <2>3. /\ fl.fn \in Nodes /\ Null \notin Nodes
        /\ node \in [Nodes -> FileNode] /\ live \subseteq Nodes
        /\ node[fl.fn].file_name = fl.file
    BY <1>1 DEF IInv, Typed, TypeOK, AtHand, ListInv, AtNode
  <2>4. NoNext'
    BY <1>1, <2>1, <2>3 DEF NoNext, Blank
  <2>5. HeadAtHand'
    BY <1>1, <2>1 DEF HeadAtHand
  <2>6. fl.isHead <=> fl.fn = file_node_list_head
    BY <1>1, <2>1 DEF HeadAtHand
  <2>7. Queue(q, update, file_node_list_head, node, live)
    BY <2>2 DEF Queued
  <2>8. PICK p \in Seq(Nodes) :
           /\ Queue(p, update', file_node_list_head, node, live)
           /\ \A i \in 1..Len(p) : p[i] # fl.fn
           /\ \A i \in 1..Len(q) : q[i] # fl.fn => \E j \in 1..Len(p) : p[j] = q[i]
    <3>1. CASE fl.fn # update
      <4>1. ASSUME NEW i \in 1..Len(q) PROVE q[i] # fl.fn
        <5>1. q # <<>> => update = q[1]
          BY <2>7 DEF Queue
        <5>2. q # <<>>
          BY <4>1
        <5> QED
          BY <1>1, <2>2, <3>1, <5>1, <5>2 DEF Queued
      <4>2. update' = update /\ q \in Seq(Nodes)
        BY <1>1, <2>7, <3>1 DEF Queue
      <4> QED
        BY <2>7, <4>1, <4>2
    <3>2. CASE fl.fn = update
      <4>1. q \in Seq(Nodes) /\ q # <<>> /\ q[1] = fl.fn /\ update' = node[q[1]].prev
            /\ Len(q) \in Nat \ {0}
        BY <1>1, <2>3, <2>7, <3>2 DEF Queue
      <4>2. CASE Len(q) # 1
        <5>1. PICK p \in Seq(Nodes) :
                 /\ Queue(p, node[q[1]].prev, file_node_list_head, node, live) /\ p # <<>>
                 /\ \A i \in 1..Len(p) : p[i] # q[1]
                 /\ \A i \in 1..Len(q) : i # 1 => i - 1 \in 1..Len(p) /\ p[i - 1] = q[i]
          BY <2>7, <4>1, <4>2, TailQueued
        <5> QED
          BY <4>1, <5>1
      <4>3. CASE Len(q) = 1
        <5> DEFINE p == <<>>
        <5>1. p \in Seq(Nodes) /\ Len(p) = 0
          OBVIOUS
        <5>2. \A i \in 1..Len(q) : q[i] = fl.fn
          BY <4>1, <4>3
        <5>3. update' = Null
          BY <2>1, <2>7, <4>1, <4>3 DEF Queue
        <5>4. Queue(p, update', file_node_list_head, node, live)
          BY <5>1, <5>3 DEF Queue
        <5> HIDE DEF p
        <5>5. \A i \in 1..Len(p) : p[i] # fl.fn
          BY <5>1
        <5> QED
          BY <5>1, <5>2, <5>4, <5>5, Zenon
      <4> QED
        BY <4>2, <4>3
    <3> QED
      BY <3>1, <3>2
  <2>9. \A i \in 1..Len(p) : p[i] \in live' /\ node'[p[i]] = node[p[i]]
    BY <1>1, <2>3, <2>8 DEF Queue
  <2>10. p # <<>> =>
           /\ Len(p) \in 1..Len(p) /\ file_node_list_head = p[Len(p)]
           /\ file_node_list_head' = file_node_list_head
           /\ node'[file_node_list_head] = node[file_node_list_head]
    <3>1. ASSUME p # <<>> PROVE Len(p) \in 1..Len(p) /\ file_node_list_head = p[Len(p)]
      BY <2>8, <3>1 DEF Queue
    <3> QED
      BY <1>1, <2>6, <2>8, <2>9, <3>1
  <2>11. Queue(p, update, file_node_list_head, node, live)'
    BY <2>8, <2>9, <2>10 DEF Queue
  <2>12. ASSUME NEW f \in DirtyFiles PROVE Attended(p, f)'
    <3>1. Attended(q, f) /\ fl.file # f
      BY <1>2, <2>2 DEF Queued
    <3>2. CASE OnQueue(q, node, f)
      <4>1. PICK i \in 1..Len(q) : node[q[i]].file_name = f
        BY <3>2 DEF OnQueue
      <4>2. q[i] # fl.fn
        BY <2>3, <3>1, <4>1
      <4>3. PICK j \in 1..Len(p) : p[j] = q[i]
        BY <2>8, <4>2
      <4> QED
        BY <2>9, <4>1, <4>3 DEF Attended, OnQueue
    <3> QED
      BY <1>1, <3>1, <3>2 DEF Attended
  <2>13. Queued(p)'
    BY <1>1, <1>2, <2>11, <2>12 DEF Queued
  <2> QED
    BY <2>4, <2>5, <2>13
<1> QED
  BY <1>1, <1>3 DEF ListInv, PickIdle, AtNode, FlushedClean, Calm

LEMMA ListInit == Init => ListInv
<1> SUFFICES ASSUME Init PROVE ListInv
  OBVIOUS
<1>1. /\ fl = FlIdle /\ qs = QsIdle /\ update = Null /\ md = [f \in Files |-> Clean]
      /\ node = [n \in Nodes |-> Blank] /\ fl.pc = "pick" /\ qs.pc = "accept"
  BY DEF Init, ClientInit, FlIdle, QsIdle
<1>2. NoNext /\ HeadAtHand
  BY <1>1 DEF NoNext, HeadAtHand, Blank
<1>3. PICK q : q = <<>>
  OBVIOUS
<1>4. Queue(q, update, file_node_list_head, node, live)
  <2>1. q \in Seq(Nodes) /\ Len(q) = 0
    BY <1>3
  <2> QED
    BY <1>1, <1>3, <2>1 DEF Queue
<1>5. DirtyFiles = {}
  BY <1>1 DEF DirtyFiles, Clean
<1>6. Queued(q)
  BY <1>1, <1>3, <1>4, <1>5 DEF Queued
<1> QED
  BY <1>1, <1>2, <1>5, <1>6 DEF ListInv, PickIdle, AtNode, FlushedClean, Calm

LEMMA ListStep == IInv /\ ListInv /\ [Next]_vars => ListInv'
<1> SUFFICES ASSUME IInv, ListInv, [Next]_vars PROVE ListInv'
  OBVIOUS
<1>1. CASE QueOutServ
  BY <1>1, ServListed, PutMdListed, GetFnListed, AddToHeadListed DEF QueOutServ
<1>2. CASE Flush
  BY <1>2, PickListed, OpenListed, FlushListed, ClearMdListed, UnlinkListed, FreeListed DEF Flush
<1>3. CASE UNCHANGED vars
  BY <1>3, CallsListed
<1>4. CASE /\ (\E f \in Files : Call(f)) \/ ((\E r \in writing : QueOut(r)) /\ UNCHANGED hurt)
           /\ UNCHANGED <<listVars, serverVars, recorded, stray, calm>>
  BY <1>4, CallsListed
<1>5. CASE \E f \in Files : Replace(f)
  BY <1>5, CallsListed
<1>6. CASE Restart
  BY <1>6, RestartListed
<1> QED
  BY <1>1, <1>2, <1>3, <1>4, <1>5, <1>6 DEF Next

LEMMA ListAlways == Spec => [](IInv /\ ListInv)
<1>1. Init => IInv /\ ListInv
  BY IInvInit, ListInit
<1>2. IInv /\ ListInv /\ [Next]_vars => (IInv /\ ListInv)'
  BY IInvStep, ListStep
<1> QED
  BY <1>1, <1>2, PTL DEF Spec

(* Following prev from update comes to every node of the queue. *)
LEMMA QueueAhead ==
  ASSUME IInv, NEW q, Queue(q, update, file_node_list_head, node, live),
         NEW k \in 1..Len(q)
  PROVE  q[k] \in Ahead
<1>1. q \in Seq(Nodes) /\ Null \notin Nodes
  BY DEF Queue, IInv, Typed, TypeOK
<1>2. PICK l \in Nat : l = Len(q)
  BY <1>1
<1>3. PICK N \in Nat : N = Cardinality(Nodes)
  BY PoolAssumption, FS_CardinalityType
<1>4. l <= N
  <2>1. ASSUME l > N PROVE FALSE
    <3> DEFINE g == [i \in 1..l |-> q[i]]
    <3>1. g \in [1..l -> Nodes]
      BY <1>1, <1>2
    <3>2. IsFiniteSet(1..l) /\ Cardinality(1..l) = l
      <4>1. 1 \in Int /\ l \in Int /\ l >= 1
        BY <1>2, <1>3, <2>1
      <4> QED
        BY <4>1, FS_Interval
    <3> HIDE DEF g
    <3>3. PICK x, y \in 1..l : x # y /\ g[x] = g[y]
      BY <1>3, <2>1, <3>1, <3>2, PoolAssumption, FS_PigeonHole
    <3>4. q[x] = q[y]
      BY <3>3 DEF g
    <3> QED
      BY <1>2, <3>3, <3>4 DEF Queue
  <2> QED
    BY <1>2, <1>3, <2>1
<1> DEFINE S == Nodes \union {Null}
           Rec(g) == [i \in 0..Cardinality(Nodes) |->
               IF i = 0 THEN update
               ELSE IF g[i - 1] = Null THEN Null ELSE node[g[i - 1]].prev]
<1>5. PICK s \in [S -> S] : \A p \in S : s[p] = IF p = Null THEN Null ELSE node[p].prev
  <2> DEFINE s == [p \in S |-> IF p = Null THEN Null ELSE node[p].prev]
  <2>1. \A n \in Nodes : node[n].prev \in S
    BY DEF IInv, Typed, TypeOK, FileNode, Pointers
  <2>2. s \in [S -> S] /\ \A p \in S : s[p] = IF p = Null THEN Null ELSE node[p].prev
    BY <2>1
  <2> QED
    BY <2>2
<1>6. PICK g : Iterates(g, s, update, S, N)
  <2>1. update \in S
    BY DEF IInv, Typed, TypeOK, Pointers
  <2> HIDE DEF S
  <2> QED
    BY <1>3, <1>5, <2>1, CanIterate
<1>7. g = Rec(g)
  <2>1. ASSUME NEW i \in 0..N PROVE g[i] = Rec(g)[i]
    <3>1. CASE i = 0
      BY <1>3, <1>6, <3>1 DEF Iterates
    <3>2. CASE i # 0
      <4>1. i \in 1..N /\ i - 1 \in 0..N
        BY <1>3, <3>2
      <4>2. g[i - 1] \in S /\ g[i] = s[g[i - 1]]
        BY <1>6, <4>1, SMTT(60) DEF Iterates
      <4> QED
        BY <1>3, <1>5, <3>2, <4>2
    <3> QED
      BY <3>1, <3>2
  <2> QED
    BY <1>3, <1>6, <2>1 DEF Iterates
<1> DEFINE at == CHOOSE a : a = Rec(a)
<1>8. at = Rec(at)
  BY <1>7, ZenonT(60)
<1>9. Ahead = {at[i] : i \in DOMAIN at} \ {Null}
  BY DEF Ahead
<1> HIDE DEF at
<1>10. /\ DOMAIN at = 0..N /\ at[0] = update
       /\ \A i \in 1..N : at[i] = IF at[i - 1] = Null THEN Null ELSE node[at[i - 1]].prev
  BY <1>3, <1>8
<1>11. \A i \in 0..(l - 1) : at[i] = q[i + 1]
  <2> DEFINE Good == {i \in Nat : i < l => at[i] = q[i + 1]}
  <2>1. 0 \in Good
    <3>1. ASSUME 0 < l PROVE update = q[0 + 1]
      <4>1. q # <<>> /\ 0 + 1 = 1
        BY <1>2, <3>1
      <4> QED
        BY <4>1 DEF Queue
    <3> QED
      BY <1>10, <3>1
  <2>2. \A i \in Nat : i \in Good => i + 1 \in Good
    <3>1. ASSUME NEW i \in Nat, i \in Good, i + 1 < l PROVE at[i + 1] = q[(i + 1) + 1]
      <4>1. i + 1 \in 1..N /\ (i + 1) - 1 = i /\ i + 1 \in 1..l /\ i + 1 # l
        BY <1>2, <1>3, <1>4, <3>1
      <4>2. at[i] = q[i + 1]
        BY <1>2, <3>1
      <4>3. q[i + 1] \in Nodes /\ node[q[i + 1]].prev = q[(i + 1) + 1]
        BY <1>1, <1>2, <4>1 DEF Queue
      <4>4. at[i + 1] = IF at[i] = Null THEN Null ELSE node[at[i]].prev
        BY <1>10, <4>1
      <4> QED
        BY <1>1, <4>2, <4>3, <4>4
    <3> QED
      BY <3>1
  <2>3. \A i \in Nat : i \in Good
    <3> HIDE DEF Good
    <3> QED
      BY <2>1, <2>2, Induction
  <2> QED
    BY <1>2, <2>3
<1>12. q[k] \in Nodes /\ k - 1 \in 0..(l - 1) /\ (k - 1) + 1 = k /\ k - 1 \in 0..N
  BY <1>1, <1>2, <1>3, <1>4
<1>13. at[k - 1] = q[k]
  BY <1>11, <1>12
<1> QED
  BY <1>1, <1>9, <1>10, <1>12, <1>13

LEMMA QueuedIsAhead == IInv /\ ListInv => DirtyIsQueued
<1> SUFFICES ASSUME IInv, ListInv, calm, NEW f \in DirtyFiles
             PROVE  \/ qs.pc \in {"find", "link"} /\ qs.req.path = f
                    \/ fl.file = f
                    \/ /\ file_node_list_head # Null
                       /\ \E n \in Ahead : node[n].file_name = f
  BY DEF DirtyIsQueued, DirtyFiles
<1>1. PICK q : Queued(q)
  BY DEF ListInv, Calm
<1>2. Attended(q, f) /\ Queue(q, update, file_node_list_head, node, live)
  BY <1>1 DEF Queued
<1>3. CASE OnQueue(q, node, f)
  <2>1. PICK k \in 1..Len(q) : node[q[k]].file_name = f
    BY <1>3 DEF OnQueue
  <2>2. q[k] \in Ahead
    BY <1>2, QueueAhead
  <2>3. file_node_list_head # Null
    <3>1. q \in Seq(Nodes) /\ Null \notin Nodes
      BY <1>2 DEF Queue, IInv, Typed, TypeOK
    <3>2. q # <<>> /\ Len(q) \in 1..Len(q)
      BY <2>1, <3>1
    <3>3. file_node_list_head = q[Len(q)]
      BY <1>2, <3>2 DEF Queue
    <3> QED
      BY <3>1, <3>2, <3>3
  <2> QED
    BY <2>1, <2>2, <2>3
<1> QED
  BY <1>2, <1>3 DEF Attended

(* While the list is calm, every dirty file that is not stray is about to be
   listed by que_out_serv, at hand in the flush, or on the list between update
   and the head, where flush2data_center() comes to it; also when it was listed
   again and its node is its own prev, and after a restart. *)
THEOREM DirtyFilesQueued == Spec => []DirtyIsQueued
BY ListAlways, QueuedIsAhead, PTL
=============================================================================
