------------------------- MODULE MdMutexHashProofs -------------------------
(***************************************************************************)
(* Proofs about MdMutexHash for every number of clients, files, chains and *)
(* entries: the chains stay whole under every interleaving, and without a  *)
(* late head the server locks, counts and frees correctly.                 *)
(***************************************************************************)
EXTENDS MdMutexHash, FiniteSetTheorems, WellFoundedInduction, TLAPS

-----------------------------------------------------------------------------
(* Induction over the numbers.  The induction theorems of the library take an
   operator, which the provers cannot instantiate; over a set they follow from the
   strict subset relation on finite sets being well-founded. *)

(* Every set of numbers has a least one. *)
LEMMA LeastNat ==
  ASSUME NEW T, T \subseteq Nat, T # {}
  PROVE  \E x \in T : \A y \in T : x <= y
<1> DEFINE F == {0..n : n \in T}
<1>1. F \subseteq FiniteSubsetsOf(Nat) /\ F # {}
  <2>1. \A n \in Nat : IsFiniteSet(0..n)
    BY FS_Interval
  <2>2. \A n \in Nat : (0..n) \subseteq Nat
    OBVIOUS
  <2>3. \A n \in T : 0..n \in FiniteSubsetsOf(Nat)
    BY <2>1, <2>2 DEF FiniteSubsetsOf
  <2> QED
    BY <2>3
<1>2. \E S \in F : \A R \in F : <<R, S>> \notin StrictSubsetOrdering(Nat)
  BY <1>1, FS_StrictSubsetOrderingWellFounded, WFMin
<1>3. PICK x \in T : \A y \in T : <<0..y, 0..x>> \notin StrictSubsetOrdering(Nat)
  BY <1>2
<1>4. ASSUME NEW y \in T, (0..y) \subseteq (0..x), 0..y # 0..x PROVE FALSE
  <2>1. 0..y \in SUBSET Nat /\ 0..x \in SUBSET Nat
    OBVIOUS
  <2>2. <<0..y, 0..x>> \in (SUBSET Nat) \X (SUBSET Nat)
    BY <2>1
  <2> QED
    BY <1>3, <1>4, <2>2 DEF StrictSubsetOrdering
<1>5. ASSUME NEW y \in T, ~(x <= y) PROVE FALSE
  <2>1. x \in 0..x /\ x \notin 0..y /\ (0..y) \subseteq (0..x)
    BY <1>5
  <2> QED
    BY <1>4, <2>1
<1> QED
  BY <1>5

(* Induction over the set of the numbers for which a fact holds. *)
LEMMA Induction ==
  ASSUME NEW S, 0 \in S, \A n \in Nat : n \in S => n + 1 \in S
  PROVE  \A n \in Nat : n \in S
<1> DEFINE T == {n \in Nat : n \notin S}
<1> SUFFICES ASSUME T # {} PROVE FALSE
  OBVIOUS
<1>1. PICK x \in T : \A y \in T : x <= y
  BY LeastNat
<1>2. x # 0 /\ x - 1 \in Nat /\ x - 1 \notin S
  OBVIOUS
<1> QED
  BY <1>1, <1>2

(* g lists p and the first n values that iterating s gives. *)
Iterates(g, s, p, S, n) ==
    /\ g \in [0..n -> S]
    /\ g[0] = p /\ \A k \in 1..n : g[k] = s[g[k - 1]]

LEMMA CanIterate ==
  ASSUME NEW S, NEW s \in [S -> S], NEW p \in S, NEW N \in Nat
  PROVE  \E g : Iterates(g, s, p, S, N)
<1> DEFINE Good == {n \in Nat : \E g : Iterates(g, s, p, S, n)}
<1>1. 0 \in Good
  <2> DEFINE g == [k \in 0..0 |-> p]
  <2>1. Iterates(g, s, p, S, 0)
    BY DEF Iterates
  <2> QED
    BY <2>1
<1>2. ASSUME NEW n \in Nat, n \in Good PROVE n + 1 \in Good
  <2>1. PICK g : Iterates(g, s, p, S, n)
    BY <1>2
  <2> DEFINE h == [k \in 0..(n + 1) |-> IF k = n + 1 THEN s[g[n]] ELSE g[k]]
  <2>2. Iterates(h, s, p, S, n + 1)
    BY <2>1 DEF Iterates
  <2> QED
    BY <2>2
<1>3. N \in Good
  <2> HIDE DEF Good
  <2> QED
    BY <1>1, <1>2, Induction
<1> QED
  BY <1>3

USE ClientAssumption, HashAssumption
-----------------------------------------------------------------------------
(* The walk of get_zz_mutex(), a step at a time. *)
Size == Cardinality(Entries)

LEMMA SizeNat == Size \in Nat
BY FS_CardinalityType DEF Size

StepTo(e, f) ==
    IF e = None THEN None
    ELSE IF entry[e].file_name = f THEN e ELSE entry[e].next

LEMMA WalkSteps ==
  ASSUME TypeOK, NEW p \in Pointers, NEW f
  PROVE  \E at \in [0..Size -> Pointers] :
           /\ Walk(p, f) = at[Size] /\ at[0] = p
           /\ \A k \in Nat : k < Size => at[k + 1] = StepTo(at[k], f)
<1> DEFINE Rec(g) == [k \in 0..Cardinality(Entries) |->
        IF k = 0 THEN p
        ELSE LET e == g[k - 1]
             IN IF e = None THEN None
                ELSE IF entry[e].file_name = f THEN e ELSE entry[e].next]
<1>1. \A e \in Pointers : StepTo(e, f) \in Pointers
  BY DEF TypeOK, Pointers, ZzMutex, StepTo
<1>2. PICK s \in [Pointers -> Pointers] : \A e \in Pointers : s[e] = StepTo(e, f)
  <2> DEFINE s == [e \in Pointers |-> StepTo(e, f)]
  <2>1. s \in [Pointers -> Pointers] /\ \A e \in Pointers : s[e] = StepTo(e, f)
    BY <1>1
  <2> QED
    BY <2>1
<1>3. PICK g : Iterates(g, s, p, Pointers, Size)
  BY SizeNat, CanIterate
<1>4. \A k \in 1..Size : g[k] = StepTo(g[k - 1], f)
  BY <1>2, <1>3, SizeNat DEF Iterates
<1>5. g = Rec(g)
  <2>1. ASSUME NEW k \in 0..Size PROVE g[k] = Rec(g)[k]
    <3>1. CASE k = 0
      BY <1>3, <3>1, SizeNat DEF Size, Iterates
    <3>2. CASE k # 0
      <4>1. k \in 1..Size
        BY <3>2, SizeNat
      <4>2. g[k] = StepTo(g[k - 1], f)
        BY <1>4, <4>1
      <4> QED
        BY <3>2, <4>2 DEF StepTo, Size
    <3> QED
      BY <3>1, <3>2
  <2>2. DOMAIN Rec(g) = 0..Size
    BY SMTT(60) DEF Size
  <2> QED
    BY <1>3, <2>1, <2>2 DEF Iterates
<1> DEFINE at == CHOOSE a : a = Rec(a)
<1>6. at = Rec(at)
  BY <1>5, ZenonT(60)
<1>7. Walk(p, f) = at[Size]
  BY DEF Walk, Size
<1> HIDE DEF at
<1>8. at[0] = p /\ \A k \in Nat : k < Size => at[k + 1] = StepTo(at[k], f)
  BY <1>6, SizeNat DEF StepTo, Size
<1>9. at \in [0..Size -> Pointers]
  <2> DEFINE Good == {k \in Nat : k <= Size => at[k] \in Pointers}
  <2>1. 0 \in Good
    BY <1>8
  <2>2. ASSUME NEW k \in Nat, k \in Good, k + 1 <= Size PROVE k + 1 \in Good
    <3>1. at[k] \in Pointers /\ at[k + 1] = StepTo(at[k], f)
      BY <1>8, <2>2, SizeNat
    <3> QED
      BY <1>1, <3>1
  <2>3. \A k \in Nat : k \in Good => k + 1 \in Good
    BY <2>2
  <2>4. \A k \in Nat : k \in Good
    <3> HIDE DEF Good
    <3> QED
      BY <2>1, <2>3, Induction
  <2>5. \A k \in 0..Size : at[k] \in Pointers
    BY <2>4, SizeNat, SMTT(60)
  <2>6. \E D : at = [k \in 0..Size |-> D[k]]
    <3> DEFINE D == Rec(at)
    <3>1. D = [k \in 0..Size |-> D[k]]
      BY DEF Size
    <3> QED
      BY <1>6, <3>1
  <2> QED
    BY <2>5, <2>6
<1> QED
  BY <1>7, <1>8, <1>9

(* The members of a chain, a link at a time. *)
NextOf(e) == IF e = None THEN None ELSE entry[e].next

LEMMA ChainSteps ==
  ASSUME TypeOK, NEW h \in Hashes
  PROVE  \E at \in [0..Size -> Pointers] :
           /\ Chain(h) = {at[k] : k \in 0..Size} \ {None} /\ at[0] = mutex_hash[h]
           /\ \A k \in Nat : k < Size => at[k + 1] = NextOf(at[k])
<1> DEFINE p == mutex_hash[h]
<1> DEFINE Rec(g) == [k \in 0..Cardinality(Entries) |->
        IF k = 0 THEN mutex_hash[h]
        ELSE IF g[k - 1] = None THEN None ELSE entry[g[k - 1]].next]
<1>1. p \in Pointers /\ \A e \in Pointers : NextOf(e) \in Pointers
  BY DEF TypeOK, Pointers, ZzMutex, NextOf
<1>2. PICK s \in [Pointers -> Pointers] : \A e \in Pointers : s[e] = NextOf(e)
  <2> DEFINE s == [e \in Pointers |-> NextOf(e)]
  <2>1. s \in [Pointers -> Pointers] /\ \A e \in Pointers : s[e] = NextOf(e)
    BY <1>1
  <2> QED
    BY <2>1
<1>3. PICK g : Iterates(g, s, p, Pointers, Size)
  <2> HIDE DEF p
  <2> QED
    BY <1>1, SizeNat, CanIterate
<1>4. \A k \in 1..Size : g[k] = NextOf(g[k - 1])
  BY <1>2, <1>3, SizeNat DEF Iterates
<1>5. g = Rec(g)
  <2>1. ASSUME NEW k \in 0..Size PROVE g[k] = Rec(g)[k]
    <3>1. CASE k = 0
      BY <1>3, <3>1, SizeNat DEF Size, Iterates
    <3>2. CASE k # 0
      <4>1. k \in 1..Size
        BY <3>2, SizeNat
      <4>2. g[k] = NextOf(g[k - 1])
        BY <1>4, <4>1
      <4> QED
        BY <3>2, <4>2 DEF NextOf, Size
    <3> QED
      BY <3>1, <3>2
  <2>2. DOMAIN Rec(g) = 0..Size
    BY SMTT(60) DEF Size
  <2> QED
    BY <1>3, <2>1, <2>2 DEF Iterates
<1> DEFINE at == CHOOSE a : a = Rec(a)
<1>6. at = Rec(at)
  BY <1>5, ZenonT(60)
<1>7. Chain(h) = {at[k] : k \in DOMAIN at} \ {None}
  BY DEF Chain
<1> HIDE DEF at
<1>8. at[0] = p /\ \A k \in Nat : k < Size => at[k + 1] = NextOf(at[k])
  BY <1>6, SizeNat DEF NextOf, Size
<1>9. at \in [0..Size -> Pointers]
  <2> DEFINE Good == {k \in Nat : k <= Size => at[k] \in Pointers}
  <2>1. 0 \in Good
    BY <1>1, <1>8
  <2>2. ASSUME NEW k \in Nat, k \in Good, k + 1 <= Size PROVE k + 1 \in Good
    <3>1. at[k] \in Pointers /\ at[k + 1] = NextOf(at[k])
      BY <1>8, <2>2, SizeNat
    <3> QED
      BY <1>1, <3>1
  <2>3. \A k \in Nat : k \in Good => k + 1 \in Good
    BY <2>2
  <2>4. \A k \in Nat : k \in Good
    <3> HIDE DEF Good
    <3> QED
      BY <2>1, <2>3, Induction
  <2>5. \A k \in 0..Size : at[k] \in Pointers
    BY <2>4, SizeNat
  <2>6. \E D : at = [k \in 0..Size |-> D[k]]
    <3> DEFINE D == Rec(at)
    <3>1. D = [k \in 0..Size |-> D[k]]
      BY DEF Size
    <3> QED
      BY <1>6, <3>1
  <2> QED
    BY <2>5, <2>6
<1> QED
  BY <1>7, <1>8, <1>9
-----------------------------------------------------------------------------
(* The chain an entry belongs to, in a state with the entries en. *)
Home(en, e) == Hash[en[e].file_name]

(* The links of the chains, in a state with the heads mh, the entries en and
   the addresses lv in use: a head starts the chain of its own index; *)
HeadsStart(mh, en, lv) ==
    \A h \in Hashes : mh[h] # None =>
        mh[h] \in lv /\ Home(en, mh[h]) = h /\ en[mh[h]].pre = None

(* an entry without predecessor is a head, and the predecessor of any other
   leads to it; *)
PreLeadsBack(mh, en, lv) ==
    \A e \in lv :
        IF en[e].pre = None THEN mh[Home(en, e)] = e
        ELSE en[e].pre \in lv /\ en[en[e].pre].next = e

(* the successor of an entry is in use, in the same chain, and leads back; *)
NextLeadsOn(en, lv) ==
    \A e \in lv : en[e].next # None =>
        /\ en[e].next \in lv /\ en[en[e].next].pre = e
        /\ Home(en, en[e].next) = Home(en, e)

(* and d counts the links between the head and each entry. *)
Depths(en, lv, d) ==
    /\ d \in [Entries -> Nat]
    /\ \A e \in lv : en[e].pre = None => d[e] = 0
    /\ \A e \in lv : en[e].next # None => d[en[e].next] = d[e] + 1

Linked(mh, en, lv) ==
    /\ HeadsStart(mh, en, lv) /\ PreLeadsBack(mh, en, lv) /\ NextLeadsOn(en, lv)
    /\ \E d : Depths(en, lv, d)

(* As long as no walk started at a late head: an entry in use by a thread is
   in use, stands for its file, and an unlock meets its own lock; *)
ThreadAt(c) ==
    /\ pc[c] \in {"lock", "trylock", "unlock", "put"} => my_mutex[c] \in live
    /\ pc[c] \in {"lock", "trylock"} =>
          req[c].op # "UNLOCK" /\ entry[my_mutex[c]].file_name = req[c].file
    /\ pc[c] = "trylock" => req[c].op = "TRY"
    /\ pc[c] = "unlock" => req[c].op = "UNLOCK" /\ entry[my_mutex[c]].owner = c
    /\ pc[c] = "put" => req[c].op = "UNLOCK" \/ ~ok[c]

AtEntry == \A c \in Clients : ThreadAt(c)

(* a client from the answer to its lock up to its unlock owns the mutex of a
   live entry of its file; *)
MustOwn(c) ==
    \/ pc[c] = "reply" /\ ok[c] /\ req[c].op # "UNLOCK"
    \/ pc[c] = "idle" /\ sess[c] = "locked"
    \/ pc[c] \in {"connected", "sent", "get", "scan", "unlock"} /\ req[c].op = "UNLOCK"

OwnersOwn ==
    \A c \in Clients : MustOwn(c) =>
        \E e \in live : entry[e].owner = c /\ entry[e].file_name = req[c].file

(* and no modify_md is refused its lock. *)
NoneRefused ==
    \A c \in Clients :
        /\ sess[c] # "failed"
        /\ c \in Modifiers => ok[c] /\ req[c].op # "TRY"

Sound ==
    /\ ~broken /\ OneEntryPerFile /\ CountIsUse
    /\ AtEntry /\ OwnersOwn /\ NoneRefused

-----------------------------------------------------------------------------
(* What TypeOK says of the entries. *)
LEMMA EntryTypes ==
  ASSUME TypeOK
  PROVE  /\ \A e \in Entries :
              /\ entry[e].count \in Int /\ entry[e].owner \in Clients \union {None}
              /\ entry[e].file_name \in Names /\ Home(entry, e) \in Hashes
              /\ entry[e].pre \in Pointers /\ entry[e].next \in Pointers
         /\ \A h \in Hashes : mutex_hash[h] \in Pointers
         /\ \A c \in Clients : req[c].file \in Names /\ Hash[req[c].file] \in Hashes
         /\ live \subseteq Entries
BY DEF TypeOK, ClientTypeOK, ZzMutex, Home

(* Fewer links lead to an entry than there are entries: the depths of the
   entries before it are all taken. *)
LEMMA DepthBound ==
  ASSUME TypeOK, Linked(mutex_hash, entry, live), NEW d, Depths(entry, live, d),
         NEW e \in live
  PROVE  d[e] \in Nat /\ d[e] < Size
<1>0. /\ live \subseteq Entries /\ d \in [Entries -> Nat]
      /\ \A x \in live : d[x] \in Nat
  BY DEF TypeOK, Depths
<1> DEFINE D == {d[x] : x \in live}
<1> DEFINE Good == {k \in Nat : \A x \in live : d[x] = k => (0..k) \subseteq D}
<1>1. 0 \in Good
  OBVIOUS
<1>2. ASSUME NEW k \in Nat, k \in Good PROVE k + 1 \in Good
  <2> SUFFICES ASSUME NEW x \in live, d[x] = k + 1 PROVE (0..(k + 1)) \subseteq D
    OBVIOUS
  <2>1. entry[x].pre # None
    BY DEF Depths
  <2>2. entry[x].pre \in live /\ entry[entry[x].pre].next = x
    BY <2>1 DEF Linked, PreLeadsBack
  <2>3. None \notin live /\ d[x] = d[entry[x].pre] + 1
    BY <1>0, <2>2 DEF Depths
  <2>4. d[entry[x].pre] = k
    BY <1>0, <2>2, <2>3
  <2>5. (0..k) \subseteq D
    BY <1>2, <2>2, <2>4
  <2>6. k + 1 \in D
    OBVIOUS
  <2> HIDE DEF D
  <2> QED
    BY <2>5, <2>6
<1>3. \A k \in Nat : k \in Good
  <2> HIDE DEF Good
  <2> QED
    BY <1>1, <1>2, Induction
<1>4. (0..d[e]) \subseteq D
  BY <1>0, <1>3
<1>5. IsFiniteSet(live) /\ Cardinality(live) <= Size
  BY <1>0, FS_Subset DEF Size
<1>6. IsFiniteSet(D) /\ Cardinality(D) <= Cardinality(live)
  <2> DEFINE s == [x \in live |-> d[x]]
  <2>1. s \in Surjection(live, D)
    BY DEF Surjection
  <2> HIDE DEF s, D
  <2> QED
    BY <1>5, <2>1, FS_Surjection
<1>7. Cardinality(0..d[e]) = d[e] + 1 /\ Cardinality(0..d[e]) <= Cardinality(D)
  <2>1. Cardinality(0..d[e]) <= Cardinality(D)
    <3> HIDE DEF D
    <3> QED
      BY <1>4, <1>6, FS_Subset
  <2>2. Cardinality(0..d[e]) = d[e] + 1
    BY <1>0, FS_Interval
  <2> QED
    BY <2>1, <2>2
<1>8. Cardinality(live) \in Nat /\ Cardinality(D) \in Nat
  <2> HIDE DEF D
  <2> QED
    BY <1>5, <1>6, FS_CardinalityType
<1> QED
  BY <1>0, <1>5, <1>6, <1>7, <1>8, SizeNat

(* Two entries of one chain are not equally far from its head. *)
LEMMA DepthsDiffer ==
  ASSUME TypeOK, Linked(mutex_hash, entry, live), NEW d, Depths(entry, live, d),
         NEW e \in live, NEW f \in live, Home(entry, e) = Home(entry, f), d[e] = d[f]
  PROVE  e = f
<1>0. live \subseteq Entries /\ None \notin live /\ \A x \in live : d[x] \in Nat
  BY DEF TypeOK, Depths
<1> DEFINE Good == {k \in Nat : \A x, y \in live :
          Home(entry, x) = Home(entry, y) /\ d[x] = k /\ d[y] = k => x = y}
<1>1. ASSUME NEW x \in live, d[x] # 0
      PROVE  /\ entry[x].pre \in live /\ entry[entry[x].pre].next = x
             /\ Home(entry, entry[x].pre) = Home(entry, x)
             /\ d[entry[x].pre] = d[x] - 1
  <2>1. entry[x].pre # None
    BY <1>1 DEF Depths
  <2>2. entry[x].pre \in live /\ entry[entry[x].pre].next = x
    BY <2>1 DEF Linked, PreLeadsBack
  <2>3. Home(entry, entry[x].pre) = Home(entry, x) /\ d[x] = d[entry[x].pre] + 1
    BY <1>0, <2>2 DEF Depths, Linked, NextLeadsOn
  <2> QED
    BY <1>0, <2>2, <2>3
<1>2. 0 \in Good
  <2>1. ASSUME NEW x \in live, d[x] = 0 PROVE mutex_hash[Home(entry, x)] = x
    <3>1. CASE entry[x].pre = None
      BY <3>1 DEF Linked, PreLeadsBack
    <3>2. CASE entry[x].pre # None
      <4>1. entry[x].pre \in live /\ entry[entry[x].pre].next = x
        BY <3>2 DEF Linked, PreLeadsBack
      <4>2. d[x] = d[entry[x].pre] + 1
        BY <1>0, <4>1 DEF Depths
      <4> QED
        BY <1>0, <2>1, <4>1, <4>2
    <3> QED
      BY <3>1, <3>2
  <2> QED
    BY <2>1
<1>3. ASSUME NEW k \in Nat, k \in Good PROVE k + 1 \in Good
  <2> SUFFICES ASSUME NEW x \in live, NEW y \in live,
                      Home(entry, x) = Home(entry, y), d[x] = k + 1, d[y] = k + 1
               PROVE  x = y
    OBVIOUS
  <2>1. /\ entry[x].pre \in live /\ entry[y].pre \in live
        /\ entry[entry[x].pre].next = x /\ entry[entry[y].pre].next = y
        /\ Home(entry, entry[x].pre) = Home(entry, entry[y].pre)
        /\ d[entry[x].pre] = k /\ d[entry[y].pre] = k
    BY <1>1
  <2>2. entry[x].pre = entry[y].pre
    BY <1>3, <2>1
  <2> QED
    BY <2>1, <2>2
<1>4. \A k \in Nat : k \in Good
  <2> HIDE DEF Good
  <2> QED
    BY <1>2, <1>3, Induction
<1> QED
  BY <1>0, <1>4
-----------------------------------------------------------------------------
(* Following the links from the head of its chain reaches every entry in
   use, and nothing else. *)
LEMMA LinkedChains ==
  ASSUME TypeOK, Linked(mutex_hash, entry, live)
  PROVE  ChainsWellFormed
<1>0. live \subseteq Entries /\ None \notin live
  BY DEF TypeOK
<1>1. PICK d : Depths(entry, live, d)
  BY DEF Linked
<1>2. \A x \in live : d[x] \in Nat /\ d[x] < Size
  BY <1>1, DepthBound
<1>3. ASSUME NEW e \in live PROVE e \in Chain(Home(entry, e))
  <2> DEFINE h == Home(entry, e)
  <2>1. h \in Hashes
    BY <1>0, EntryTypes
  <2> HIDE DEF h
  <2>2. PICK at \in [0..Size -> Pointers] :
           /\ Chain(h) = {at[k] : k \in 0..Size} \ {None} /\ at[0] = mutex_hash[h]
           /\ \A k \in Nat : k < Size => at[k + 1] = NextOf(at[k])
    BY <2>1, ChainSteps
  <2> DEFINE Good == {k \in Nat : \A x \in live : Home(entry, x) = h /\ d[x] = k => at[k] = x}
  <2>3. ASSUME NEW x \in live
        PROVE  \/ entry[x].pre = None /\ d[x] = 0 /\ mutex_hash[Home(entry, x)] = x
               \/ /\ entry[x].pre \in live /\ entry[entry[x].pre].next = x
                  /\ Home(entry, entry[x].pre) = Home(entry, x)
                  /\ d[x] = d[entry[x].pre] + 1
    BY <1>0, <1>1 DEF Depths, Linked, PreLeadsBack, NextLeadsOn
  <2>4. 0 \in Good
    BY <1>2, <2>2, <2>3
  <2>5. ASSUME NEW k \in Nat, k \in Good PROVE k + 1 \in Good
    <3> SUFFICES ASSUME NEW x \in live, Home(entry, x) = h, d[x] = k + 1
                 PROVE  at[k + 1] = x
      OBVIOUS
    <3>1. /\ entry[x].pre \in live /\ entry[entry[x].pre].next = x
          /\ Home(entry, entry[x].pre) = h /\ d[entry[x].pre] = k
      BY <1>2, <2>3
    <3>2. at[k] = entry[x].pre
      BY <2>5, <3>1
    <3>3. k < Size
      BY <1>2, <3>1
    <3> QED
      BY <1>0, <2>2, <3>1, <3>2, <3>3 DEF NextOf
  <2>6. \A k \in Nat : k \in Good
    <3> HIDE DEF Good
    <3> QED
      BY <2>4, <2>5, Induction
  <2>7. at[d[e]] = e /\ d[e] \in 0..Size
    BY <1>2, <2>6, SizeNat DEF h
  <2> QED
    BY <1>0, <2>2, <2>7 DEF h
<1>4. ASSUME NEW h \in Hashes PROVE Chain(h) \subseteq live
  <2>1. PICK at \in [0..Size -> Pointers] :
           /\ Chain(h) = {at[k] : k \in 0..Size} \ {None} /\ at[0] = mutex_hash[h]
           /\ \A k \in Nat : k < Size => at[k + 1] = NextOf(at[k])
    BY ChainSteps
  <2> DEFINE Good == {k \in Nat : k <= Size => at[k] \in live \union {None}}
  <2>2. 0 \in Good
    BY <2>1 DEF Linked, HeadsStart
  <2>3. ASSUME NEW k \in Nat, k \in Good PROVE k + 1 \in Good
    <3> SUFFICES ASSUME k + 1 <= Size PROVE at[k + 1] \in live \union {None}
      OBVIOUS
    <3>1. at[k] \in live \union {None} /\ at[k + 1] = NextOf(at[k])
      BY <2>1, <2>3, SizeNat
    <3> QED
      BY <3>1 DEF NextOf, Linked, NextLeadsOn
  <2>4. \A k \in Nat : k \in Good
    <3> HIDE DEF Good
    <3> QED
      BY <2>2, <2>3, Induction
  <2>5. \A k \in 0..Size : at[k] \in live \union {None}
    BY <2>4, SizeNat
  <2> QED
    BY <2>1, <2>5
<1> QED
  BY <1>3, <1>4 DEF ChainsWellFormed, Home, Linked, PreLeadsBack

(* A walk that starts in use ends at nothing or at an entry of the file;
   it cannot run out of steps on the way. *)
LEMMA WalkMatches ==
  ASSUME TypeOK, Linked(mutex_hash, entry, live),
         NEW p \in live \union {None}, NEW f, Walk(p, f) # None
  PROVE  Walk(p, f) \in live /\ entry[Walk(p, f)].file_name = f
<1>0. live \subseteq Entries /\ None \notin live /\ p \in Pointers
  BY DEF TypeOK, Pointers
<1>1. PICK d : Depths(entry, live, d)
  BY DEF Linked
<1>2. \A x \in live : d[x] \in Nat /\ d[x] < Size
  BY <1>1, DepthBound
<1>3. PICK at \in [0..Size -> Pointers] :
           /\ Walk(p, f) = at[Size] /\ at[0] = p
           /\ \A k \in Nat : k < Size => at[k + 1] = StepTo(at[k], f)
  BY <1>0, WalkSteps
<1> DEFINE OnTheWay(e, k) ==
       e # None => e \in live /\ (entry[e].file_name = f \/ d[e] >= k)
<1> DEFINE Good == {k \in Nat : k <= Size => OnTheWay(at[k], k)}
<1>4. 0 \in Good
  BY <1>2, <1>3
<1>5. ASSUME NEW k \in Nat, k \in Good PROVE k + 1 \in Good
  <2> SUFFICES ASSUME k + 1 <= Size PROVE OnTheWay(at[k + 1], k + 1)
    OBVIOUS
  <2>1. OnTheWay(at[k], k) /\ at[k + 1] = StepTo(at[k], f)
    BY <1>3, <1>5, SizeNat
  <2>2. CASE at[k] = None \/ entry[at[k]].file_name = f
    BY <2>1, <2>2 DEF StepTo
  <2>3. CASE at[k] # None /\ entry[at[k]].file_name # f
    <3>1. at[k] \in live /\ d[at[k]] >= k /\ at[k + 1] = entry[at[k]].next
      BY <2>1, <2>3 DEF StepTo
    <3>2. entry[at[k]].next # None =>
             entry[at[k]].next \in live /\ d[entry[at[k]].next] = d[at[k]] + 1
      BY <1>1, <3>1 DEF Linked, NextLeadsOn, Depths
    <3> QED
      BY <1>2, <3>1, <3>2
  <2> QED
    BY <2>2, <2>3
<1>6. \A k \in Nat : k \in Good
  <2> HIDE DEF Good
  <2> QED
    BY <1>4, <1>5, Induction
<1>7. OnTheWay(at[Size], Size)
  BY <1>6, SizeNat
<1> QED
  BY <1>2, <1>3, <1>7, SizeNat

(* A walk from the head of its chain finds a file that has an entry. *)
LEMMA WalkFinds ==
  ASSUME TypeOK, Linked(mutex_hash, entry, live),
         NEW f \in Names, NEW e \in live, entry[e].file_name = f
  PROVE  Walk(mutex_hash[Hash[f]], f) # None
<1> DEFINE h == Hash[f]
<1> DEFINE p == mutex_hash[h]
<1>0. live \subseteq Entries /\ None \notin live /\ h \in Hashes /\ p \in Pointers
  BY DEF TypeOK, Pointers
<1>1. PICK d : Depths(entry, live, d)
  BY DEF Linked
<1>2. \A x \in live : d[x] \in Nat /\ d[x] < Size
  BY <1>1, DepthBound
<1>3. PICK at \in [0..Size -> Pointers] :
           /\ Walk(p, f) = at[Size] /\ at[0] = p
           /\ \A k \in Nat : k < Size => at[k + 1] = StepTo(at[k], f)
  <2> HIDE DEF p
  <2> QED
    BY <1>0, WalkSteps
<1> DEFINE Match(x) == x \in live /\ entry[x].file_name = f
<1> DEFINE Good == {k \in Nat : \A x \in live :
          Home(entry, x) = h /\ d[x] = k => at[k] = x \/ Match(at[k])}
<1>4. ASSUME NEW x \in live
      PROVE  \/ entry[x].pre = None /\ d[x] = 0 /\ mutex_hash[Home(entry, x)] = x
             \/ /\ entry[x].pre \in live /\ entry[entry[x].pre].next = x
                /\ Home(entry, entry[x].pre) = Home(entry, x)
                /\ d[x] = d[entry[x].pre] + 1
  BY <1>0, <1>1, SMTT(60) DEF Depths, Linked, PreLeadsBack, NextLeadsOn
<1>5. 0 \in Good
  BY <1>2, <1>3, <1>4
<1>6. ASSUME NEW k \in Nat, k < Size, Match(at[k]) PROVE Match(at[k + 1])
  BY <1>0, <1>3, <1>6 DEF StepTo
<1>7. ASSUME NEW k \in Nat, k \in Good PROVE k + 1 \in Good
  <2> SUFFICES ASSUME NEW x \in live, Home(entry, x) = h, d[x] = k + 1
               PROVE  at[k + 1] = x \/ Match(at[k + 1])
    OBVIOUS
  <2>1. /\ entry[x].pre \in live /\ entry[entry[x].pre].next = x
        /\ Home(entry, entry[x].pre) = h /\ d[entry[x].pre] = k
    BY <1>2, <1>4
  <2>2. k < Size
    BY <1>2, <2>1
  <2>3. at[k] = entry[x].pre \/ Match(at[k])
    BY <1>7, <2>1
  <2>4. CASE at[k] = entry[x].pre /\ ~Match(at[k])
    BY <1>0, <1>3, <2>1, <2>2, <2>4 DEF StepTo
  <2> QED
    BY <1>6, <2>2, <2>3, <2>4
<1>8. \A k \in Nat : k \in Good
  <2> HIDE DEF Good
  <2> QED
    BY <1>5, <1>7, Induction
<1>9. Match(at[d[e]])
  BY <1>2, <1>8 DEF Home
<1> DEFINE Later == {j \in Nat : d[e] + j <= Size => Match(at[d[e] + j])}
<1>10. \A j \in Nat : j \in Later
  <2>1. 0 \in Later
    BY <1>2, <1>9
  <2>2. ASSUME NEW j \in Nat, j \in Later PROVE j + 1 \in Later
    <3> SUFFICES ASSUME d[e] + (j + 1) <= Size PROVE Match(at[d[e] + (j + 1)])
      OBVIOUS
    <3>1. /\ d[e] + j \in Nat /\ d[e] + j < Size /\ d[e] + j <= Size
          /\ d[e] + (j + 1) = (d[e] + j) + 1
      BY <1>2, SizeNat
    <3> HIDE DEF Match
    <3>2. Match(at[d[e] + j])
      BY <2>2, <3>1
    <3> QED
      BY <1>6, <3>1, <3>2
  <2> HIDE DEF Later
  <2> QED
    BY <2>1, <2>2, Induction
<1>11. Size - d[e] \in Nat /\ d[e] + (Size - d[e]) = Size
  BY <1>2, SizeNat
<1>12. Match(at[Size])
  <2>1. d[e] + (Size - d[e]) <= Size => Match(at[d[e] + (Size - d[e])])
    BY <1>10, <1>11
  <2> HIDE DEF Match
  <2> QED
    BY <1>11, <2>1, SizeNat
<1> QED
  BY <1>0, <1>3, <1>12
-----------------------------------------------------------------------------
(* What the assignments to an entry change, a field at a time. *)
SameLinks(en, new) ==
    \A e \in Entries :
        /\ new[e].file_name = en[e].file_name
        /\ new[e].pre = en[e].pre /\ new[e].next = en[e].next

CountSet(en, new, x, n) ==
    /\ new \in [Entries -> ZzMutex] /\ SameLinks(en, new)
    /\ \A e \in Entries : new[e].owner = en[e].owner
    /\ new[x].count = n
    /\ \A e \in Entries \ {x} : new[e].count = en[e].count

OwnerSet(en, new, x, o) ==
    /\ new \in [Entries -> ZzMutex] /\ SameLinks(en, new)
    /\ \A e \in Entries : new[e].count = en[e].count
    /\ new[x].owner = o
    /\ \A e \in Entries \ {x} : new[e].owner = en[e].owner

LEMMA SetCount ==
  ASSUME NEW en \in [Entries -> ZzMutex], NEW x \in Entries, NEW n \in Int,
         NEW new, new = [en EXCEPT ![x].count = n]
  PROVE  CountSet(en, new, x, n)
BY DEF ZzMutex, SameLinks, CountSet

LEMMA SetOwner ==
  ASSUME NEW en \in [Entries -> ZzMutex], NEW x \in Entries, NEW o \in Clients \union {None},
         NEW new, new = [en EXCEPT ![x].owner = o]
  PROVE  OwnerSet(en, new, x, o)
BY DEF ZzMutex, SameLinks, OwnerSet

LEMMA LinkFirstSets ==
  ASSUME TypeOK, NEW n \in Entries, NEW f \in Names, NEW h \in Pointers, h # n,
         LinkFirst(n, f, h)
  PROVE  /\ entry' \in [Entries -> ZzMutex]
         /\ entry'[n].count = 1 /\ entry'[n].owner = None /\ entry'[n].file_name = f
         /\ entry'[n].pre = None /\ entry'[n].next = h
         /\ \A e \in Entries \ {n} :
              /\ entry'[e].count = entry[e].count /\ entry'[e].owner = entry[e].owner
              /\ entry'[e].file_name = entry[e].file_name
              /\ entry'[e].next = entry[e].next
              /\ entry'[e].pre = IF e = h THEN n ELSE entry[e].pre
<1> USE DEF TypeOK, ZzMutex, Blank, Pointers, Names
<1>1. entry'[n] = [Blank EXCEPT !.count = 1, !.file_name = f, !.next = h]
  BY DEF LinkFirst
<1>2. \A e \in Entries \ {n} :
         entry'[e] = IF e = h THEN [entry[e] EXCEPT !.pre = n] ELSE entry[e]
  BY DEF LinkFirst
<1>3. ASSUME NEW e \in Entries PROVE entry'[e] \in ZzMutex
  <2>1. entry[e] \in ZzMutex
    OBVIOUS
  <2>2. CASE e = n
    <3>1. entry'[n] = [count |-> 1, owner |-> None, file_name |-> f, pre |-> None, next |-> h]
      BY <1>1
    <3> QED
      BY <2>2, <3>1
  <2>3. CASE e # n /\ e = h
    BY <1>2, <2>1, <2>3, ZenonT(60)
  <2>4. CASE e # n /\ e # h
    BY <1>2, <2>1, <2>4
  <2> QED
    BY <2>2, <2>3, <2>4
<1>4. entry' \in [Entries -> ZzMutex]
  BY <1>3 DEF LinkFirst
<1> QED
  BY <1>1, <1>2, <1>4

LEMMA UnlinkSets ==
  ASSUME TypeOK, NEW m \in Entries, Unlink(m), entry[m].pre # m, entry[m].next # m,
         entry[m].pre = None \/ entry[m].pre # entry[m].next
  PROVE  /\ entry' \in [Entries -> ZzMutex]
         /\ \A e \in Entries \ {m} :
              /\ entry'[e].count = entry[e].count /\ entry'[e].owner = entry[e].owner
              /\ entry'[e].file_name = entry[e].file_name
              /\ entry'[e].next = IF e = entry[m].pre THEN entry[m].next ELSE entry[e].next
              /\ entry'[e].pre = IF e = entry[m].next THEN entry[m].pre ELSE entry[e].pre
<1> USE DEF TypeOK, ZzMutex, Blank, Pointers, Names
<1>1. entry'[m] = Blank
  BY DEF Unlink
<1>2. \A e \in Entries \ {m} :
         entry'[e] = IF e = entry[m].pre THEN [entry[e] EXCEPT !.next = entry[m].next]
                     ELSE IF e = entry[m].next THEN [entry[e] EXCEPT !.pre = entry[m].pre]
                     ELSE entry[e]
  BY DEF Unlink
<1>3. ASSUME NEW e \in Entries PROVE entry'[e] \in ZzMutex
  <2>1. entry[e] \in ZzMutex /\ entry[m] \in ZzMutex
    OBVIOUS
  <2>2. CASE e = m
    BY <1>1, <2>2
  <2>3. CASE e # m /\ e = entry[m].pre
    <3>1. entry'[e] = [entry[e] EXCEPT !.next = entry[m].next]
      BY <1>2, <2>3
    <3>2. entry[m].next \in Pointers
      BY <2>1
    <3> HIDE DEF Pointers
    <3> QED
      BY <2>1, <3>1, <3>2
  <2>4. CASE e # m /\ e # entry[m].pre /\ e = entry[m].next
    <3>1. entry'[e] = [entry[e] EXCEPT !.pre = entry[m].pre]
      BY <1>2, <2>4
    <3>2. entry[m].pre \in Pointers
      BY <2>1
    <3> HIDE DEF Pointers
    <3> QED
      BY <2>1, <3>1, <3>2
  <2>5. CASE e # m /\ e # entry[m].pre /\ e # entry[m].next
    BY <1>2, <2>1, <2>5
  <2> QED
    BY <2>2, <2>3, <2>4, <2>5
<1>4. entry' \in [Entries -> ZzMutex]
  BY <1>3 DEF Unlink
<1>5. ASSUME NEW e \in Entries \ {m}
      PROVE  /\ entry'[e].count = entry[e].count /\ entry'[e].owner = entry[e].owner
             /\ entry'[e].file_name = entry[e].file_name
             /\ entry'[e].next = IF e = entry[m].pre THEN entry[m].next ELSE entry[e].next
             /\ entry'[e].pre = IF e = entry[m].next THEN entry[m].pre ELSE entry[e].pre
  <2>1. entry[e] \in ZzMutex /\ entry[m] \in ZzMutex
    OBVIOUS
  <2>2. CASE e = entry[m].pre
    BY <1>2, <2>1, <2>2, ZenonT(60)
  <2>3. CASE e # entry[m].pre /\ e = entry[m].next
    BY <1>2, <2>1, <2>3, ZenonT(60)
  <2>4. CASE e # entry[m].pre /\ e # entry[m].next
    BY <1>2, <2>1, <2>4
  <2> QED
    BY <2>2, <2>3, <2>4
<1> QED
  BY <1>4, <1>5
-----------------------------------------------------------------------------
(* The chains.  What changes no link leaves them whole. *)
LEMMA LinksStay ==
  ASSUME NEW mh, NEW en, NEW lv \in SUBSET Entries, NEW new,
         Linked(mh, en, lv), SameLinks(en, new)
  PROVE  Linked(mh, new, lv)
<1>1. \A e \in lv : Home(new, e) = Home(en, e)
  BY DEF Home, SameLinks
<1>2. HeadsStart(mh, new, lv)
  BY <1>1 DEF Linked, HeadsStart, SameLinks
<1>3. PreLeadsBack(mh, new, lv)
  BY <1>1 DEF Linked, PreLeadsBack, SameLinks
<1>4. NextLeadsOn(new, lv)
  BY <1>1 DEF Linked, NextLeadsOn, SameLinks
<1>5. \E d : Depths(new, lv, d)
  BY DEF Linked, Depths, SameLinks
<1> QED
  BY <1>2, <1>3, <1>4, <1>5 DEF Linked

(* A new entry goes before the head of its chain. *)
LEMMA LinkedAtHead ==
  ASSUME TypeOK, Linked(mutex_hash, entry, live), NEW n \in Entries \ live,
         NEW f \in Names, LinkFirst(n, f, mutex_hash[Hash[f]]),
         mutex_hash' = [mutex_hash EXCEPT ![Hash[f]] = n], live' = live \union {n}
  PROVE  Linked(mutex_hash', entry', live')
<1> DEFINE h == Hash[f]
<1> DEFINE old == mutex_hash[h]
<1>1. /\ live \subseteq Entries /\ None \notin live /\ n \notin live /\ n # None
      /\ h \in Hashes /\ old \in Pointers /\ old # n /\ (old # None => old \in live)
      /\ mutex_hash'[h] = n /\ \A g \in Hashes \ {h} : mutex_hash'[g] = mutex_hash[g]
  BY DEF TypeOK, Pointers, Linked, HeadsStart
<1>2. /\ entry'[n].file_name = f /\ entry'[n].pre = None /\ entry'[n].next = old
      /\ \A e \in Entries \ {n} :
           /\ entry'[e].file_name = entry[e].file_name
           /\ entry'[e].next = entry[e].next
           /\ entry'[e].pre = IF e = old THEN n ELSE entry[e].pre
  <2> HIDE DEF old
  <2>1. LinkFirst(n, f, old)
    BY DEF old
  <2> QED
    BY <1>1, <2>1, LinkFirstSets
<1>3. \A e \in live : /\ e \in Entries \ {n} /\ Home(entry', e) = Home(entry, e)
                      /\ entry[e].pre # n /\ entry[e].next # n
  BY <1>1, <1>2 DEF Home, Linked, PreLeadsBack, NextLeadsOn
<1>4. Home(entry', n) = h /\ (old # None => Home(entry, old) = h /\ entry[old].pre = None)
  BY <1>1, <1>2 DEF Home, Linked, HeadsStart
<1> HIDE DEF old, h
<1>5. HeadsStart(mutex_hash', entry', live')
  <2> SUFFICES ASSUME NEW g \in Hashes, mutex_hash'[g] # None
               PROVE  /\ mutex_hash'[g] \in live' /\ Home(entry', mutex_hash'[g]) = g
                      /\ entry'[mutex_hash'[g]].pre = None
    BY DEF HeadsStart
  <2>1. CASE g = h
    BY <1>1, <1>2, <1>4, <2>1 DEF Home
  <2>2. CASE g # h
    <3>1. mutex_hash'[g] = mutex_hash[g] /\ mutex_hash[g] \in live
          /\ Home(entry, mutex_hash[g]) = g /\ entry[mutex_hash[g]].pre = None
      BY <1>1, <2>2 DEF Linked, HeadsStart
    <3>2. mutex_hash[g] # old
      BY <1>4, <2>2, <3>1 
    <3> QED
      BY <1>2, <1>3, <3>1, <3>2 DEF Home
  <2> QED
    BY <2>1, <2>2
<1>6. PreLeadsBack(mutex_hash', entry', live')
  <2> SUFFICES ASSUME NEW e \in live'
               PROVE  IF entry'[e].pre = None THEN mutex_hash'[Home(entry', e)] = e
                      ELSE entry'[e].pre \in live' /\ entry'[entry'[e].pre].next = e
    BY DEF PreLeadsBack
  <2>1. CASE e = n
    BY <1>1, <1>2, <1>4, <2>1
  <2>2. CASE e = old
    BY <1>1, <1>2, <1>3, <2>2
  <2>3. CASE e # n /\ e # old
    <3>1. e \in live /\ entry'[e].pre = entry[e].pre /\ Home(entry', e) = Home(entry, e)
          /\ Home(entry, e) \in Hashes
      BY <1>2, <1>3, <2>3, EntryTypes
    <3>2. CASE entry[e].pre = None
      <4>1. mutex_hash[Home(entry, e)] = e
        BY <3>1, <3>2 DEF Linked, PreLeadsBack
      <4>2. Home(entry, e) # h
        BY <2>3, <4>1 DEF old
      <4> QED
        BY <1>1, <3>1, <3>2, <4>1, <4>2
    <3>3. CASE entry[e].pre # None
      BY <1>2, <1>3, <3>1, <3>3 DEF Linked, PreLeadsBack
    <3> QED
      BY <3>2, <3>3
  <2> QED
    BY <2>1, <2>2, <2>3
<1>7. NextLeadsOn(entry', live')
  <2> SUFFICES ASSUME NEW e \in live', entry'[e].next # None
               PROVE  /\ entry'[e].next \in live' /\ entry'[entry'[e].next].pre = e
                      /\ Home(entry', entry'[e].next) = Home(entry', e)
    BY DEF NextLeadsOn
  <2>1. CASE e = n
    BY <1>1, <1>2, <1>3, <1>4, <2>1
  <2>2. CASE e # n
    <3>1. e \in live /\ entry'[e].next = entry[e].next /\ entry[e].next \in live
          /\ entry[entry[e].next].pre = e /\ Home(entry, entry[e].next) = Home(entry, e)
      BY <1>2, <1>3, <2>2 DEF Linked, NextLeadsOn
    <3>2. entry[e].next # old
      BY <1>1, <1>4, <3>1
    <3> QED
      BY <1>2, <1>3, <3>1, <3>2
  <2> QED
    BY <2>1, <2>2
<1>8. \E d : Depths(entry', live', d)
  <2>1. PICK d : Depths(entry, live, d)
    BY DEF Linked
  <2> DEFINE d2 == [e \in Entries |-> IF e = n THEN 0
                        ELSE IF Home(entry, e) = h THEN d[e] + 1 ELSE d[e]]
  <2>2. /\ d2 \in [Entries -> Nat] /\ d2[n] = 0
        /\ \A e \in live : d2[e] = IF Home(entry, e) = h THEN d[e] + 1 ELSE d[e]
    BY <1>1, <1>3, <2>1 DEF Depths
  <2> HIDE DEF d2
  <2>3. ASSUME NEW e \in live', entry'[e].pre = None PROVE d2[e] = 0
    <3>1. CASE e = n
      BY <2>2, <3>1
    <3>2. CASE e # n
      <4>1. e \in live /\ e # old /\ entry[e].pre = None
        BY <1>1, <1>2, <1>3, <2>3, <3>2
      <4>2. mutex_hash[Home(entry, e)] = e /\ d[e] = 0
        BY <2>1, <4>1 DEF Linked, PreLeadsBack, Depths
      <4>3. Home(entry, e) # h
        BY <4>1, <4>2 DEF old
      <4> QED
        BY <2>2, <4>1, <4>2, <4>3
    <3> QED
      BY <3>1, <3>2
  <2>4. ASSUME NEW e \in live', entry'[e].next # None
        PROVE  d2[entry'[e].next] = d2[e] + 1
    <3>1. CASE e = n
      <4>1. old \in live /\ Home(entry, old) = h /\ entry[old].pre = None
        BY <1>1, <1>2, <1>4, <2>4, <3>1
      <4>2. d[old] = 0
        BY <2>1, <4>1 DEF Depths
      <4> QED
        BY <1>2, <2>2, <3>1, <4>1, <4>2
    <3>2. CASE e # n
      <4>1. e \in live /\ entry'[e].next = entry[e].next /\ entry[e].next \in live
            /\ Home(entry, entry[e].next) = Home(entry, e)
        BY <1>2, <1>3, <2>4, <3>2 DEF Linked, NextLeadsOn
      <4>2. d[entry[e].next] = d[e] + 1 /\ d[e] \in Nat
        BY <1>1, <2>1, <2>4, <4>1 DEF Depths
      <4> QED
        BY <2>2, <4>1, <4>2
    <3> QED
      BY <3>1, <3>2
  <2>5. Depths(entry', live', d2)
    BY <2>2, <2>3, <2>4 DEF Depths
  <2> QED
    BY <2>5
<1> QED
  BY <1>5, <1>6, <1>7, <1>8 DEF Linked

(* The neighbours of an entry in use are two other entries. *)
LEMMA Neighbours ==
  ASSUME TypeOK, Linked(mutex_hash, entry, live), NEW m \in live
  PROVE  /\ entry[m].pre # m /\ entry[m].next # m
         /\ entry[m].pre = None \/ entry[m].pre # entry[m].next
         /\ entry[m].pre # None =>
              entry[m].pre \in live /\ entry[entry[m].pre].next = m
              /\ Home(entry, entry[m].pre) = Home(entry, m)
         /\ entry[m].pre = None => mutex_hash[Home(entry, m)] = m
         /\ entry[m].next # None =>
              entry[m].next \in live /\ entry[entry[m].next].pre = m
              /\ Home(entry, entry[m].next) = Home(entry, m)
<1>1. PICK d : Depths(entry, live, d)
  BY DEF Linked
<1>2. None \notin live /\ \A x \in live : d[x] \in Nat
  BY <1>1 DEF TypeOK, Depths
<1>3. entry[m].next # None =>
        /\ entry[m].next \in live /\ entry[entry[m].next].pre = m
        /\ Home(entry, entry[m].next) = Home(entry, m) /\ d[entry[m].next] = d[m] + 1
  BY <1>1 DEF Linked, NextLeadsOn, Depths
<1>4. entry[m].pre = None => mutex_hash[Home(entry, m)] = m
  BY DEF Linked, PreLeadsBack
<1>5. entry[m].pre # None =>
        /\ entry[m].pre \in live /\ entry[entry[m].pre].next = m
        /\ Home(entry, entry[m].pre) = Home(entry, m) /\ d[m] = d[entry[m].pre] + 1
  BY <1>1, <1>2 DEF Linked, PreLeadsBack, NextLeadsOn, Depths
<1>6. entry[m].pre # m /\ entry[m].next # m
  BY <1>2, <1>3, <1>5
<1>7. entry[m].pre = None \/ entry[m].pre # entry[m].next
  BY <1>2, <1>3, <1>5
<1> QED
  BY <1>3, <1>4, <1>5, <1>6, <1>7

(* Taking an entry out joins its neighbours. *)
LEMMA LinkedWithout ==
  ASSUME TypeOK, Linked(mutex_hash, entry, live), NEW m \in live, Unlink(m)
  PROVE  Linked(mutex_hash', entry', live')
<1> DEFINE p == entry[m].pre
<1> DEFINE n == entry[m].next
<1> DEFINE h == Home(entry, m)
<1>1. /\ p # m /\ n # m /\ (p = None \/ p # n) /\ m \in Entries
      /\ p # None => p \in live /\ entry[p].next = m /\ Home(entry, p) = h
      /\ p = None => mutex_hash[h] = m
      /\ n # None => n \in live /\ entry[n].pre = m /\ Home(entry, n) = h
      /\ live \subseteq Entries /\ None \notin live /\ h \in Hashes /\ live' = live \ {m}
  BY Neighbours, EntryTypes DEF TypeOK, Unlink
<1>2. \A e \in live \ {m} :
        /\ entry'[e].file_name = entry[e].file_name
        /\ entry'[e].next = IF e = p THEN n ELSE entry[e].next
        /\ entry'[e].pre = IF e = n THEN p ELSE entry[e].pre
  BY <1>1, UnlinkSets
<1>3. /\ p # None => mutex_hash' = mutex_hash
      /\ p = None => /\ mutex_hash'[h] = n
                     /\ \A g \in Hashes \ {h} : mutex_hash'[g] = mutex_hash[g]
  BY <1>1 DEF Unlink, TypeOK, Home
<1>4. \A e \in live \ {m} : Home(entry', e) = Home(entry, e) /\ Home(entry, e) \in Hashes
  BY <1>2, EntryTypes DEF Home
<1> HIDE DEF p, n, h
<1>5. HeadsStart(mutex_hash', entry', live')
  <2> SUFFICES ASSUME NEW g \in Hashes, mutex_hash'[g] # None
               PROVE  /\ mutex_hash'[g] \in live' /\ Home(entry', mutex_hash'[g]) = g
                      /\ entry'[mutex_hash'[g]].pre = None
    BY DEF HeadsStart
  <2>1. CASE p = None /\ g = h
    BY <1>1, <1>2, <1>3, <1>4, <2>1
  <2>2. CASE p # None \/ g # h
    <3>1. mutex_hash'[g] = mutex_hash[g] /\ mutex_hash[g] \in live
          /\ Home(entry, mutex_hash[g]) = g /\ entry[mutex_hash[g]].pre = None
      BY <1>3, <2>2 DEF Linked, HeadsStart
    <3>2. mutex_hash[g] # m
      BY <2>2, <3>1 DEF p, h
    <3>3. mutex_hash[g] # n
      BY <1>1, <3>1
    <3> QED
      BY <1>1, <1>2, <1>4, <3>1, <3>2, <3>3
  <2> QED
    BY <2>1, <2>2
<1>6. PreLeadsBack(mutex_hash', entry', live')
  <2> SUFFICES ASSUME NEW e \in live'
               PROVE  IF entry'[e].pre = None THEN mutex_hash'[Home(entry', e)] = e
                      ELSE entry'[e].pre \in live' /\ entry'[entry'[e].pre].next = e
    BY DEF PreLeadsBack
  <2>1. CASE e = n
    BY <1>1, <1>2, <1>3, <1>4, <2>1
  <2>2. CASE e # n /\ entry[e].pre = None
    <3>1. mutex_hash[Home(entry, e)] = e /\ e \in live \ {m} /\ Home(entry, e) \in Hashes
      BY <1>1, <1>4, <2>2 DEF Linked, PreLeadsBack
    <3>2. p = None => Home(entry, e) # h
      BY <1>1, <3>1
    <3> QED
      BY <1>2, <1>3, <1>4, <2>2, <3>1, <3>2
  <2>3. CASE e # n /\ entry[e].pre # None
    <3>1. e \in live \ {m} /\ entry[e].pre \in live /\ entry[entry[e].pre].next = e
      BY <1>1, <2>3 DEF Linked, PreLeadsBack
    <3>2. entry[e].pre # m
      BY <2>3, <3>1 DEF n
    <3>3. entry[e].pre # p
      BY <1>1, <3>1
    <3> QED
      BY <1>1, <1>2, <2>3, <3>1, <3>2, <3>3
  <2> QED
    BY <2>1, <2>2, <2>3
<1>7. NextLeadsOn(entry', live')
  <2> SUFFICES ASSUME NEW e \in live', entry'[e].next # None
               PROVE  /\ entry'[e].next \in live' /\ entry'[entry'[e].next].pre = e
                      /\ Home(entry', entry'[e].next) = Home(entry', e)
    BY DEF NextLeadsOn
  <2>1. CASE e = p
    BY <1>1, <1>2, <1>4, <2>1
  <2>2. CASE e # p
    <3>1. e \in live \ {m} /\ entry'[e].next = entry[e].next /\ entry[e].next \in live
          /\ entry[entry[e].next].pre = e /\ Home(entry, entry[e].next) = Home(entry, e)
      BY <1>1, <1>2, <2>2 DEF Linked, NextLeadsOn
    <3>2. entry[e].next # m
      BY <2>2, <3>1 DEF p
    <3>3. entry[e].next # n
      BY <1>1, <3>1
    <3> QED
      BY <1>1, <1>2, <1>4, <3>1, <3>2, <3>3
  <2> QED
    BY <2>1, <2>2
<1>8. \E d : Depths(entry', live', d)
  <2>1. PICK d : Depths(entry, live, d)
    BY DEF Linked
  <2> DEFINE Past(e) == Home(entry, e) = h /\ d[e] > d[m]
  <2> DEFINE d2 == [e \in Entries |-> IF e \in live /\ Past(e) THEN d[e] - 1 ELSE d[e]]
  <2>2. d[m] \in Nat /\ \A e \in live : d[e] \in Nat
    BY <1>1, <2>1 DEF Depths
  <2>3. \A e \in live : d2[e] = IF Past(e) THEN d[e] - 1 ELSE d[e]
    BY <1>1
  <2>4. d2 \in [Entries -> Nat]
    <3>1. d \in [Entries -> Nat]
      BY <2>1 DEF Depths
    <3> QED
      BY <2>2, <3>1
  <2> HIDE DEF d2
  <2>5. ASSUME NEW e \in live, Home(entry, e) = h, e # m PROVE d[e] # d[m]
    BY <2>1, <2>5, DepthsDiffer DEF h
  <2>6. ASSUME NEW e \in live, entry[e].next # None
        PROVE  /\ entry[e].next \in live /\ d[entry[e].next] = d[e] + 1
               /\ Home(entry, entry[e].next) = Home(entry, e)
    BY <2>1, <2>6 DEF Linked, NextLeadsOn, Depths
  <2>7. ASSUME NEW e \in live', entry'[e].pre = None PROVE d2[e] = 0
    <3>0. e \in live \ {m}
      BY <1>1
    <3>1. CASE e = n
      <4>1. mutex_hash[h] = m /\ d[m] = 0 /\ d[n] = 1 /\ Home(entry, n) = h
        <5>1. n # None /\ p = None /\ entry[m].pre = None
          BY <1>1, <1>2, <2>7, <3>0, <3>1 DEF p
        <5>2. d[m] = 0 /\ d[n] = d[m] + 1
          BY <2>1, <2>6, <5>1 DEF Depths, n
        <5> QED
          BY <1>1, <5>1, <5>2
      <4> QED
        BY <2>3, <3>0, <3>1, <4>1
    <3>2. CASE e # n
      <4>1. entry[e].pre = None
        BY <1>2, <2>7, <3>0, <3>2
      <4>2. d[e] = 0
        BY <2>1, <3>0, <4>1 DEF Depths
      <4>3. ~Past(e)
        BY <2>2, <4>2
      <4> QED
        BY <2>3, <3>0, <4>2, <4>3
    <3> QED
      BY <3>1, <3>2
  <2>8. ASSUME NEW e \in live', entry'[e].next # None
        PROVE  d2[entry'[e].next] = d2[e] + 1
    <3>0. e \in live \ {m}
      BY <1>1
    <3>1. CASE e = p
      <4>1. /\ entry'[e].next = n /\ n \in live /\ p \in live
            /\ Home(entry, p) = h /\ Home(entry, n) = h
        BY <1>1, <1>2, <2>8, <3>0, <3>1
      <4>2. d[m] = d[p] + 1 
        <5>1. entry[p].next = m /\ entry[p].next # None
          BY <1>1, <3>0, <3>1
        <5> QED
          BY <2>6, <4>1, <5>1
      <4>3. d[n] = d[m] + 1
        <5>1. entry[m].next = n /\ n # None
          BY <1>1, <4>1 DEF n
        <5> QED
          BY <2>6, <5>1
      <4>4. ~Past(p) /\ Past(n)
        BY <2>2, <4>1, <4>2, <4>3
      <4>5. d2[p] = d[p] /\ d2[n] = d[n] - 1
        BY <2>3, <4>1, <4>4
      <4> QED
        BY <2>2, <3>1, <4>1, <4>2, <4>3, <4>5
    <3>2. CASE e # p
      <4> DEFINE x == entry[e].next
      <4>1. entry'[e].next = x /\ x # None
        BY <1>2, <2>8, <3>0, <3>2
      <4>2. x \in live /\ d[x] = d[e] + 1 /\ Home(entry, x) = Home(entry, e)
        BY <2>6, <3>0, <4>1
      <4>3. Home(entry, e) = h => d[e] # d[m]
        BY <2>5, <3>0
      <4> HIDE DEF x
      <4>4. Past(x) <=> Past(e)
        BY <2>2, <3>0, <4>2, <4>3
      <4>5. d2[x] = (IF Past(x) THEN d[x] - 1 ELSE d[x])
            /\ d2[e] = (IF Past(e) THEN d[e] - 1 ELSE d[e])
        BY <2>3, <3>0, <4>2
      <4> HIDE DEF Past
      <4> QED
        BY <2>2, <3>0, <4>1, <4>2, <4>4, <4>5
    <3> QED
      BY <3>1, <3>2
  <2>9. Depths(entry', live', d2)
    BY <2>4, <2>7, <2>8 DEF Depths
  <2> QED
    BY <2>9
<1> QED
  BY <1>5, <1>6, <1>7, <1>8 DEF Linked
-----------------------------------------------------------------------------
(* Every step keeps the variables in their types and the chains whole,
   whatever threads and clients do. *)
Chained == TypeOK /\ Linked(mutex_hash, entry, live)

LEMMA FoundType == ASSUME TypeOK, NEW c \in Clients PROVE Found(c) \in Pointers
<1>1. my_mutex[c] \in Pointers
  BY DEF TypeOK
<1> QED
  BY <1>1, WalkSteps, SizeNat DEF Found

LEMMA ClientTypes ==
  ASSUME TypeOK, UNCHANGED hashVars, Accept \/ \E c \in Clients : ClientStep(c)
  PROVE  TypeOK'
<1> USE DEF TypeOK, ClientTypeOK, hashVars, NoRequest, Names, Ops, ThreadSteps
<1>1. CASE Accept
  BY <1>1 DEF Accept
<1>2. ASSUME NEW c \in Clients, ClientStep(c)
      PROVE  TypeOK'
  <2>1. CASE BeginSession(c)
    BY <1>2, <2>1 DEF BeginSession, Connect
  <2>2. CASE EndSession(c)
    BY <1>2, <2>2 DEF EndSession, Connect
  <2>3. CASE Write(c)
    BY <1>2, <2>3 DEF Write
  <2>4. CASE Crash(c)
    BY <1>2, <2>4 DEF Crash
  <2>5. CASE ReadRequest(c)
    BY <1>2, <2>5 DEF ReadRequest
  <2>6. CASE ReadEof(c)
    BY <1>2, <2>6 DEF ReadEof
  <2>7. CASE Reply(c)
    BY <1>2, <2>7 DEF Reply, AfterReply
  <2> QED
    BY <1>2, <2>1, <2>2, <2>3, <2>4, <2>5, <2>6, <2>7 DEF ClientStep
<1> QED
  BY <1>1, <1>2

(* What TypeOK asks of the variables of the request threads. *)
ThreadTypes ==
    /\ pc \in [Clients -> {"idle", "connected", "sent"} \union ThreadSteps]
    /\ ok \in [Clients -> BOOLEAN]
    /\ my_mutex \in [Clients -> Pointers]

LEMMA ThreadKeepsTypes ==
  ASSUME Chained, NEW c \in Clients, Thread(c)
  PROVE  Chained'
<1> USE DEF Chained
<1>1. UNCHANGED <<up, backlog, reading, req, sess, alive>>
  BY DEF Thread, ReadHead, Scan, UseMutex, Unlock, Put, UndefinedBehaviour, clientVars
<1>2. broken' \in BOOLEAN /\ staleUse' \in BOOLEAN
  BY DEF Thread, ReadHead, Scan, UseMutex, Unlock, Put, UndefinedBehaviour, TypeOK
<1>3. CASE UNCHANGED <<mutex_hash, entry, live>> /\ ThreadTypes'
  BY <1>1, <1>2, <1>3 DEF TypeOK, ClientTypeOK, ThreadTypes
<1>4. ASSUME NEW x \in Entries, NEW o \in Clients \union {None},
             entry' = [entry EXCEPT ![x].owner = o], UNCHANGED <<mutex_hash, live>>,
             ThreadTypes'
      PROVE  Chained'
  <2>1. entry' \in [Entries -> ZzMutex] /\ SameLinks(entry, entry')
    BY <1>4, SetOwner DEF TypeOK, OwnerSet
  <2>2. Linked(mutex_hash, entry', live)
    BY <2>1, LinksStay DEF TypeOK
  <2> QED
    BY <1>1, <1>2, <1>4, <2>1, <2>2 DEF TypeOK, ClientTypeOK, ThreadTypes
<1>5. ASSUME NEW x \in Entries, NEW n \in Int,
             entry' = [entry EXCEPT ![x].count = n], UNCHANGED <<mutex_hash, live>>,
             ThreadTypes'
      PROVE  Chained'
  <2>1. entry' \in [Entries -> ZzMutex] /\ SameLinks(entry, entry')
    BY <1>5, SetCount DEF TypeOK, CountSet
  <2>2. Linked(mutex_hash, entry', live)
    BY <2>1, LinksStay DEF TypeOK
  <2> QED
    BY <1>1, <1>2, <1>5, <2>1, <2>2 DEF TypeOK, ClientTypeOK, ThreadTypes
<1>6. OpStep(req[c].op) \in {"lock", "trylock", "unlock"}
  BY DEF OpStep, TypeOK, ClientTypeOK, Ops
<1>7. ThreadTypes
  BY DEF TypeOK, ClientTypeOK, ThreadTypes
<1>8. CASE UndefinedBehaviour
  BY <1>3, <1>7, <1>8 DEF UndefinedBehaviour, clientVars, ThreadTypes
<1>9. CASE ReadHead(c)
  BY <1>3, <1>7, <1>9, EntryTypes DEF ReadHead, Goto, ThreadTypes, ThreadSteps
<1>10. CASE Scan(c) /\ ScanMatch(c)
  <2>1. Found(c) \in Entries
    BY <1>10, FoundType DEF ScanMatch, Pointers
  <2>2. ThreadTypes'
    BY <1>6, <1>7, <1>10, <2>1 DEF ScanMatch, Goto, ThreadTypes, ThreadSteps, Pointers
  <2>3. CASE req[c].op = "UNLOCK"
    BY <1>3, <1>10, <2>2, <2>3 DEF ScanMatch
  <2>4. CASE req[c].op # "UNLOCK"
    <3>1. entry' = [entry EXCEPT ![Found(c)].count = entry[Found(c)].count + 1]
      BY <1>10, <2>4 DEF ScanMatch
    <3>2. entry[Found(c)].count + 1 \in Int
      BY <2>1, EntryTypes
    <3> QED
      BY <1>5, <1>10, <2>1, <2>2, <3>1, <3>2 DEF ScanMatch
  <2> QED
    BY <2>3, <2>4
<1>11. CASE Scan(c) /\ ScanAlloc(c)
  <2> DEFINE f == req[c].file
  <2>1. PICK n \in Entries \ live :
          /\ LinkFirst(n, f, mutex_hash[Hash[f]])
          /\ mutex_hash' = [mutex_hash EXCEPT ![Hash[f]] = n]
          /\ live' = live \union {n} /\ my_mutex' = [my_mutex EXCEPT ![c] = n]
    BY <1>11 DEF ScanAlloc
  <2>2. ThreadTypes'
    BY <1>6, <1>7, <1>11, <2>1 DEF ScanAlloc, Goto, ThreadTypes, ThreadSteps, Pointers
  <2>3. Linked(mutex_hash', entry', live')
    BY <2>1, EntryTypes, LinkedAtHead
  <2>4. mutex_hash[Hash[f]] \in Pointers /\ mutex_hash[Hash[f]] # n
    BY EntryTypes DEF Linked, HeadsStart
  <2>5. entry' \in [Entries -> ZzMutex]
    BY <2>1, <2>4, EntryTypes, LinkFirstSets
  <2> QED
    BY <1>1, <1>2, <2>1, <2>2, <2>3, <2>5 DEF TypeOK, ClientTypeOK, ThreadTypes, Pointers
<1>12. CASE Scan(c) /\ ScanFail(c)
  BY <1>3, <1>7, <1>12 DEF ScanFail, Done, Goto, ThreadTypes, ThreadSteps, Pointers
<1>13. CASE UseMutex(c) /\ TakeMutex(c) /\ my_mutex[c] \in live
  BY <1>4, <1>7, <1>13 DEF UseMutex, TakeMutex, Done, Goto, ThreadTypes, ThreadSteps,
                           Pointers, TypeOK, UndefinedBehaviour
<1>14. CASE UseMutex(c) /\ FailTry(c) /\ my_mutex[c] \in live
  BY <1>3, <1>7, <1>14 DEF UseMutex, FailTry, Goto, ThreadTypes, ThreadSteps
<1>15. CASE Unlock(c) /\ my_mutex[c] \in live
  BY <1>4, <1>7, <1>15 DEF Unlock, Goto, ThreadTypes, ThreadSteps, TypeOK
<1>16. CASE Put(c) /\ my_mutex[c] \in live
  <2> DEFINE m == my_mutex[c]
  <2>1. m \in Entries /\ PutBack(m) /\ ThreadTypes'
    BY <1>7, <1>16 DEF Put, Done, Goto, ThreadTypes, ThreadSteps, Pointers, TypeOK
  <2>2. CASE LastUse(m)
    <3>1. Unlink(m)
      BY <2>1, <2>2 DEF PutBack
    <3>2. Linked(mutex_hash', entry', live')
      BY <1>16, <3>1, LinkedWithout
    <3>3. entry' \in [Entries -> ZzMutex]
      BY <1>16, <2>1, <3>1, Neighbours, UnlinkSets
    <3>4. mutex_hash' \in [Hashes -> Pointers] /\ live' \subseteq Entries
      BY <2>1, <3>1, EntryTypes DEF Unlink, TypeOK
    <3> QED
      BY <1>1, <1>2, <2>1, <3>2, <3>3, <3>4 DEF TypeOK, ClientTypeOK, ThreadTypes
  <2>3. CASE ~LastUse(m)
    <3>1. entry' = [entry EXCEPT ![m].count = entry[m].count - 1]
          /\ UNCHANGED <<mutex_hash, live>>
      BY <2>1, <2>3 DEF PutBack
    <3>2. entry[m].count - 1 \in Int
      BY <2>1, EntryTypes
    <3> QED
      BY <1>5, <2>1, <3>1, <3>2
  <2> QED
    BY <2>2, <2>3
<1> QED
  BY <1>8, <1>9, <1>10, <1>11, <1>12, <1>13, <1>14, <1>15, <1>16
  DEF Thread, Scan, UseMutex, Unlock, Put

LEMMA ChainedStep == Chained /\ [Next]_vars => Chained'
<1> SUFFICES ASSUME Chained, [Next]_vars PROVE Chained'
  OBVIOUS
<1>1. CASE UNCHANGED hashVars /\ (Accept \/ \E c \in Clients : ClientStep(c))
  BY <1>1, ClientTypes DEF Chained, hashVars
<1>2. ASSUME NEW c \in Clients, Thread(c) PROVE Chained'
  BY <1>2, ThreadKeepsTypes
<1>3. CASE UNCHANGED vars
  BY <1>3 DEF Chained, TypeOK, ClientTypeOK, vars, clientVars, hashVars
<1> QED
  BY <1>1, <1>2, <1>3 DEF Next

LEMMA ChainedInit == Init => Chained
<1> SUFFICES ASSUME Init PROVE Chained
  OBVIOUS
<1> USE DEF Init, ClientInit
<1>1. TypeOK
  <2>1. ClientTypeOK
    BY DEF ClientTypeOK, NoRequest, Names, Ops, ThreadSteps
  <2>2. Blank \in ZzMutex
    BY DEF Blank, ZzMutex, Pointers, Names
  <2> QED
    BY <2>1, <2>2 DEF TypeOK, Pointers
<1>2. HeadsStart(mutex_hash, entry, live) /\ PreLeadsBack(mutex_hash, entry, live)
      /\ NextLeadsOn(entry, live)
  BY DEF HeadsStart, PreLeadsBack, NextLeadsOn
<1>3. Depths(entry, live, [e \in Entries |-> 0])
  BY DEF Depths
<1> QED
  BY <1>1, <1>2, <1>3 DEF Chained, Linked

(* TypeOK holds of every behaviour. *)
THEOREM HashTypeCorrect == Spec => []TypeOK
<1>1. Chained => TypeOK
  BY DEF Chained
<1> QED
  BY <1>1, ChainedInit, ChainedStep, PTL DEF Spec

(* The chains survive every interleaving: for every number of threads,
   entries, files and chains, and however late a head is used, each live entry
   is on the chain of its name, no chain reaches a freed entry, and the pre
   links run back over the next links. *)
THEOREM ChainsSurvive == Spec => []ChainsWellFormed
<1>1. Chained => ChainsWellFormed
  BY LinkedChains DEF Chained
<1> QED
  BY <1>1, ChainedInit, ChainedStep, PTL DEF Spec
-----------------------------------------------------------------------------
(* Sets of clients are finite, so the users of an entry can be counted. *)
CountFits(e) ==
    entry[e].count = Cardinality(Users(e)) + (IF entry[e].owner = None THEN 0 ELSE 1)

LEMMA UsersCount ==
  ASSUME NEW e
  PROVE  IsFiniteSet(Users(e)) /\ Cardinality(Users(e)) \in Nat
<1>1. Users(e) \in SUBSET Clients
  BY DEF Users
<1> QED
  BY <1>1, FS_Subset, FS_CardinalityType

LEMMA CountStays ==
  ASSUME CountIsUse, NEW e \in live, entry'[e].count = entry[e].count,
         entry'[e].owner = entry[e].owner, Users(e)' = Users(e)
  PROVE  CountFits(e)'
BY DEF CountIsUse, CountFits

(* What a request thread leaves alone: the other threads and the clients. *)
OthersKeep(c) ==
    /\ UNCHANGED <<req, sess, broken>>
    /\ \A d \in Clients \ {c} : pc'[d] = pc[d] /\ my_mutex'[d] = my_mutex[d] /\ ok'[d] = ok[d]

(* The clients and the accept loop keep the invariant: they touch no entry,
   and start an unlock only where a lock is in force. *)
LEMMA ClientKeeps ==
  ASSUME TypeOK, TypeOK', Sound, UNCHANGED hashVars,
         Accept \/ \E c \in Clients : ClientStep(c)
  PROVE  Sound'
<1> USE DEF Sound, hashVars
<1>1. CASE Accept
  <2>1. UNCHANGED <<pc, req, ok, sess>>
    BY <1>1 DEF Accept
  <2>2. OneEntryPerFile' /\ NoneRefused' /\ ~broken'
    BY <2>1 DEF OneEntryPerFile, NoneRefused
  <2>3. CountIsUse'
    <3>1. \A e \in live : Users(e)' = Users(e)
      BY <2>1 DEF Users
    <3> QED
      BY <3>1 DEF CountIsUse
  <2>4. AtEntry'
    BY <2>1 DEF AtEntry, ThreadAt
  <2>5. OwnersOwn'
    BY <2>1 DEF OwnersOwn, MustOwn
  <2> QED
    BY <2>2, <2>3, <2>4, <2>5
<1>2. ASSUME NEW c \in Clients, ClientStep(c) PROVE Sound'
  <2> USE DEF BeginSession, EndSession, Connect, Write, Crash, ReadRequest,
              ReadEof, Reply, AfterReply, NoRequest
  <2>0. BeginSession(c) \/ EndSession(c) \/ Write(c) \/ Crash(c)
        \/ ReadRequest(c) \/ ReadEof(c) \/ Reply(c)
    BY <1>2 DEF ClientStep
  <2>1. \A d \in Clients : d # c => /\ pc'[d] = pc[d] /\ req'[d] = req[d]
                                  /\ ok'[d] = ok[d] /\ sess'[d] = sess[d]
    BY <2>0 DEF TypeOK, ClientTypeOK
  <2>2. \/ /\ pc[c] \in {"idle", "connected", "sent", "reply"}
           /\ pc'[c] \in {"idle", "connected", "sent", "get"}
        \/ pc'[c] = pc[c] /\ req'[c] = req[c] /\ ok'[c] = ok[c]
    BY <2>0 DEF TypeOK, ClientTypeOK
  <2>3. OneEntryPerFile' /\ ~broken'
    BY DEF OneEntryPerFile
  <2>4. CountIsUse'
    <3>1. ASSUME NEW e \in live PROVE Users(e)' = Users(e)
      BY <2>1, <2>2 DEF Users
    <3> QED
      BY <3>1 DEF CountIsUse
  <2>5. AtEntry'
    BY <2>1, <2>2 DEF AtEntry, ThreadAt
  <2>6. OwnersOwn'
    <3> SUFFICES ASSUME NEW d \in Clients, MustOwn(d)'
                 PROVE  \E e \in live : entry[e].owner = d /\ entry[e].file_name = req'[d].file
      BY DEF OwnersOwn
    <3>1. CASE d # c
      BY <2>1, <3>1 DEF OwnersOwn, MustOwn
    <3>2. CASE d = c
      <4> USE <3>2 DEF MustOwn, TypeOK, ClientTypeOK
      <4>1. MustOwn(c) /\ req'[c].file = req[c].file
        <5>1. CASE BeginSession(c)
          BY <5>1
        <5>2. CASE EndSession(c)
          BY <5>2 DEF NoneRefused
        <5>3. CASE Write(c) \/ Crash(c) \/ ReadRequest(c)
          BY <5>3
        <5>4. CASE ReadEof(c)
          BY <5>4
        <5>5. CASE Reply(c)
          BY <5>5
        <5> QED
          BY <2>0, <5>1, <5>2, <5>3, <5>4, <5>5
      <4> QED
        BY <3>2, <4>1 DEF OwnersOwn
    <3> QED
      BY <3>1, <3>2
  <2>7. NoneRefused'
    BY <2>0 DEF NoneRefused, TypeOK, ClientTypeOK
  <2> QED
    BY <2>3, <2>4, <2>5, <2>6, <2>7
<1> QED
  BY <1>1, <1>2

(* Reading the head of a chain changes nothing else. *)
LEMMA ReadHeadKeeps ==
  ASSUME TypeOK, Sound, NEW c \in Clients, ReadHead(c)
  PROVE  Sound'
<1> USE DEF Sound
<1>1. /\ OthersKeep(c) /\ UNCHANGED <<ok, entry, live>>
      /\ pc[c] = "get" /\ pc'[c] = "scan"
  BY DEF ReadHead, Goto, OthersKeep, TypeOK, ClientTypeOK
<1>2. \A e \in live : Users(e)' = Users(e)
  BY <1>1 DEF Users, OthersKeep
<1>3. CountIsUse'
  BY <1>1, <1>2 DEF CountIsUse
<1>4. AtEntry'
  BY <1>1 DEF AtEntry, ThreadAt, OthersKeep
<1>5. OwnersOwn'
  <2> SUFFICES ASSUME NEW d \in Clients, MustOwn(d)'
               PROVE  \E e \in live : entry[e].owner = d /\ entry[e].file_name = req[d].file
    BY <1>1 DEF OwnersOwn, OthersKeep
  <2>1. MustOwn(d)
    BY <1>1 DEF MustOwn, OthersKeep
  <2> QED
    BY <2>1 DEF OwnersOwn
<1> QED
  BY <1>1, <1>3, <1>4, <1>5 DEF OneEntryPerFile, NoneRefused, OthersKeep
-----------------------------------------------------------------------------
(* A walk from the head in force finds an entry of the file, if there is one;
   it never touches a freed entry. *)
LEMMA ScanKeeps ==
  ASSUME Chained, Sound, NEW c \in Clients, Scan(c), ~staleUse'
  PROVE  Sound'
<1> USE DEF Sound, Chained
<1> DEFINE f == req[c].file
<1> DEFINE p == mutex_hash[Hash[f]]
<1>1. /\ pc[c] = "scan" /\ my_mutex[c] = p
      /\ p \in live \union {None} /\ f \in Names
  <2>1. pc[c] = "scan" /\ my_mutex[c] = p
    BY DEF Scan
  <2> QED
    BY <2>1, EntryTypes DEF Linked, HeadsStart
<1>2. ScanMatch(c) \/ ScanAlloc(c) \/ ScanFail(c)
  BY <1>1 DEF Scan
<1>3. UNCHANGED <<req, sess, broken>>
  BY <1>1 DEF Scan
<1>4. Found(c) = Walk(p, f)
  BY <1>1 DEF Found
<1>5. Found(c) # None => Found(c) \in live /\ entry[Found(c)].file_name = f
  <2> HIDE DEF p, f
  <2> QED
    BY <1>1, <1>4, WalkMatches
<1>6. Found(c) = None => \A e \in live : entry[e].file_name # f
  BY <1>1, <1>4, WalkFinds
<1>7. \A e \in live : c \notin Users(e)
  BY <1>1 DEF Users
<1>8. /\ OpStep(req[c].op) \in {"lock", "trylock", "unlock"}
      /\ OpStep(req[c].op) = "unlock" <=> req[c].op = "UNLOCK"
      /\ OpStep(req[c].op) = "trylock" <=> req[c].op = "TRY"
  BY DEF OpStep, TypeOK, ClientTypeOK, Ops
<1>9. live \subseteq Entries /\ \A e \in live : entry[e].count \in Int
  BY EntryTypes
<1> HIDE DEF p
<1>10. CASE ScanMatch(c)
  <2> DEFINE s == Found(c)
  <2>1. /\ OthersKeep(c) /\ UNCHANGED <<ok, live>> /\ s \in live /\ entry[s].file_name = f
        /\ pc'[c] = OpStep(req[c].op) /\ my_mutex'[c] = s
    BY <1>3, <1>5, <1>10 DEF ScanMatch, Goto, OthersKeep, TypeOK, ClientTypeOK
  <2>2. /\ SameLinks(entry, entry') /\ \A e \in Entries : entry'[e].owner = entry[e].owner
        /\ entry'[s].count = IF req[c].op = "UNLOCK" THEN entry[s].count ELSE entry[s].count + 1
        /\ \A e \in Entries \ {s} : entry'[e].count = entry[e].count
    <3>1. CASE req[c].op = "UNLOCK"
      BY <1>10, <3>1 DEF ScanMatch, SameLinks
    <3>2. CASE req[c].op # "UNLOCK"
      <4>1. entry' = [entry EXCEPT ![s].count = entry[s].count + 1]
        BY <1>10, <3>2 DEF ScanMatch
      <4>2. entry[s].count + 1 \in Int /\ s \in Entries /\ entry \in [Entries -> ZzMutex]
        BY <1>9, <2>1 DEF TypeOK
      <4> HIDE DEF s
      <4>3. CountSet(entry, entry', s, entry[s].count + 1)
        BY <4>1, <4>2, SetCount
      <4> QED
        BY <3>2, <4>3 DEF CountSet
    <3> QED
      BY <3>1, <3>2
  <2> HIDE DEF s
  <2>3. OneEntryPerFile'
    BY <1>9, <2>1, <2>2 DEF OneEntryPerFile, SameLinks
  <2>4. CountIsUse'
    <3> SUFFICES ASSUME NEW e \in live PROVE CountFits(e)'
      BY <2>1 DEF CountIsUse, CountFits
    <3>1. CASE e = s /\ req[c].op # "UNLOCK"
      <4>1. Users(e)' = Users(e) \union {c}
        BY <1>8, <2>1, <3>1 DEF Users, OthersKeep
      <4>2. Cardinality(Users(e)') = Cardinality(Users(e)) + 1
        BY <1>7, <4>1, UsersCount, FS_AddElement
      <4>3. entry'[e].count = entry[e].count + 1 /\ entry'[e].owner = entry[e].owner
        BY <1>9, <2>2, <3>1
      <4>4. CountFits(e)
        BY DEF CountIsUse, CountFits
      <4> QED
        BY <4>2, <4>3, <4>4, UsersCount DEF CountFits
    <3>2. CASE e # s \/ req[c].op = "UNLOCK"
      <4>1. Users(e)' = Users(e)
        BY <1>1, <1>8, <2>1, <3>2 DEF Users, OthersKeep
      <4>2. entry'[e].count = entry[e].count /\ entry'[e].owner = entry[e].owner
        BY <1>9, <2>2, <3>2
      <4> QED
        BY <4>1, <4>2, CountStays
    <3> QED
      BY <3>1, <3>2
  <2>5. req[c].op = "UNLOCK" => entry[s].owner = c
    <3> SUFFICES ASSUME req[c].op = "UNLOCK" PROVE entry[s].owner = c
      OBVIOUS
    <3>1. PICK e \in live : entry[e].owner = c /\ entry[e].file_name = f
      BY <1>1 DEF OwnersOwn, MustOwn
    <3> QED
      BY <2>1, <3>1 DEF OneEntryPerFile
  <2>6. AtEntry'
    <3> SUFFICES ASSUME NEW d \in Clients PROVE ThreadAt(d)'
      BY DEF AtEntry
    <3>1. CASE d = c
      BY <1>8, <1>9, <2>1, <2>2, <2>5, <3>1 DEF ThreadAt, OthersKeep, SameLinks
    <3>2. CASE d # c
      BY <1>9, <2>1, <2>2, <3>2 DEF AtEntry, ThreadAt, OthersKeep, SameLinks
    <3> QED
      BY <3>1, <3>2
  <2>7. OwnersOwn'
    <3>1. \A d \in Clients : MustOwn(d)' => MustOwn(d)
      BY <1>1, <1>8, <2>1 DEF MustOwn, OthersKeep
    <3> QED
      BY <1>9, <2>1, <2>2, <3>1 DEF OwnersOwn, OthersKeep, SameLinks
  <2>8. NoneRefused' /\ ~broken'
    BY <2>1 DEF NoneRefused, OthersKeep
  <2> QED
    BY <2>3, <2>4, <2>6, <2>7, <2>8
<1>11. CASE ScanAlloc(c)
  <2>1. PICK n \in Entries \ live :
          /\ LinkFirst(n, f, mutex_hash[Hash[f]])
          /\ live' = live \union {n} /\ my_mutex' = [my_mutex EXCEPT ![c] = n]
    BY <1>11 DEF ScanAlloc
  <2>2. /\ OthersKeep(c) /\ UNCHANGED ok /\ req[c].op # "UNLOCK"
        /\ pc'[c] = OpStep(req[c].op) /\ my_mutex'[c] = n
        /\ \A e \in live : entry[e].file_name # f
    BY <1>3, <1>6, <1>11, <2>1 DEF ScanAlloc, Goto, OthersKeep, TypeOK, ClientTypeOK
  <2>3. /\ entry'[n].count = 1 /\ entry'[n].owner = None /\ entry'[n].file_name = f
        /\ \A e \in Entries \ {n} :
              /\ entry'[e].count = entry[e].count /\ entry'[e].owner = entry[e].owner
              /\ entry'[e].file_name = entry[e].file_name
    <3>1. p \in Pointers /\ p # n /\ LinkFirst(n, f, p)
      BY <1>1, <1>9, <2>1 DEF p, Pointers
    <3> QED
      BY <1>1, <3>1, LinkFirstSets
  <2>4. n # None /\ \A e \in live : e \in Entries \ {n}
    BY <1>9
  <2>5. OneEntryPerFile'
    BY <2>1, <2>2, <2>3, <2>4 DEF OneEntryPerFile
  <2>6. \A d \in Clients : ~(pc[d] \in {"lock", "trylock", "put", "unlock"} /\ my_mutex[d] = n)
    BY DEF AtEntry, ThreadAt
  <2>7. CountIsUse'
    <3> SUFFICES ASSUME NEW e \in live' PROVE CountFits(e)'
      BY DEF CountIsUse, CountFits
    <3>1. CASE e = n
      <4>1. Users(e)' = {c}
        BY <1>8, <2>2, <2>6, <3>1 DEF Users, OthersKeep
      <4>2. Cardinality(Users(e)') = 1
        BY <4>1, FS_Singleton
      <4>3. entry'[e].count = 1 /\ entry'[e].owner = None
        BY <2>3, <3>1
      <4> QED
        BY <4>2, <4>3 DEF CountFits
    <3>2. CASE e # n
      <4>1. Users(e)' = Users(e) /\ e \in live
        BY <1>1, <2>1, <2>2, <3>2 DEF Users, OthersKeep
      <4> QED
        BY <2>3, <2>4, <3>2, <4>1, CountStays
    <3> QED
      BY <3>1, <3>2
  <2>8. AtEntry'
    <3> SUFFICES ASSUME NEW d \in Clients PROVE ThreadAt(d)'
      BY DEF AtEntry
    <3>1. CASE d = c
      BY <1>8, <2>1, <2>2, <2>3, <3>1 DEF ThreadAt, OthersKeep
    <3>2. CASE d # c
      BY <2>1, <2>2, <2>3, <2>4, <3>2 DEF AtEntry, ThreadAt, OthersKeep
    <3> QED
      BY <3>1, <3>2
  <2>9. OwnersOwn'
    <3>1. \A d \in Clients : MustOwn(d)' => MustOwn(d)
      BY <1>1, <1>8, <2>2 DEF MustOwn, OthersKeep
    <3> QED
      BY <2>1, <2>2, <2>3, <2>4, <3>1 DEF OwnersOwn, OthersKeep
  <2>10. NoneRefused' /\ ~broken'
    BY <2>2 DEF NoneRefused, OthersKeep
  <2> QED
    BY <2>5, <2>7, <2>8, <2>9, <2>10
<1>12. CASE ScanFail(c)
  <2>1. PICK e \in live : entry[e].owner = c /\ entry[e].file_name = f
    BY <1>1, <1>12 DEF ScanFail, OwnersOwn, MustOwn
  <2> QED
    BY <1>6, <1>12, <2>1 DEF ScanFail
<1> QED
  BY <1>2, <1>10, <1>11, <1>12
-----------------------------------------------------------------------------
(* A thread that takes the free mutex of its entry stops using the entry and
   starts holding it: the count stays right. *)
LEMMA TakeKeeps ==
  ASSUME TypeOK, Sound, NEW c \in Clients, UseMutex(c), TakeMutex(c), my_mutex[c] \in live
  PROVE  Sound'
<1> USE DEF Sound
<1> DEFINE s == my_mutex[c]
<1>1. /\ s \in live /\ live \subseteq Entries /\ entry[s].owner = None
      /\ entry[s].file_name = req[c].file /\ req[c].op # "UNLOCK"
      /\ pc[c] \in {"lock", "trylock"} /\ \A e \in live : entry[e].count \in Int
  BY EntryTypes DEF UseMutex, TakeMutex, AtEntry, ThreadAt
<1>2. /\ OthersKeep(c) /\ UNCHANGED <<ok, live>> /\ pc'[c] = "reply" /\ my_mutex'[c] = None
  BY DEF UseMutex, TakeMutex, Done, Goto, OthersKeep, TypeOK, ClientTypeOK
<1>3. /\ SameLinks(entry, entry') /\ \A e \in Entries : entry'[e].count = entry[e].count
      /\ entry'[s].owner = c /\ \A e \in Entries \ {s} : entry'[e].owner = entry[e].owner
  <2>1. entry' = [entry EXCEPT ![s].owner = c] /\ entry \in [Entries -> ZzMutex] /\ s \in Entries
    BY <1>1 DEF TakeMutex, TypeOK
  <2> HIDE DEF s
  <2>2. OwnerSet(entry, entry', s, c)
    BY <2>1, SetOwner
  <2> QED
    BY <2>2 DEF OwnerSet
<1> HIDE DEF s
<1>4. CountIsUse'
  <2> SUFFICES ASSUME NEW e \in live PROVE CountFits(e)'
    BY <1>2 DEF CountIsUse, CountFits
  <2>1. CASE e = s
    <3>1. Users(e)' = Users(e) \ {c} /\ c \in Users(e)
      BY <1>1, <1>2, <2>1 DEF Users, OthersKeep, s
    <3>2. Cardinality(Users(e)') = Cardinality(Users(e)) - 1
      BY <3>1, UsersCount, FS_RemoveElement
    <3>3. CountFits(e) /\ entry[e].owner = None
      BY <1>1, <2>1 DEF CountFits, CountIsUse
    <3>4. entry'[e].owner # None /\ entry'[e].count = entry[e].count
      BY <1>1, <1>3, <2>1
    <3> QED
      BY <3>2, <3>3, <3>4, UsersCount DEF CountFits
  <2>2. CASE e # s
    <3>1. Users(e)' = Users(e)
      BY <1>1, <1>2, <2>2 DEF Users, OthersKeep, s
    <3> QED
      BY <1>1, <1>3, <2>2, <3>1, CountStays
  <2> QED
    BY <2>1, <2>2
<1>5. AtEntry'
  <2> SUFFICES ASSUME NEW d \in Clients PROVE ThreadAt(d)'
    BY DEF AtEntry
  <2>1. CASE d = c
    BY <1>2, <2>1 DEF ThreadAt
  <2>2. CASE d # c
    BY <1>1, <1>2, <1>3, <2>2 DEF AtEntry, ThreadAt, OthersKeep, SameLinks
  <2> QED
    BY <2>1, <2>2
<1>6. OwnersOwn'
  <2> SUFFICES ASSUME NEW d \in Clients, MustOwn(d)'
               PROVE  \E e \in live : entry'[e].owner = d /\ entry'[e].file_name = req[d].file
    BY <1>2 DEF OwnersOwn, OthersKeep
  <2>1. CASE d = c
    BY <1>1, <1>3, <2>1 DEF SameLinks
  <2>2. CASE d # c
    <3>1. PICK e \in live : entry[e].owner = d /\ entry[e].file_name = req[d].file
      BY <1>2, <2>2 DEF OwnersOwn, MustOwn, OthersKeep
    <3>2. e # s
      BY <1>1, <3>1
    <3> QED
      BY <1>1, <1>3, <3>1, <3>2 DEF SameLinks
  <2> QED
    BY <2>1, <2>2
<1> QED
  BY <1>1, <1>2, <1>3, <1>4, <1>5, <1>6
  DEF OneEntryPerFile, NoneRefused, OthersKeep, SameLinks

(* A failed try_lock goes on using the entry until it puts it back. *)
LEMMA TryFailKeeps ==
  ASSUME TypeOK, Sound, NEW c \in Clients, UseMutex(c), FailTry(c), my_mutex[c] \in live
  PROVE  Sound'
<1> USE DEF Sound
<1>1. /\ pc[c] = "trylock" /\ pc'[c] = "put" /\ ok'[c] = FALSE /\ my_mutex'[c] = my_mutex[c]
      /\ OthersKeep(c) /\ UNCHANGED <<entry, live>>
  BY DEF UseMutex, FailTry, Goto, OthersKeep, TypeOK, ClientTypeOK
<1>2. c \notin Modifiers
  BY <1>1 DEF AtEntry, ThreadAt, NoneRefused
<1>3. \A e \in live : Users(e)' = Users(e)
  BY <1>1 DEF Users, OthersKeep
<1>4. CountIsUse'
  BY <1>1, <1>3 DEF CountIsUse
<1>5. AtEntry'
  BY <1>1 DEF AtEntry, ThreadAt, OthersKeep
<1>6. OwnersOwn'
  BY <1>1 DEF OwnersOwn, MustOwn, OthersKeep
<1> QED
  BY <1>1, <1>2, <1>4, <1>5, <1>6 DEF OneEntryPerFile, NoneRefused, OthersKeep

(* An unlock ends the lock of its own client and no other's. *)
LEMMA UnlockKeeps ==
  ASSUME TypeOK, Sound, NEW c \in Clients, Unlock(c)
  PROVE  Sound'
<1> USE DEF Sound
<1> DEFINE s == my_mutex[c]
<1>1. /\ s \in live /\ live \subseteq Entries /\ entry[s].owner = c
      /\ req[c].op = "UNLOCK" /\ pc[c] = "unlock" /\ \A e \in live : entry[e].count \in Int
  BY EntryTypes DEF Unlock, AtEntry, ThreadAt
<1>2. /\ OthersKeep(c) /\ UNCHANGED <<ok, live>> /\ pc'[c] = "put" /\ my_mutex'[c] = s
  BY <1>1 DEF Unlock, Goto, OthersKeep, TypeOK, ClientTypeOK
<1>3. /\ SameLinks(entry, entry') /\ \A e \in Entries : entry'[e].count = entry[e].count
      /\ entry'[s].owner = None /\ \A e \in Entries \ {s} : entry'[e].owner = entry[e].owner
  <2>1. entry' = [entry EXCEPT ![s].owner = None] /\ entry \in [Entries -> ZzMutex] /\ s \in Entries
    BY <1>1 DEF Unlock, TypeOK
  <2> HIDE DEF s
  <2>2. OwnerSet(entry, entry', s, None)
    BY <2>1, SetOwner
  <2> QED
    BY <2>2 DEF OwnerSet
<1> HIDE DEF s
<1>4. CountIsUse'
  <2> SUFFICES ASSUME NEW e \in live PROVE CountFits(e)'
    BY <1>2 DEF CountIsUse, CountFits
  <2>1. CASE e = s
    <3>1. Users(e)' = Users(e) \union {c} /\ c \notin Users(e)
      BY <1>1, <1>2, <2>1 DEF Users, OthersKeep
    <3>2. Cardinality(Users(e)') = Cardinality(Users(e)) + 1
      BY <3>1, UsersCount, FS_AddElement
    <3>3. CountFits(e) /\ entry[e].owner # None
      BY <1>1, <2>1 DEF CountFits, CountIsUse
    <3>4. entry'[e].owner = None /\ entry'[e].count = entry[e].count
      BY <1>1, <1>3, <2>1
    <3> QED
      BY <3>2, <3>3, <3>4, UsersCount DEF CountFits
  <2>2. CASE e # s
    <3>1. Users(e)' = Users(e)
      BY <1>1, <1>2, <2>2 DEF Users, OthersKeep
    <3> QED
      BY <1>1, <1>3, <2>2, <3>1, CountStays
  <2> QED
    BY <2>1, <2>2
<1>5. AtEntry'
  <2> SUFFICES ASSUME NEW d \in Clients PROVE ThreadAt(d)'
    BY DEF AtEntry
  <2>1. CASE d = c
    BY <1>1, <1>2, <2>1 DEF ThreadAt, OthersKeep
  <2>2. CASE d # c
    BY <1>1, <1>2, <1>3, <2>2 DEF AtEntry, ThreadAt, OthersKeep, SameLinks
  <2> QED
    BY <2>1, <2>2
<1>6. OwnersOwn'
  <2> SUFFICES ASSUME NEW d \in Clients, MustOwn(d)'
               PROVE  \E e \in live : entry'[e].owner = d /\ entry'[e].file_name = req[d].file
    BY <1>2 DEF OwnersOwn, OthersKeep
  <2>1. d # c
    BY <1>1, <1>2 DEF MustOwn, OthersKeep
  <2>2. PICK e \in live : entry[e].owner = d /\ entry[e].file_name = req[d].file
    BY <1>2, <2>1 DEF OwnersOwn, MustOwn, OthersKeep
  <2>3. e # s
    BY <1>1, <2>1, <2>2
  <2> QED
    BY <1>1, <1>3, <2>2, <2>3 DEF SameLinks
<1> QED
  BY <1>1, <1>2, <1>3, <1>4, <1>5, <1>6
  DEF OneEntryPerFile, NoneRefused, OthersKeep, SameLinks

(* put_zz_mutex() frees an entry only when its caller is the last thread that
   uses it and nobody holds it. *)
LEMMA PutKeeps ==
  ASSUME Chained, Sound, NEW c \in Clients, Put(c)
  PROVE  Sound'
<1> USE DEF Sound, Chained
<1> DEFINE s == my_mutex[c]
<1>1. /\ s \in live /\ live \subseteq Entries /\ pc[c] = "put"
      /\ (req[c].op = "UNLOCK" \/ ~ok[c]) /\ \A e \in live : entry[e].count \in Int
  BY EntryTypes DEF Put, AtEntry, ThreadAt
<1>2. /\ OthersKeep(c) /\ UNCHANGED ok /\ pc'[c] = "reply" /\ my_mutex'[c] = None
      /\ PutBack(s)
  BY <1>1 DEF Put, Done, Goto, OthersKeep, TypeOK, ClientTypeOK
<1>3. CountFits(s) /\ c \in Users(s)
  BY <1>1 DEF CountFits, CountIsUse, Users
<1>4. CASE LastUse(s)
  <2>1. Unlink(s)
    BY <1>2, <1>4 DEF PutBack
  <2>2. live' = live \ {s}
    BY <2>1 DEF Unlink
  <2>3. \A e \in live \ {s} :
          /\ entry'[e].count = entry[e].count /\ entry'[e].owner = entry[e].owner
          /\ entry'[e].file_name = entry[e].file_name
    <3> HIDE DEF s
    <3>1. /\ s \in Entries /\ entry[s].pre # s /\ entry[s].next # s
          /\ entry[s].pre = None \/ entry[s].pre # entry[s].next
      BY <1>1, Neighbours
    <3> QED
      BY <1>1, <2>1, <3>1, UnlinkSets
  <2>4. Users(s) = {c} /\ entry[s].owner = None
    <3>1. /\ Cardinality(Users(s)) \in Nat /\ IsFiniteSet(Users(s))
          /\ Cardinality(Users(s) \ {c}) = Cardinality(Users(s)) - 1
          /\ IsFiniteSet(Users(s) \ {c}) /\ Cardinality(Users(s) \ {c}) \in Nat
      BY <1>3, UsersCount, FS_RemoveElement, FS_CardinalityType
    <3>2. 1 = Cardinality(Users(s)) + (IF entry[s].owner = None THEN 0 ELSE 1)
      BY <1>3, <1>4 DEF LastUse, CountFits
    <3>3. entry[s].owner = None /\ Cardinality(Users(s) \ {c}) = 0
      BY <3>1, <3>2
    <3>4. Users(s) \ {c} = {}
      BY <3>1, <3>3, FS_EmptySet
    <3> QED
      BY <1>3, <3>3, <3>4
  <2>5. ASSUME NEW d \in Clients \ {c}, pc[d] \in {"lock", "trylock", "unlock", "put"}
        PROVE  my_mutex[d] \in live \ {s}
    <3>1. my_mutex[d] \in live /\ (pc[d] = "unlock" => entry[my_mutex[d]].owner = d)
      BY <2>5 DEF AtEntry, ThreadAt
    <3>2. my_mutex[d] # s
      BY <2>4, <2>5, <3>1 DEF Users
    <3> QED
      BY <3>1, <3>2
  <2> HIDE DEF s
  <2>6. OneEntryPerFile'
    BY <2>2, <2>3 DEF OneEntryPerFile
  <2>7. CountIsUse'
    <3> SUFFICES ASSUME NEW e \in live \ {s} PROVE CountFits(e)'
      BY <2>2 DEF CountIsUse, CountFits
    <3>1. Users(e)' = Users(e)
      BY <1>1, <1>2 DEF Users, OthersKeep, s
    <3> QED
      BY <2>3, <3>1, CountStays
  <2>8. AtEntry'
    <3> SUFFICES ASSUME NEW d \in Clients PROVE ThreadAt(d)'
      BY DEF AtEntry
    <3>1. CASE d = c
      BY <1>1, <1>2, <3>1 DEF ThreadAt, OthersKeep
    <3>2. CASE d # c
      <4>1. pc'[d] = pc[d] /\ my_mutex'[d] = my_mutex[d] /\ ok'[d] = ok[d] /\ req' = req
        BY <1>2, <3>2 DEF OthersKeep
      <4>2. pc[d] \in {"lock", "trylock", "unlock", "put"} =>
              /\ my_mutex[d] \in live'
              /\ entry'[my_mutex[d]].file_name = entry[my_mutex[d]].file_name
              /\ entry'[my_mutex[d]].owner = entry[my_mutex[d]].owner
        BY <2>2, <2>3, <2>5, <3>2
      <4> QED
        BY <4>1, <4>2 DEF AtEntry, ThreadAt
    <3> QED
      BY <3>1, <3>2
  <2>9. OwnersOwn'
    <3> SUFFICES ASSUME NEW d \in Clients, MustOwn(d)'
                 PROVE  \E e \in live' : entry'[e].owner = d /\ entry'[e].file_name = req[d].file
      BY <1>2 DEF OwnersOwn, OthersKeep
    <3>1. MustOwn(d)
      BY <1>1, <1>2 DEF MustOwn, OthersKeep
    <3>2. PICK e \in live : entry[e].owner = d /\ entry[e].file_name = req[d].file
      BY <3>1 DEF OwnersOwn
    <3>3. e # s
      BY <2>4, <3>2
    <3> QED
      BY <2>2, <2>3, <3>2, <3>3
  <2> QED
    BY <1>2, <2>6, <2>7, <2>8, <2>9 DEF NoneRefused, OthersKeep
<1>5. CASE ~LastUse(s)
  <2>1. entry' = [entry EXCEPT ![s].count = entry[s].count - 1] /\ live' = live
    BY <1>2, <1>5 DEF PutBack
  <2> HIDE DEF s
  <2>2. /\ SameLinks(entry, entry') /\ \A e \in Entries : entry'[e].owner = entry[e].owner
        /\ entry'[s].count = entry[s].count - 1
        /\ \A e \in Entries \ {s} : entry'[e].count = entry[e].count
    <3>1. entry[s].count - 1 \in Int /\ s \in Entries /\ entry \in [Entries -> ZzMutex]
      BY <1>1 DEF TypeOK
    <3>2. CountSet(entry, entry', s, entry[s].count - 1)
      BY <2>1, <3>1, SetCount
    <3> QED
      BY <3>2 DEF CountSet
  <2>3. OneEntryPerFile'
    BY <1>1, <2>1, <2>2 DEF OneEntryPerFile, SameLinks
  <2>4. CountIsUse'
    <3> SUFFICES ASSUME NEW e \in live PROVE CountFits(e)'
      BY <2>1 DEF CountIsUse, CountFits
    <3>1. CASE e = s
      <4>1. Users(e)' = Users(e) \ {c} /\ c \in Users(e)
        BY <1>1, <1>2, <3>1 DEF Users, OthersKeep, s
      <4>2. Cardinality(Users(e)') = Cardinality(Users(e)) - 1
        BY <4>1, UsersCount, FS_RemoveElement
      <4>3. CountFits(e)
        BY DEF CountIsUse, CountFits
      <4>4. entry'[e].count = entry[e].count - 1 /\ entry'[e].owner = entry[e].owner
        BY <1>1, <2>2, <3>1
      <4> QED
        BY <4>2, <4>3, <4>4, UsersCount DEF CountFits
    <3>2. CASE e # s
      <4>1. Users(e)' = Users(e)
        BY <1>1, <1>2, <3>2 DEF Users, OthersKeep, s
      <4> QED
        BY <1>1, <2>2, <3>2, <4>1, CountStays
    <3> QED
      BY <3>1, <3>2
  <2>5. AtEntry'
    <3> SUFFICES ASSUME NEW d \in Clients PROVE ThreadAt(d)'
      BY DEF AtEntry
    <3>1. CASE d = c
      BY <1>1, <1>2, <3>1 DEF ThreadAt, OthersKeep
    <3>2. CASE d # c
      BY <1>1, <1>2, <2>1, <2>2, <3>2 DEF AtEntry, ThreadAt, OthersKeep, SameLinks
    <3> QED
      BY <3>1, <3>2
  <2>6. OwnersOwn'
    <3>1. \A d \in Clients : MustOwn(d)' => MustOwn(d)
      BY <1>1, <1>2 DEF MustOwn, OthersKeep
    <3> QED
      BY <1>1, <1>2, <2>1, <2>2, <3>1 DEF OwnersOwn, OthersKeep, SameLinks
  <2> QED
    BY <1>2, <2>3, <2>4, <2>5, <2>6 DEF NoneRefused, OthersKeep
<1> QED
  BY <1>4, <1>5
-----------------------------------------------------------------------------
(* A walk that started late stays on record. *)
IInv == Chained /\ (~staleUse => Sound)

LEMMA InvStep == IInv /\ [Next]_vars => IInv'
<1> SUFFICES ASSUME Chained, ~staleUse => Sound, [Next]_vars, ~staleUse' PROVE Sound'
  BY ChainedStep DEF IInv
<1>1. CASE UNCHANGED hashVars /\ (Accept \/ \E c \in Clients : ClientStep(c))
  BY <1>1, ClientKeeps, ChainedStep DEF Chained, hashVars
<1>2. ASSUME NEW c \in Clients, Thread(c) PROVE Sound'
  <2>1. ~staleUse /\ Sound /\ TypeOK
    BY <1>2 DEF Thread, ReadHead, Scan, UseMutex, Unlock, Put, Chained, TypeOK
  <2>2. CASE ReadHead(c)
    BY <2>1, <2>2, ReadHeadKeeps
  <2>3. CASE Scan(c)
    BY <2>1, <2>3, ScanKeeps
  <2>4. CASE UseMutex(c)
    <3>1. my_mutex[c] \in live
      BY <2>1, <2>4 DEF UseMutex, Sound, AtEntry, ThreadAt
    <3>2. TakeMutex(c) \/ FailTry(c)
      BY <2>4, <3>1 DEF UseMutex
    <3> QED
      BY <2>1, <2>4, <3>1, <3>2, TakeKeeps, TryFailKeeps
  <2>5. CASE Unlock(c)
    BY <2>1, <2>5, UnlockKeeps
  <2>6. CASE Put(c)
    BY <2>1, <2>6, PutKeeps
  <2> QED
    BY <1>2, <2>2, <2>3, <2>4, <2>5, <2>6 DEF Thread
<1>3. CASE UNCHANGED vars
  <2>1. /\ UNCHANGED <<pc, req, ok, sess, entry, live, my_mutex, broken>> /\ Sound
    BY <1>3 DEF vars, clientVars, hashVars
  <2>2. OneEntryPerFile' /\ NoneRefused' /\ ~broken'
    BY <2>1 DEF Sound, OneEntryPerFile, NoneRefused
  <2>3. CountIsUse'
    BY <2>1 DEF Sound, CountIsUse, Users
  <2>4. AtEntry' /\ OwnersOwn'
    BY <2>1 DEF Sound, AtEntry, ThreadAt, OwnersOwn, MustOwn
  <2> QED
    BY <2>2, <2>3, <2>4 DEF Sound
<1> QED
  BY <1>1, <1>2, <1>3 DEF Next

LEMMA SoundInit == Init => Sound
<1> SUFFICES ASSUME Init PROVE Sound
  OBVIOUS
<1> QED
  BY DEF Init, ClientInit, NoRequest, Sound, OneEntryPerFile, CountIsUse, AtEntry,
         ThreadAt, OwnersOwn, MustOwn, NoneRefused

(* Two clients that hold the same file own the same entry. *)
LEMMA SoundExcludes == Sound => MutualExclusion
<1> SUFFICES ASSUME Sound, NEW c \in Clients, NEW d \in Clients, NEW f \in Names,
                    Holding(c, f), Holding(d, f)
             PROVE  c = d
  BY DEF MutualExclusion
<1>1. \A e \in {c, d} : \E s \in live : entry[s].owner = e /\ entry[s].file_name = f
  BY DEF Sound, Holding, OwnersOwn, MustOwn
<1> QED
  BY <1>1 DEF Sound, OneEntryPerFile

(* A late head is the only flaw of the chained server: as long as every walk
   started at the head in force, no freed entry is accessed, no file has two
   entries, no two clients hold one file and every count is the number of
   users: for every number of clients, modify_md clients among them, of
   entries and of chains. *)
THEOREM SoundUnlessStale == Spec => []CorrectUnlessStale
<1>1. Init => IInv
  BY ChainedInit, SoundInit DEF IInv
<1>2. IInv => CorrectUnlessStale
  BY SoundExcludes DEF IInv, CorrectUnlessStale, Sound
<1> QED
  BY <1>1, <1>2, InvStep, PTL DEF Spec
=============================================================================
