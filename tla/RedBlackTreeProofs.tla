-------------------------- MODULE RedBlackTreeProofs --------------------------
(***************************************************************************)
(* The red-black tree of nss.c, for any set of keys and any number of      *)
(* nodes.  The tree is described by g, which gives for each node the set   *)
(* of the nodes at it and below it, and by h, the number of black nodes on *)
(* the way down from it.  A rotation changes g for two nodes only.  What   *)
(* has to be shown by induction over the tree follows from a node for      *)
(* which g is smallest or largest.                                         *)
(***************************************************************************)
EXTENDS RedBlackTree, FiniteSetTheorems, WellFoundedInduction, TLAPS

-----------------------------------------------------------------------------
(* Induction over the numbers.  The induction theorems of the library take an
   operator, which the provers cannot instantiate; over a set they follow from the
   strict subset relation on finite sets being well-founded. *)

(* Every set of numbers has a least one. *)
LEMMA LeastNat ==
  ASSUME NEW T, T \subseteq Nat, T # {}
  PROVE  \E x \in T : \A y \in T : x <= y
<1> DEFINE F == {0..n : n \in T}
<1>1. F \subseteq FiniteSubsetsOf(Nat) /\ F # {}
  <2>1. \A n \in Nat : IsFiniteSet(0..n)
    BY FS_Interval
  <2>2. \A n \in Nat : (0..n) \subseteq Nat
    OBVIOUS
  <2>3. \A n \in T : 0..n \in FiniteSubsetsOf(Nat)
    BY <2>1, <2>2 DEF FiniteSubsetsOf
  <2> QED
    BY <2>3
<1>2. \E S \in F : \A R \in F : <<R, S>> \notin StrictSubsetOrdering(Nat)
  BY <1>1, FS_StrictSubsetOrderingWellFounded, WFMin
<1>3. PICK x \in T : \A y \in T : <<0..y, 0..x>> \notin StrictSubsetOrdering(Nat)
  BY <1>2
<1>4. ASSUME NEW y \in T, (0..y) \subseteq (0..x), 0..y # 0..x PROVE FALSE
  <2>1. 0..y \in SUBSET Nat /\ 0..x \in SUBSET Nat
    OBVIOUS
  <2>2. <<0..y, 0..x>> \in (SUBSET Nat) \X (SUBSET Nat)
    BY <2>1
  <2> QED
    BY <1>3, <1>4, <2>2 DEF StrictSubsetOrdering
<1>5. ASSUME NEW y \in T, ~(x <= y) PROVE FALSE
  <2>1. x \in 0..x /\ x \notin 0..y /\ (0..y) \subseteq (0..x)
    BY <1>5
  <2> QED
    BY <1>4, <2>1
<1> QED
  BY <1>5

(* Induction over the set of the numbers for which a fact holds. *)
LEMMA Induction ==
  ASSUME NEW S, 0 \in S, \A n \in Nat : n \in S => n + 1 \in S
  PROVE  \A n \in Nat : n \in S
<1> DEFINE T == {n \in Nat : n \notin S}
<1> SUFFICES ASSUME T # {} PROVE FALSE
  OBVIOUS
<1>1. PICK x \in T : \A y \in T : x <= y
  BY LeastNat
<1>2. x # 0 /\ x - 1 \in Nat /\ x - 1 \notin S
  OBVIOUS
<1> QED
  BY <1>1, <1>2

(* g lists p and the first n values that iterating s gives. *)
Iterates(g, s, p, S, n) ==
    /\ g \in [0..n -> S]
    /\ g[0] = p /\ \A k \in 1..n : g[k] = s[g[k - 1]]

LEMMA CanIterate ==
  ASSUME NEW S, NEW s \in [S -> S], NEW p \in S, NEW N \in Nat
  PROVE  \E g : Iterates(g, s, p, S, N)
<1> DEFINE Good == {n \in Nat : \E g : Iterates(g, s, p, S, n)}
<1>1. 0 \in Good
  <2> DEFINE g == [k \in 0..0 |-> p]
  <2>1. Iterates(g, s, p, S, 0)
    BY DEF Iterates
  <2> QED
    BY <2>1
<1>2. ASSUME NEW n \in Nat, n \in Good PROVE n + 1 \in Good
  <2>1. PICK g : Iterates(g, s, p, S, n)
    BY <1>2
  <2> DEFINE h == [k \in 0..(n + 1) |-> IF k = n + 1 THEN s[g[n]] ELSE g[k]]
  <2>2. Iterates(h, s, p, S, n + 1)
    BY <2>1 DEF Iterates
  <2> QED
    BY <2>2
<1>3. N \in Good
  <2> HIDE DEF Good
  <2> QED
    BY <1>1, <1>2, Induction
<1> QED
  BY <1>3

-----------------------------------------------------------------------------
Sides == {"l", "r"}

(* Where on side s of b the key a belongs. *)
Before(s, a, b) == IF s = "l" THEN a < b ELSE b < a

Shaped(t) ==
    /\ t \in [i : [Nodes -> Keys \union {NoKey}], c : [Pointers -> {"red", "black"}],
              l : [Pointers -> Pointers], r : [Pointers -> Pointers],
              p : [Pointers -> Pointers], root : Pointers]
    /\ t.c[NIL_NODE] = "black"

(* A node other than root is a child of the node its p points to; *)
Linked(t) ==
    /\ t.root # NIL_NODE => t.root \in InTree(t) /\ t.p[t.root] = NIL_NODE
    /\ \A n \in InTree(t), s \in Sides :
          t[s][n] # NIL_NODE => t[s][n] \in InTree(t) /\ t.p[t[s][n]] = n
    /\ \A n \in InTree(t) :
          n # t.root => t.p[n] \in InTree(t) /\ \E s \in Sides : t[s][t.p[n]] = n
    /\ \A n \in Pointers, s \in Sides : n \notin InTree(t) => t[s][n] = NIL_NODE

(* g gives the nodes at and below each node: on side s those whose key belongs
   there, and no two of the same key. *)
Below(t, g) ==
    /\ g \in [Pointers -> SUBSET InTree(t)] /\ g[NIL_NODE] = {} /\ g[t.root] = InTree(t)
    /\ \A n \in InTree(t) : n \in g[n]
    /\ \A n \in InTree(t), s \in Sides :
          g[t[s][n]] = {m \in g[n] : Before(s, t.i[m], t.i[n])}

Distinct(t) == \A m, n \in InTree(t) : t.i[m] = t.i[n] => m = n

Search(t, g) == Shaped(t) /\ Linked(t) /\ Below(t, g) /\ Distinct(t)
-----------------------------------------------------------------------------
LEMMA NilApart == NIL_NODE \notin Nodes /\ IsFiniteSet(Nodes) /\ Keys \subseteq Nat /\ NoKey \notin Keys
BY TreeAssumption DEF NoKey

LEMMA KeyTypes ==
  ASSUME NEW t, Shaped(t), NEW n \in InTree(t)
  PROVE  n \in Nodes /\ n \in Pointers /\ n # NIL_NODE /\ t.i[n] \in Keys /\ t.i[n] \in Nat
BY NilApart DEF Shaped, InTree, Pointers

LEMMA SideTypes ==
  ASSUME NEW t, Shaped(t), NEW s \in Sides
  PROVE  /\ t[s] \in [Pointers -> Pointers] /\ Other(s) \in Sides /\ Other(s) # s
         /\ Other(Other(s)) = s /\ t[Other(s)] \in [Pointers -> Pointers]
         /\ \A e \in Sides : e # s => e = Other(s)
BY DEF Shaped, Sides, Other

(* A node belongs on one side of another. *)
LEMMA OneSide ==
  ASSUME NEW t, Shaped(t), Distinct(t), NEW m \in InTree(t), NEW n \in InTree(t), NEW s \in Sides
  PROVE  /\ m # n => (Before(Other(s), t.i[m], t.i[n]) <=> ~Before(s, t.i[m], t.i[n]))
         /\ ~Before(s, t.i[m], t.i[m])
         /\ Before(s, t.i[m], t.i[n]) => ~Before(s, t.i[n], t.i[m])
<1>1. t.i[m] \in Nat /\ t.i[n] \in Nat
  BY KeyTypes
<1>2. m # n => t.i[m] # t.i[n]
  BY DEF Distinct
<1> QED
  BY <1>1, <1>2 DEF Sides, Other, Before

LEMMA Trans ==
  ASSUME NEW a \in Nat, NEW b \in Nat, NEW c \in Nat, NEW s \in Sides,
         Before(s, a, b), Before(s, b, c)
  PROVE  Before(s, a, c)
BY DEF Before

LEMMA BelowTypes ==
  ASSUME NEW t, NEW g, Search(t, g), NEW n \in InTree(t)
  PROVE  g[n] \subseteq InTree(t) /\ n \in g[n]
BY KeyTypes DEF Search, Below

LEMMA ChildTypes ==
  ASSUME NEW t, NEW g, Search(t, g), NEW n \in InTree(t), NEW s \in Sides
  PROVE  /\ t[s][n] \in Pointers /\ g[t[s][n]] \subseteq g[n] /\ n \notin g[t[s][n]]
         /\ t[s][n] # NIL_NODE => /\ t[s][n] \in InTree(t) /\ t.p[t[s][n]] = n /\ t[s][n] # n
         /\ t[s][n] # NIL_NODE => t[s][n] \in g[n] /\ t[s][n] # t[Other(s)][n]
<1> DEFINE c == t[s][n]
<1>1. n \in Pointers /\ c \in Pointers
  BY KeyTypes, SideTypes DEF Search
<1>2. g[c] = {m \in g[n] : Before(s, t.i[m], t.i[n])}
  BY DEF Search, Below
<1>3. n \notin g[c]
  BY <1>2, OneSide DEF Search
<1>4. ASSUME c # NIL_NODE
      PROVE  c \in InTree(t) /\ t.p[c] = n /\ c \in g[c]
  BY <1>4 DEF Search, Below, Linked
<1>5. ASSUME c # NIL_NODE, c = t[Other(s)][n]
      PROVE  FALSE
  <2>1. c \in g[c] /\ c \in InTree(t)
    BY <1>4, <1>5
  <2>2. g[c] = {m \in g[n] : Before(Other(s), t.i[m], t.i[n])}
    BY <1>5, SideTypes DEF Search, Below
  <2>3. Before(s, t.i[c], t.i[n]) /\ Before(Other(s), t.i[c], t.i[n]) /\ c # n
    BY <1>2, <1>3, <2>1, <2>2
  <2> QED
    BY <2>1, <2>3, OneSide DEF Search
<1> QED
  BY <1>1, <1>2, <1>3, <1>4, <1>5

(* Of some nodes of the tree, one is not above and one is not below another. *)
LEMMA Lowest ==
  ASSUME NEW t, NEW g, Search(t, g), NEW S, S \subseteq InTree(t), S # {}
  PROVE  \E a \in S : \A b \in S : g[b] \subseteq g[a] => g[b] = g[a]
<1> DEFINE C == {Cardinality(g[a]) : a \in S}
<1>1. \A a \in S : IsFiniteSet(g[a]) /\ Cardinality(g[a]) \in Nat
  <2> TAKE a \in S
  <2>1. g[a] \in SUBSET Nodes
    BY BelowTypes DEF InTree
  <2> QED
    BY <2>1, NilApart, FS_Subset, FS_CardinalityType
<1>2. PICK x \in C : \A y \in C : x <= y
  BY <1>1, LeastNat
<1>3. PICK a \in S : x = Cardinality(g[a])
  BY <1>2
<1>4. ASSUME NEW b \in S, g[b] \subseteq g[a]
      PROVE  g[b] = g[a]
  <2>1. Cardinality(g[a]) <= Cardinality(g[b]) /\ Cardinality(g[b]) <= Cardinality(g[a])
    <3>1. Cardinality(g[b]) \in C
      OBVIOUS
    <3> QED
      BY <1>1, <1>2, <1>3, <1>4, <3>1, FS_Subset
  <2>2. Cardinality(g[a]) = Cardinality(g[b])
    BY <1>1, <2>1
  <2> QED
    BY <1>1, <1>4, <2>2, FS_Subset
<1> QED
  BY <1>4

LEMMA Highest ==
  ASSUME NEW t, NEW g, Search(t, g), NEW S, S \subseteq InTree(t), S # {}
  PROVE  \E a \in S : \A b \in S : g[a] \subseteq g[b] => g[b] = g[a]
<1> DEFINE N == Cardinality(Nodes)
           C == {N - Cardinality(g[a]) : a \in S}
<1>1. \A a \in S : /\ IsFiniteSet(g[a]) /\ Cardinality(g[a]) \in Nat
                   /\ N \in Nat /\ Cardinality(g[a]) <= N
  <2> TAKE a \in S
  <2>1. g[a] \in SUBSET Nodes
    BY BelowTypes DEF InTree
  <2> QED
    BY <2>1, NilApart, FS_Subset, FS_CardinalityType
<1> HIDE DEF N
<1>2. PICK x \in C : \A y \in C : x <= y
  <2>1. C \subseteq Nat /\ C # {}
    BY <1>1
  <2> QED
    BY <2>1, LeastNat
<1>3. PICK a \in S : x = N - Cardinality(g[a])
  BY <1>2
<1>4. ASSUME NEW b \in S, g[a] \subseteq g[b]
      PROVE  g[b] = g[a]
  <2>1. Cardinality(g[b]) <= Cardinality(g[a]) /\ Cardinality(g[a]) <= Cardinality(g[b])
    <3>1. N - Cardinality(g[b]) \in C
      OBVIOUS
    <3>2. x <= N - Cardinality(g[b])
      BY <1>2, <3>1
    <3> QED
      BY <1>1, <1>3, <1>4, <3>2, FS_Subset
  <2>2. Cardinality(g[a]) = Cardinality(g[b])
    BY <1>1, <2>1
  <2> QED
    BY <1>1, <1>4, <2>2, FS_Subset
<1> QED
  BY <1>4

(* Who is above a node, and is not the node, is above its parent; nobody is
   above root. *)
LEMMA Upwards ==
  ASSUME NEW t, NEW g, Search(t, g), NEW n \in InTree(t), NEW a \in InTree(t), n \in g[a], a # n
  PROVE  n # t.root /\ t.p[n] \in g[a] /\ t.p[n] \in InTree(t)
<1> DEFINE S == {b \in InTree(t) : n \in g[b] /\ b # n /\ t.p[n] \notin g[b]}
<1>1. ASSUME a \in S
      PROVE  FALSE
  <2>1. S \subseteq InTree(t) /\ S # {}
    BY <1>1
  <2>2. PICK b \in S : \A c \in S : g[c] \subseteq g[b] => g[c] = g[b]
    <3> HIDE DEF S
    <3> QED
      BY <2>1, Lowest
  <2>3. PICK s \in Sides : Before(s, t.i[n], t.i[b])
    <3>1. "l" \in Sides /\ "r" \in Sides /\ Other("l") = "r"
      BY DEF Sides, Other
    <3> QED
      BY <2>2, <3>1, OneSide DEF Search
  <2> DEFINE c == t[s][b]
  <2>4. n \in g[c] /\ g[c] \subseteq g[b] /\ b \notin g[c] /\ b \in g[b]
    BY <2>2, <2>3, ChildTypes, BelowTypes DEF Search, Below
  <2>5. c # NIL_NODE /\ c \in InTree(t) /\ t.p[c] = b
    BY <2>2, <2>4, ChildTypes DEF Search, Below
  <2>6. c # n
    BY <2>2, <2>4, <2>5
  <2>7. c \notin S
    BY <2>2, <2>4
  <2>8. t.p[n] \in g[c]
    BY <2>4, <2>5, <2>6, <2>7
  <2> QED
    BY <2>2, <2>4, <2>8
<1>2. t.p[n] \in g[a] /\ t.p[n] \in InTree(t)
  BY <1>1, BelowTypes
<1>3. n # t.root
  BY <1>2, KeyTypes DEF Search, Linked
<1> QED
  BY <1>2, <1>3

(* Below a node below another there are only nodes below the other. *)
LEMMA Nested ==
  ASSUME NEW t, NEW g, Search(t, g), NEW a \in InTree(t), NEW n \in g[a]
  PROVE  g[n] \subseteq g[a] /\ n \in InTree(t)
<1> DEFINE S == {m \in InTree(t) : m \in g[a] /\ ~(g[m] \subseteq g[a])}
<1>1. n \in InTree(t)
  BY BelowTypes
<1> SUFFICES ASSUME n \in S
             PROVE  FALSE
  BY <1>1
<1>2. PICK m \in S : \A b \in S : g[m] \subseteq g[b] => g[b] = g[m]
  <2>1. S \subseteq InTree(t) /\ S # {}
    OBVIOUS
  <2> HIDE DEF S
  <2> QED
    BY <2>1, Highest
<1>3. m # a
  BY <1>2
<1> DEFINE q == t.p[m]
<1>4. q \in g[a] /\ q \in InTree(t) /\ m # t.root
  BY <1>2, <1>3, Upwards
<1>5. PICK s \in Sides : t[s][q] = m
  BY <1>2, <1>4 DEF Search, Linked
<1>6. g[m] \subseteq g[q] /\ q \notin g[m] /\ q \in g[q]
  BY <1>4, <1>5, ChildTypes, BelowTypes
<1>7. q \notin S
  BY <1>2, <1>6
<1> QED
  BY <1>2, <1>4, <1>6, <1>7

(* The node whose child a node is. *)
LEMMA ParentOf ==
  ASSUME NEW t, NEW g, Search(t, g), NEW n \in InTree(t), n # t.root
  PROVE  /\ t.p[n] \in InTree(t) /\ t.p[n] # n /\ n \in g[t.p[n]] /\ g[n] \subseteq g[t.p[n]]
         /\ t.p[n] \notin g[n]
         /\ \E s \in Sides : t[s][t.p[n]] = n
<1>1. PICK s \in Sides : t[s][t.p[n]] = n
  BY DEF Search, Linked
<1>2. t.p[n] \in InTree(t)
  BY DEF Search, Linked
<1> QED
  BY <1>1, <1>2, ChildTypes, BelowTypes, KeyTypes DEF Search

(* Who is above a node: the node, and who is above its parent. *)
AboveIn(t, g, n) == {a \in InTree(t) : n \in g[a]}

LEMMA AboveParent ==
  ASSUME NEW t, NEW g, Search(t, g), NEW n \in InTree(t)
  PROVE  /\ n = t.root => AboveIn(t, g, n) = {n}
         /\ n # t.root => AboveIn(t, g, n) = {n} \union AboveIn(t, g, t.p[n])
                          /\ n \notin AboveIn(t, g, t.p[n])
<1>1. n \in AboveIn(t, g, n)
  BY BelowTypes DEF AboveIn
<1>2. CASE n = t.root
  BY <1>1, <1>2, Upwards DEF AboveIn
<1>3. CASE n # t.root
  <2> DEFINE q == t.p[n]
  <2>1. q \in InTree(t) /\ q \notin g[n] /\ n \in g[q]
    BY <1>3, ParentOf
  <2>2. ASSUME NEW a \in InTree(t), n \in g[a], a # n
        PROVE  q \in g[a]
    BY <2>2, Upwards
  <2>3. ASSUME NEW a \in InTree(t), q \in g[a]
        PROVE  n \in g[a] /\ a # n
    BY <2>1, <2>3, Nested
  <2> QED
    BY <1>1, <1>3, <2>2, <2>3 DEF AboveIn
<1> QED
  BY <1>2, <1>3

LEMMA RootTypes ==
  ASSUME NEW t, NEW g, Search(t, g)
  PROVE  /\ t.root \in Pointers
         /\ t.root = NIL_NODE <=> InTree(t) = {}
         /\ t.root # NIL_NODE => t.root \in InTree(t) /\ t.p[t.root] = NIL_NODE
         /\ \A n \in InTree(t) : n \in g[t.root]
BY KeyTypes DEF Search, Shaped, Linked, Below
-----------------------------------------------------------------------------
(* What the assignments to pointers come to. *)
Fields == {"l", "r", "p"}

Put(t, f, x, y) == [t EXCEPT ![f][x] = y]

SameRest(t, u) == u.i = t.i /\ u.c = t.c /\ u.root = t.root

LEMMA PutIs ==
  ASSUME NEW t, Shaped(t), NEW f \in Fields, NEW x \in Pointers, NEW y \in Pointers
  PROVE  LET u == Put(t, f, x, y) IN
         /\ Shaped(u) /\ SameRest(t, u)
         /\ u[f] = [t[f] EXCEPT ![x] = y] /\ \A e \in Fields : e # f => u[e] = t[e]
BY DEF Shaped, Fields, Put, SameRest

LEMMA FieldTypes ==
  ASSUME NEW t, Shaped(t), NEW f \in Fields
  PROVE  t[f] \in [Pointers -> Pointers]
BY DEF Shaped, Fields

LEMMA SideIsField ==
  ASSUME NEW s \in Sides
  PROVE  /\ s \in Fields /\ Other(s) \in Fields /\ s # "p" /\ Other(s) # "p" /\ s # Other(s)
         /\ Other(s) \in Sides /\ "p" \in Fields /\ \A f \in Fields : f \in Sides \/ f = "p"
         /\ \A e \in Sides : e = s \/ e = Other(s)
BY DEF Sides, Fields, Other

LEMMA PutRootIs ==
  ASSUME NEW t, Shaped(t), NEW y \in Pointers
  PROVE  LET u == [t EXCEPT !.root = y] IN
         /\ Shaped(u) /\ u.root = y /\ u.i = t.i /\ u.c = t.c
         /\ \A f \in Fields : u[f] = t[f]
BY DEF Shaped, Fields

(* Replace(t, x, y) when x is a child of its parent on side e. *)
LEMMA ReplaceIs ==
  ASSUME NEW t, Shaped(t), NEW x \in Pointers, NEW y \in Pointers, NEW e \in Sides,
         t.p[x] # NIL_NODE => t[e][t.p[x]] = x /\ t[Other(e)][t.p[x]] # x
  PROVE  Replace(t, x, y) = IF t.p[x] = NIL_NODE THEN [t EXCEPT !.root = y]
                            ELSE Put(t, e, t.p[x], y)
BY DEF Replace, Put, Sides, Other

LEMMA RotateParts ==
  ASSUME NEW t, NEW x, NEW s
  PROVE  LET y == t[Other(s)][x]
             inner == t[s][y]
             a == Put(Put(t, "p", y, t.p[x]), Other(s), x, inner)
             b == Replace(a, x, y)
             c == IF inner = NIL_NODE THEN b ELSE Put(b, "p", inner, x)
         IN Rotate(t, x, s) = Put(Put(c, s, y, x), "p", x, y)
BY DEF Rotate, Put

(* What a rotation comes to: x goes down on side s of y, its child on the other
   side, whose child on side s goes to x. *)
Turned(t, u, x, y, s) ==
    /\ Shaped(u) /\ u.i = t.i /\ u.c = t.c
    /\ u.root = IF t.root = x THEN y ELSE t.root
    /\ \A n \in Pointers, e \in Sides :
          u[e][n] = IF n = x /\ e = Other(s) THEN t[s][y]
                    ELSE IF n = y /\ e = s THEN x
                    ELSE IF t[e][n] = x THEN y ELSE t[e][n]
    /\ \A n \in Pointers :
          u.p[n] = IF n = x THEN y
                   ELSE IF n = y THEN t.p[x]
                   ELSE IF n = t[s][y] /\ n # NIL_NODE THEN x ELSE t.p[n]

LEMMA NilLinks ==
  ASSUME NEW t, NEW g, Search(t, g), NEW n \in Pointers, NEW s \in Sides, t[s][n] # NIL_NODE
  PROVE  n \in InTree(t) /\ t[s][n] \in InTree(t) /\ t.p[t[s][n]] = n
BY DEF Search, Linked

(* A node of the tree is root, whose parent is the sentinel, or a child on one
   side of one node. *)
LEMMA ChildOf ==
  ASSUME NEW t, NEW g, Search(t, g), NEW x \in InTree(t)
  PROVE  /\ t.p[x] \in Pointers
         /\ t.p[x] = NIL_NODE <=> t.root = x
         /\ \E e \in Sides :
               /\ t.p[x] # NIL_NODE => t[e][t.p[x]] = x /\ t[Other(e)][t.p[x]] # x
               /\ \A n \in Pointers, f \in Sides : t[f][n] = x <=> t.p[x] # NIL_NODE /\ n = t.p[x] /\ f = e
<1>1. x # NIL_NODE /\ x \in Pointers
  BY KeyTypes DEF Search
<1>2. CASE x = t.root
  <2>1. t.p[x] = NIL_NODE
    BY <1>1, <1>2 DEF Search, Linked
  <2>2. \A n \in Pointers, f \in Sides : t[f][n] # x
    <3> SUFFICES ASSUME NEW n \in Pointers, NEW f \in Sides, t[f][n] = x
                 PROVE  FALSE
      OBVIOUS
    <3> QED
      BY <1>1, <2>1, NilLinks, KeyTypes DEF Search
  <2>3. "l" \in Sides
    BY DEF Sides
  <2> QED
    BY <1>2, <2>1, <2>2, <2>3, KeyTypes DEF Pointers
<1>3. CASE x # t.root
  <2> DEFINE q == t.p[x]
  <2>1. q \in InTree(t) /\ q # NIL_NODE /\ q \in Pointers
    BY <1>3, ParentOf, KeyTypes DEF Search
  <2>2. PICK e \in Sides : t[e][q] = x
    BY <1>3, ParentOf
  <2>3. t[Other(e)][q] # x
    BY <1>1, <2>1, <2>2, ChildTypes
  <2>4. ASSUME NEW n \in Pointers, NEW f \in Sides, t[f][n] = x
        PROVE  n = q /\ f = e
    <3>1. n = q
      BY <1>1, <2>4, NilLinks
    <3> QED
      BY <2>3, <2>4, <3>1, SideIsField
  <2> QED
    BY <1>3, <2>1, <2>2, <2>3, <2>4
<1> QED
  BY <1>2, <1>3

LEMMA RotateIs ==
  ASSUME NEW t, NEW g, Search(t, g), NEW x \in InTree(t), NEW s \in Sides,
         t[Other(s)][x] # NIL_NODE
  PROVE  Turned(t, Rotate(t, x, s), x, t[Other(s)][x], s)
<1> DEFINE o == Other(s)
           y == t[o][x]
           inner == t[s][y]
           q == t.p[x]
           t1 == Put(t, "p", y, q)
           a == Put(t1, o, x, inner)
           b == Replace(a, x, y)
           c == IF inner = NIL_NODE THEN b ELSE Put(b, "p", inner, x)
           d == Put(c, s, y, x)
           u == Put(d, "p", x, y)
<1>1. /\ x \in Pointers /\ y \in Pointers /\ inner \in Pointers /\ q \in Pointers
      /\ x # y /\ y \in InTree(t) /\ t.p[y] = x /\ x # NIL_NODE /\ y # NIL_NODE
      /\ inner # x /\ inner # y /\ Shaped(t)
  <2>1. o \in Sides /\ x \in Pointers /\ x # NIL_NODE
    BY SideTypes, KeyTypes DEF Search
  <2>2. y \in InTree(t) /\ t.p[y] = x /\ y # x /\ y \in g[x] /\ x \notin g[y]
    BY <2>1, ChildTypes
  <2>3. inner # NIL_NODE => inner \in g[y] /\ inner # y
    BY <2>2, ChildTypes
  <2> QED
    BY <2>1, <2>2, <2>3, KeyTypes, ChildTypes, ChildOf DEF Search
<1>2. PICK e \in Sides :
         /\ q # NIL_NODE => t[e][q] = x /\ t[Other(e)][q] # x
         /\ \A n \in Pointers, f \in Sides : t[f][n] = x <=> q # NIL_NODE /\ n = q /\ f = e
  BY ChildOf
<1>3. q = NIL_NODE <=> t.root = x
  BY ChildOf
<1>4. q # x /\ q # y
  <2>1. CASE q = NIL_NODE
    BY <1>1, <2>1
  <2>2. CASE q # NIL_NODE
    <3>1. x # t.root
      BY <1>3, <2>2
    <3>2. q # x /\ q \notin g[x]
      BY <3>1, ParentOf
    <3>3. y \in g[x]
      BY <1>1, ChildTypes, SideTypes DEF Search
    <3> QED
      BY <3>2, <3>3
  <2> QED
    BY <2>1, <2>2
<1> HIDE DEF inner, q
<1>5. s \in Fields /\ o \in Fields /\ s # "p" /\ o # "p" /\ s # o /\ "p" \in Fields /\ e \in Fields /\ e # "p"
      /\ Other(e) \in Fields /\ Other(e) # "p" /\ \A f \in Sides : f = s \/ f = o
  BY SideIsField
<1> HIDE DEF y
<1>6. Shaped(t1) /\ SameRest(t, t1) /\ t1.p = [t.p EXCEPT ![y] = q]
      /\ \A f \in Sides : t1[f] = t[f]
  BY <1>1, <1>5, PutIs, SideIsField
<1>7. Shaped(a) /\ SameRest(t, a) /\ a.p = t1.p
      /\ a[o] = [t[o] EXCEPT ![x] = inner] /\ a[s] = t[s]
  <2> HIDE DEF t1
  <2>1. /\ Shaped(a) /\ SameRest(t1, a) /\ a[o] = [t1[o] EXCEPT ![x] = inner]
        /\ \A f \in Fields : f # o => a[f] = t1[f]
    BY <1>1, <1>5, <1>6, PutIs
  <2> HIDE DEF a
  <2>2. a["p"] = t1["p"] /\ a[s] = t1[s]
    BY <1>5, <2>1
  <2> QED
    BY <1>5, <1>6, <2>1, <2>2, SideIsField DEF SameRest
<1>8. /\ Shaped(b) /\ b.i = t.i /\ b.c = t.c /\ b.p = t1.p
      /\ b.root = IF t.root = x THEN y ELSE t.root
      /\ \A n \in Pointers, f \in Sides :
            b[f][n] = IF n = x /\ f = o THEN inner ELSE IF t[f][n] = x THEN y ELSE t[f][n]
  <2>1. a.p[x] = q
    <3>1. t.p \in [Pointers -> Pointers] /\ t1.p[x] = t.p[x]
      BY <1>1, <1>5, <1>6, FieldTypes
    <3> QED
      BY <1>7, <3>1 DEF q
  <2>2. q # NIL_NODE => a[e][q] = x /\ a[Other(e)][q] # x
    BY <1>1, <1>2, <1>4, <1>5, <1>7, FieldTypes, SideIsField
  <2> HIDE DEF a
  <2>3. b = IF q = NIL_NODE THEN [a EXCEPT !.root = y] ELSE Put(a, e, q, y)
    BY <1>1, <1>7, <2>1, <2>2, ReplaceIs
  <2>4. \A n \in Pointers, f \in Sides : a[f][n] = IF n = x /\ f = o THEN inner ELSE t[f][n]
    BY <1>1, <1>5, <1>7, FieldTypes, SideIsField
  <2>5. CASE q = NIL_NODE
    <3>1. b = [a EXCEPT !.root = y]
      BY <2>3, <2>5
    <3> HIDE DEF b, t1
    <3>2. Shaped(b) /\ b.root = y /\ b.i = t.i /\ b.c = t.c /\ b.p = t1.p /\ \A f \in Sides : b[f] = a[f]
      BY <1>1, <1>5, <1>7, <3>1, PutRootIs, SideIsField DEF SameRest
    <3> QED
      BY <1>2, <1>3, <2>4, <2>5, <3>2
  <2>6. CASE q # NIL_NODE
    <3>1. b = Put(a, e, q, y)
      BY <2>3, <2>6
    <3> HIDE DEF b, t1
    <3>2. Shaped(b) /\ SameRest(t, b) /\ b.p = t1.p /\ b[e] = [a[e] EXCEPT ![q] = y]
          /\ \A f \in Sides : f # e => b[f] = a[f]
      BY <1>1, <1>5, <1>7, <3>1, PutIs, SideIsField DEF SameRest
    <3>3. \A n \in Pointers, f \in Sides :
             b[f][n] = IF n = q /\ f = e THEN y ELSE a[f][n]
      BY <1>1, <1>7, <3>2, FieldTypes, SideIsField
    <3>4. ASSUME NEW n \in Pointers, NEW f \in Sides
          PROVE  b[f][n] = IF n = x /\ f = o THEN inner ELSE IF t[f][n] = x THEN y ELSE t[f][n]
      <4>1. t[f][n] = x <=> n = q /\ f = e
        BY <1>2, <2>6
      <4> QED
        BY <1>4, <2>4, <3>3, <4>1
    <3> QED
      BY <1>3, <2>6, <3>2, <3>4 DEF SameRest
  <2> QED
    BY <2>5, <2>6
<1> HIDE DEF t1, a, b
<1>9. /\ Shaped(c) /\ SameRest(b, c) /\ \A f \in Sides : c[f] = b[f]
      /\ \A n \in Pointers : c.p[n] = IF n = inner /\ n # NIL_NODE THEN x ELSE IF n = y THEN q ELSE t.p[n]
  <2>1. \A n \in Pointers : b.p[n] = IF n = y THEN q ELSE t.p[n]
    BY <1>1, <1>5, <1>6, <1>8, FieldTypes
  <2>2. CASE inner = NIL_NODE
    BY <1>8, <2>1, <2>2 DEF SameRest
  <2>3. CASE inner # NIL_NODE
    <3>1. c = Put(b, "p", inner, x)
      BY <2>3
    <3> HIDE DEF c
    <3>2. Shaped(c) /\ SameRest(b, c) /\ c.p = [b.p EXCEPT ![inner] = x] /\ \A f \in Sides : c[f] = b[f]
      BY <1>1, <1>5, <1>8, <3>1, PutIs, SideIsField
    <3> QED
      BY <1>1, <1>8, <2>1, <2>3, <3>2, FieldTypes, <1>5
  <2> QED
    BY <2>2, <2>3
<1> HIDE DEF c
<1>10. /\ Shaped(d) /\ SameRest(b, d) /\ d.p = c.p /\ d[s] = [b[s] EXCEPT ![y] = x] /\ d[o] = b[o]
  BY <1>1, <1>5, <1>9, PutIs, SideIsField DEF SameRest
<1> HIDE DEF d
<1>11. /\ Shaped(u) /\ SameRest(b, u) /\ u.p = [c.p EXCEPT ![x] = y]
       /\ u[s] = [b[s] EXCEPT ![y] = x] /\ u[o] = b[o]
  BY <1>1, <1>5, <1>10, PutIs, SideIsField DEF SameRest
<1>12. Rotate(t, x, s) = u
  BY RotateParts DEF u, d, c, b, a, t1, y, inner, q
<1> HIDE DEF u
<1>13. ASSUME NEW n \in Pointers
       PROVE  u.p[n] = IF n = x THEN y
                   ELSE IF n = y THEN q
                   ELSE IF n = inner /\ n # NIL_NODE THEN x ELSE t.p[n]
  <2>1. u.p[n] = IF n = x THEN y ELSE c.p[n]
    BY <1>1, <1>5, <1>9, <1>11, FieldTypes
  <2> QED
    BY <1>1, <1>9, <2>1
<1>14. ASSUME NEW n \in Pointers, NEW f \in Sides
       PROVE  u[f][n] = IF n = x /\ f = o THEN inner ELSE IF n = y /\ f = s THEN x
                    ELSE IF t[f][n] = x THEN y ELSE t[f][n]
  <2>1. u[f][n] = IF n = y /\ f = s THEN x ELSE b[f][n]
    BY <1>1, <1>5, <1>8, <1>11, FieldTypes
  <2> QED
    BY <1>1, <1>5, <1>8, <2>1
<1> QED
  BY <1>8, <1>11, <1>12, <1>13, <1>14 DEF Turned, SameRest, y, inner, q
-----------------------------------------------------------------------------
(* After a rotation there is below x what there was below y on side s, and below
   y what there was below x. *)
RotateBelow(t, g, x, y, s) ==
    [g EXCEPT ![y] = g[x], ![x] = {m \in g[x] : Before(s, t.i[m], t.i[y])}]

(* The nodes at a rotation. *)
LEMMA RotateNodes ==
  ASSUME NEW t, NEW g, Search(t, g), NEW x \in InTree(t), NEW s \in Sides, NEW y,
         y = t[Other(s)][x], y # NIL_NODE
  PROVE  /\ x \in Pointers /\ x # NIL_NODE /\ y \in InTree(t) /\ y \in Pointers /\ y # x
         /\ t.p[y] = x /\ y # t.root /\ y \in g[x] /\ x \notin g[y]
         /\ t[s][x] # y /\ t[s][x] # x /\ t[s][x] \in Pointers
         /\ t[s][y] # x /\ t[s][y] # y /\ t[s][y] \in Pointers
         /\ t[Other(s)][y] # x /\ t[Other(s)][y] # y /\ t[Other(s)][y] \in Pointers
         /\ t.p[x] # x /\ t.p[x] # y /\ t.p[x] \in Pointers
         /\ NIL_NODE \in Pointers
<1>1. Other(s) \in Sides /\ Other(Other(s)) = s /\ x \in Pointers /\ x # NIL_NODE /\ NIL_NODE \in Pointers
  BY SideTypes, KeyTypes DEF Search, Pointers
<1>2. y \in InTree(t) /\ t.p[y] = x /\ y # x /\ y \in g[x] /\ x \notin g[y] /\ t[s][x] # y
  BY <1>1, ChildTypes
<1>3. y \in Pointers /\ y # NIL_NODE
  BY <1>2, KeyTypes DEF Search
<1>4. y # t.root
  BY <1>1, <1>2 DEF Search, Linked
<1>5. ASSUME NEW f \in Sides
      PROVE  t[f][y] # x /\ t[f][y] # y /\ t[f][y] \in Pointers /\ t[f][x] # x /\ t[f][x] \in Pointers
  BY <1>1, <1>2, <1>3, ChildTypes, BelowTypes
<1>6. t.p[x] # x /\ t.p[x] # y /\ t.p[x] \in Pointers
  <2>1. CASE x = t.root
    BY <1>1, <1>3, <2>1 DEF Search, Linked
  <2>2. CASE x # t.root
    <3>1. t.p[x] \in InTree(t) /\ t.p[x] # x /\ t.p[x] \notin g[x]
      BY <2>2, ParentOf
    <3> QED
      BY <1>2, <3>1, KeyTypes DEF Search
  <2> QED
    BY <2>1, <2>2
<1> QED
  BY <1>1, <1>2, <1>3, <1>4, <1>5, <1>6

LEMMA RotateLinked ==
  ASSUME NEW t, NEW g, Search(t, g), NEW x \in InTree(t), NEW s \in Sides, NEW y,
         y = t[Other(s)][x], y # NIL_NODE, NEW u, Turned(t, u, x, y, s)
  PROVE  Linked(u) /\ InTree(u) = InTree(t)
<1> DEFINE o == Other(s)
           inner == t[s][y]
<1>1. InTree(u) = InTree(t)
  BY DEF Turned, InTree
<1>2. /\ x \in Pointers /\ x # NIL_NODE /\ y \in InTree(t) /\ y \in Pointers /\ y # x
      /\ t.p[y] = x /\ y # t.root
      /\ t[s][x] # y /\ t[s][x] # x /\ t[s][x] \in Pointers
      /\ inner # x /\ inner # y /\ inner \in Pointers
      /\ t[o][y] # x /\ t[o][y] # y
      /\ t.p[x] # x /\ t.p[x] # y /\ t.p[x] \in Pointers
      /\ NIL_NODE \in Pointers
  BY RotateNodes
<1>3. s # o /\ o \in Sides /\ \A f \in Sides : f = s \/ f = o
  BY SideIsField
<1>4. PICK e \in Sides :
         /\ t.p[x] = NIL_NODE <=> t.root = x
         /\ t.p[x] # NIL_NODE => t[e][t.p[x]] = x
         /\ \A n \in Pointers, f \in Sides : t[f][n] = x <=> t.p[x] # NIL_NODE /\ n = t.p[x] /\ f = e
  BY ChildOf
<1>5. \A n \in InTree(t) : n \in Pointers /\ n # NIL_NODE
  BY KeyTypes DEF Search
<1>6. \A n \in Pointers, f \in Sides :
         /\ t[f][n] \in Pointers
         /\ t[f][n] # NIL_NODE => n \in InTree(t) /\ t[f][n] \in InTree(t) /\ t.p[t[f][n]] = n
  BY NilLinks, SideTypes DEF Search
<1>7. \A n \in Pointers, f \in Sides :
         u[f][n] = IF n = x /\ f = o THEN inner ELSE IF n = y /\ f = s THEN x
                    ELSE IF t[f][n] = x THEN y ELSE t[f][n]
  BY DEF Turned
<1>8. \A n \in Pointers :
         u.p[n] = IF n = x THEN y ELSE IF n = y THEN t.p[x]
                   ELSE IF n = inner /\ n # NIL_NODE THEN x ELSE t.p[n]
  BY DEF Turned
<1>9. y = t[o][x] /\ u.root = IF t.root = x THEN y ELSE t.root
  BY DEF Turned
<1> HIDE DEF o, inner
<1>10. u.root # NIL_NODE => u.root \in InTree(t) /\ u.p[u.root] = NIL_NODE
  <2>1. CASE t.root = x
    BY <1>2, <1>4, <1>8, <1>9, <2>1
  <2>2. CASE t.root # x
    <3> SUFFICES ASSUME t.root # NIL_NODE
                 PROVE  t.root \in InTree(t) /\ u.p[t.root] = NIL_NODE
      BY <1>9, <2>2
    <3>1. t.root \in InTree(t) /\ t.p[t.root] = NIL_NODE /\ t.root \in Pointers
      BY RootTypes
    <3>2. t.root # inner
      <4>1. inner # NIL_NODE => t.p[inner] = y
        BY <1>2, <1>6 DEF inner
      <4> QED
        BY <1>2, <1>5, <3>1, <4>1
    <3> QED
      BY <1>2, <1>8, <2>2, <3>1, <3>2
  <2> QED
    BY <2>1, <2>2
<1>11. ASSUME NEW n \in InTree(t), NEW f \in Sides, u[f][n] # NIL_NODE
       PROVE  u[f][n] \in InTree(t) /\ u.p[u[f][n]] = n
  <2>0. n \in Pointers
    BY <1>5
  <2>1. CASE n = x /\ f = o
    <3>1. u[f][n] = inner
      BY <1>2, <1>7, <2>1
    <3> QED
      BY <1>2, <1>6, <1>8, <1>11, <2>1, <3>1 DEF inner
  <2>2. CASE n = y /\ f = s
    BY <1>2, <1>7, <1>8, <2>2
  <2>3. CASE ~(n = x /\ f = o) /\ ~(n = y /\ f = s) /\ t[f][n] = x
    <3>1. n = t.p[x] /\ u[f][n] = y
      BY <1>4, <1>7, <2>0, <2>3
    <3> QED
      BY <1>2, <1>8, <3>1
  <2>4. CASE ~(n = x /\ f = o) /\ ~(n = y /\ f = s) /\ t[f][n] # x
    <3> DEFINE c == t[f][n]
    <3>1. u[f][n] = c /\ c # NIL_NODE /\ c \in InTree(t) /\ t.p[c] = n /\ c \in Pointers
      BY <1>6, <1>7, <1>11, <2>0, <2>4
    <3>2. c # y
      <4> SUFFICES ASSUME c = y
                   PROVE  FALSE
        OBVIOUS
      <4>1. n = x /\ f = s
        BY <1>2, <1>3, <2>4, <3>1
      <4> QED
        BY <1>2, <4>1
    <3>3. c # inner
      <4> SUFFICES ASSUME c = inner
                   PROVE  FALSE
        OBVIOUS
      <4>1. t.p[inner] = y /\ t[s][y] = inner
        BY <1>2, <1>6, <3>1 DEF inner
      <4>2. n = y /\ f = o
        BY <1>3, <2>4, <3>1, <4>1
      <4>3. t[o][y] # t[s][y]
        BY <1>2, <1>3, <3>1, <4>1, ChildTypes DEF o
      <4> QED
        BY <4>1, <4>2, <4>3
    <3> QED
      BY <1>8, <2>4, <3>1, <3>2, <3>3
  <2> QED
    BY <2>1, <2>2, <2>3, <2>4
<1>12. ASSUME NEW n \in InTree(t), n # u.root
       PROVE  u.p[n] \in InTree(t) /\ \E f \in Sides : u[f][u.p[n]] = n
  <2>0. n \in Pointers /\ n # NIL_NODE
    BY <1>5
  <2>1. CASE n = x
    BY <1>2, <1>7, <1>8, <2>1
  <2>2. CASE n = y
    <3>1. t.root # x /\ t.p[x] # NIL_NODE /\ t[e][t.p[x]] = x
      BY <1>4, <1>9, <1>12, <2>2
    <3>2. t.p[x] \in InTree(t)
      BY <3>1, ParentOf
    <3>3. u[e][t.p[x]] = y
      BY <1>2, <1>7, <3>1
    <3> QED
      BY <1>2, <1>8, <2>2, <3>2, <3>3
  <2>3. CASE n # x /\ n # y /\ n = inner
    BY <1>2, <1>3, <1>7, <1>8, <2>0, <2>3
  <2>4. CASE n # x /\ n # y /\ n # inner
    <3>1. n # t.root
      BY <1>9, <1>12, <2>4
    <3> DEFINE q == t.p[n]
    <3>2. q \in InTree(t) /\ q \in Pointers /\ u.p[n] = q
      BY <1>5, <1>8, <2>0, <2>4, <3>1, ParentOf
    <3>3. PICK f \in Sides : t[f][q] = n
      BY <3>1, ParentOf
    <3>4. ~(q = x /\ f = o) /\ ~(q = y /\ f = s)
      BY <1>9, <2>4, <3>3 DEF inner
    <3>5. u[f][q] = n
      BY <1>7, <2>4, <3>2, <3>3, <3>4
    <3> QED
      BY <3>2, <3>5
  <2> QED
    BY <2>1, <2>2, <2>3, <2>4
<1>13. ASSUME NEW n \in Pointers, NEW f \in Sides, n \notin InTree(t)
       PROVE  u[f][n] = NIL_NODE
  <2>1. t[f][n] = NIL_NODE
    BY <1>6, <1>13
  <2> QED
    BY <1>2, <1>7, <1>13, <2>1
<1> QED
  BY <1>1, <1>10, <1>11, <1>12, <1>13 DEF Linked

LEMMA RotateSearch ==
  ASSUME NEW t, NEW g, Search(t, g), NEW x \in InTree(t), NEW s \in Sides, NEW y,
         y = t[Other(s)][x], y # NIL_NODE, NEW u, Turned(t, u, x, y, s)
  PROVE  Search(u, RotateBelow(t, g, x, y, s)) /\ InTree(u) = InTree(t)
<1> DEFINE o == Other(s)
           inner == t[s][y]
           k == RotateBelow(t, g, x, y, s)
<1>1. Linked(u) /\ InTree(u) = InTree(t) /\ u.i = t.i /\ Shaped(u)
  BY RotateLinked DEF Turned
<1>2. Distinct(u)
  BY <1>1 DEF Distinct, Search
<1>3. /\ x \in Pointers /\ x # NIL_NODE /\ y \in InTree(t) /\ y \in Pointers /\ y # x
      /\ t.p[y] = x /\ y # t.root /\ y \in g[x] /\ x \notin g[y]
      /\ t[s][x] # y /\ t[s][x] # x /\ t[s][x] \in Pointers
      /\ inner # x /\ inner # y /\ inner \in Pointers
      /\ t[o][y] # x /\ t[o][y] # y /\ t[o][y] \in Pointers
      /\ NIL_NODE \in Pointers
  BY RotateNodes
<1>4. s # o /\ o \in Sides /\ \A f \in Sides : f = s \/ f = o
  BY SideIsField
<1>5. /\ g \in [Pointers -> SUBSET InTree(t)] /\ g[NIL_NODE] = {} /\ g[t.root] = InTree(t)
      /\ \A n \in InTree(t) : n \in g[n]
      /\ \A n \in InTree(t), f \in Sides :
            g[t[f][n]] = {m \in g[n] : Before(f, t.i[m], t.i[n])}
  BY DEF Search, Below
<1>6. /\ k \in [Pointers -> SUBSET InTree(t)]
      /\ \A n \in Pointers : k[n] = IF n = x THEN {m \in g[x] : Before(s, t.i[m], t.i[y])}
                                    ELSE IF n = y THEN g[x] ELSE g[n]
  BY <1>3, <1>5 DEF RotateBelow
<1> HIDE DEF k
<1>7. \A n \in Pointers, f \in Sides :
         u[f][n] = IF n = x /\ f = o THEN inner ELSE IF n = y /\ f = s THEN x
                    ELSE IF t[f][n] = x THEN y ELSE t[f][n]
  BY DEF Turned
<1>8. y = t[o][x] /\ u.root = IF t.root = x THEN y ELSE t.root
  BY DEF Turned
<1>9. g[y] = {m \in g[x] : Before(o, t.i[m], t.i[x])} /\ g[inner] = {m \in g[y] : Before(s, t.i[m], t.i[y])}
  BY <1>3, <1>4, <1>5, <1>8
<1> HIDE DEF o, inner
<1>10. Before(o, t.i[y], t.i[x]) /\ Before(s, t.i[x], t.i[y]) /\ ~Before(s, t.i[y], t.i[x])
  <2>1. Before(o, t.i[y], t.i[x])
    BY <1>3, <1>5, <1>9
  <2> QED
    BY <1>3, <1>4, <2>1, OneSide DEF Search, Before, Other, Sides, o
<1>11. \A m \in InTree(t) : t.i[m] \in Nat
  BY KeyTypes DEF Search
<1>12. g[t.root] = InTree(t) /\ k[u.root] = InTree(t) /\ k[NIL_NODE] = {}
  BY <1>3, <1>5, <1>6, <1>8, RootTypes
<1>13. ASSUME NEW n \in InTree(t)
       PROVE  n \in k[n]
  <2>1. n \in Pointers
    BY KeyTypes DEF Search
  <2>2. x \in k[x]
    BY <1>3, <1>5, <1>6, <1>10
  <2> QED
    BY <1>3, <1>5, <1>6, <2>1, <2>2
<1>14. ASSUME NEW n \in InTree(t), NEW f \in Sides
       PROVE  k[u[f][n]] = {m \in k[n] : Before(f, t.i[m], t.i[n])}
  <2>0. n \in Pointers /\ t[f][n] \in Pointers /\ g[n] \subseteq InTree(t)
    BY KeyTypes, ChildTypes, BelowTypes DEF Search
  <2>00. g[x] \subseteq InTree(t) /\ \A m \in g[x] : t.i[m] \in Nat
    BY <1>11, BelowTypes
  <2>01. t.i[x] \in Nat /\ t.i[y] \in Nat
    BY <1>3, <1>11
  <2>1. CASE n = x /\ f = o
    <3>1. u[f][n] = inner /\ k[inner] = g[inner]
      BY <1>3, <1>6, <1>7, <2>1
    <3>2. ASSUME NEW m \in g[x]
          PROVE  m \in g[inner] <=> Before(s, t.i[m], t.i[y]) /\ Before(o, t.i[m], t.i[x])
      BY <1>9
    <3>3. k[x] = {m \in g[x] : Before(s, t.i[m], t.i[y])}
      BY <1>3, <1>6
    <3> QED
      BY <1>9, <2>1, <3>1, <3>2, <3>3
  <2>2. CASE n = y /\ f = s
    BY <1>3, <1>6, <1>7, <2>2
  <2>3. CASE n = x /\ f = s
    <3>1. u[f][n] = t[s][x] /\ k[u[f][n]] = g[t[s][x]]
      BY <1>3, <1>4, <1>6, <1>7, <2>3
    <3>2. \A m \in g[x] : Before(s, t.i[m], t.i[x]) => Before(s, t.i[m], t.i[y])
      BY <1>10, <2>00, <2>01, Trans
    <3>3. k[x] = {m \in g[x] : Before(s, t.i[m], t.i[y])}
      BY <1>3, <1>6
    <3> QED
      BY <1>5, <2>3, <3>1, <3>2, <3>3
  <2>4. CASE n = y /\ f = o
    <3>1. u[f][n] = t[o][y] /\ k[u[f][n]] = g[t[o][y]]
      BY <1>3, <1>4, <1>6, <1>7, <2>4
    <3>2. \A m \in g[x] : Before(o, t.i[m], t.i[y]) => Before(o, t.i[m], t.i[x])
      BY <1>4, <1>10, <2>00, <2>01, Trans
    <3>3. k[y] = g[x]
      BY <1>3, <1>6
    <3>4. g[t[o][y]] = {m \in g[y] : Before(o, t.i[m], t.i[y])}
      BY <1>3, <1>4, <1>5
    <3> QED
      BY <1>9, <2>4, <3>1, <3>2, <3>3, <3>4
  <2>5. CASE n # x /\ n # y
    <3>1. g[t[f][n]] = {m \in g[n] : Before(f, t.i[m], t.i[n])} /\ k[n] = g[n]
      BY <1>5, <1>6, <2>0, <2>5
    <3>2. CASE t[f][n] = x
      BY <1>3, <1>6, <1>7, <2>0, <2>5, <3>1, <3>2
    <3>3. CASE t[f][n] # x
      <4>1. t[f][n] # y
        BY <1>3, <2>5, ChildTypes
      <4> QED
        BY <1>6, <1>7, <2>0, <2>5, <3>1, <3>3, <4>1
    <3> QED
      BY <3>2, <3>3
  <2> QED
    BY <1>4, <2>1, <2>2, <2>3, <2>4, <2>5
<1> QED
  BY <1>1, <1>2, <1>6, <1>12, <1>13, <1>14 DEF Search, Below, k
-----------------------------------------------------------------------------
(* What painting comes to. *)
Paint(t, n, colour) == [t EXCEPT !.c[n] = colour]

SameTree(t, u) == u.i = t.i /\ u.root = t.root /\ \A f \in Fields : u[f] = t[f]

LEMMA PaintIs ==
  ASSUME NEW t, Shaped(t), NEW n \in Pointers, NEW colour \in {"red", "black"},
         n = NIL_NODE => colour = "black"
  PROVE  LET u == Paint(t, n, colour) IN
         /\ Shaped(u) /\ SameTree(t, u)
         /\ u.c \in [Pointers -> {"red", "black"}]
         /\ \A m \in Pointers : u.c[m] = IF m = n THEN colour ELSE t.c[m]
BY DEF Shaped, Fields, Paint, SameTree, Pointers

LEMMA PaintNames ==
  ASSUME NEW t, NEW n
  PROVE  Blacken(t, n) = Paint(t, n, "black") /\ Redden(t, n) = Paint(t, n, "red")
BY DEF Blacken, Redden, Paint

LEMMA SameTrans ==
  ASSUME NEW t, NEW u, NEW v, SameTree(t, u), SameTree(u, v)
  PROVE  SameTree(t, v)
BY DEF SameTree

(* The order of the keys does not depend on the colours. *)
LEMMA SameSearch ==
  ASSUME NEW t, NEW u, NEW g, Search(t, g), Shaped(u), SameTree(t, u)
  PROVE  Search(u, g) /\ InTree(u) = InTree(t)
<1>1. InTree(u) = InTree(t)
  BY DEF SameTree, InTree
<1>2. \A s \in Sides : u[s] = t[s]
  BY SideIsField DEF SameTree
<1>3. u.p = t.p
  BY DEF SameTree, Fields
<1>4. Linked(u)
  BY <1>1, <1>2, <1>3 DEF SameTree, Search, Linked
<1>5. Below(u, g)
  BY <1>1, <1>2 DEF SameTree, Search, Below
<1>6. Distinct(u)
  BY <1>1 DEF SameTree, Search, Distinct
<1> QED
  BY <1>1, <1>4, <1>5, <1>6 DEF Search

(* The side SideOf() tells is the side. *)
LEMMA SideOfIs ==
  ASSUME NEW t, NEW e \in Sides, NEW n, t[e][t.p[n]] = n, t[Other(e)][t.p[n]] # n
  PROVE  SideOf(t, n) = e
BY DEF SideOf, Sides, Other

LEMMA SideFound ==
  ASSUME NEW t, NEW g, Search(t, g), NEW n \in InTree(t), n # t.root
  PROVE  /\ SideOf(t, n) \in Sides /\ t[SideOf(t, n)][t.p[n]] = n
         /\ \A m \in Pointers, f \in Sides : t[f][m] = n <=> m = t.p[n] /\ f = SideOf(t, n)
<1>1. t.p[n] # NIL_NODE
  BY ChildOf
<1>2. PICK e \in Sides :
         /\ t.p[n] # NIL_NODE => t[e][t.p[n]] = n /\ t[Other(e)][t.p[n]] # n
         /\ \A m \in Pointers, f \in Sides : t[f][m] = n <=> t.p[n] # NIL_NODE /\ m = t.p[n] /\ f = e
  BY ChildOf
<1>3. SideOf(t, n) = e
  BY <1>1, <1>2, SideOfIs
<1> QED
  BY <1>1, <1>2, <1>3
-----------------------------------------------------------------------------
(* h counts the black nodes on every way down from a node, the node too; the way
   down on side e of q has one less. *)
Black(t, n) == IF t.c[n] = "black" THEN 1 ELSE 0
Missing(n, s, q, e) == IF n = q /\ s = e THEN 1 ELSE 0

CountedAt(t, h, q, e, n, s) == h[n] = h[t[s][n]] + Black(t, n) + Missing(n, s, q, e)

Counted(t, h, q, e) ==
    /\ h \in [Pointers -> Nat] /\ h[NIL_NODE] = 0
    /\ \A n \in InTree(t), s \in Sides : CountedAt(t, h, q, e, n, s)

LEMMA RotateCounted ==
  ASSUME NEW t, NEW g, Search(t, g), NEW x \in InTree(t), NEW s \in Sides, NEW y,
         y = t[Other(s)][x], y # NIL_NODE, NEW u, Turned(t, u, x, y, s),
         NEW q, NEW e, NEW h \in [Pointers -> Nat], h[NIL_NODE] = 0,
         \A n \in InTree(t) \ {x, y}, f \in Sides : CountedAt(t, h, q, e, n, f),
         NEW k \in Nat,
         k = h[t[s][x]] + Black(t, x) + Missing(x, s, q, e),
         k = h[t[s][y]] + Black(t, x) + Missing(x, Other(s), q, e),
         h[x] = k + Black(t, y) + Missing(y, s, q, e),
         h[x] = h[t[Other(s)][y]] + Black(t, y) + Missing(y, Other(s), q, e)
  PROVE  Counted(u, [h EXCEPT ![y] = h[x], ![x] = k], q, e)
<1> DEFINE o == Other(s)
           inner == t[s][y]
           i == [h EXCEPT ![y] = h[x], ![x] = k]
<1>1. /\ x \in Pointers /\ x # NIL_NODE /\ y \in InTree(t) /\ y \in Pointers /\ y # x
      /\ t.p[y] = x
      /\ t[s][x] # y /\ t[s][x] # x /\ t[s][x] \in Pointers
      /\ inner # x /\ inner # y /\ inner \in Pointers
      /\ t[o][y] # x /\ t[o][y] # y /\ t[o][y] \in Pointers
      /\ NIL_NODE \in Pointers
  BY RotateNodes
<1>2. s # o /\ o \in Sides /\ \A f \in Sides : f = s \/ f = o
  BY SideIsField
<1>3. /\ i \in [Pointers -> Nat]
      /\ \A n \in Pointers : i[n] = IF n = x THEN k ELSE IF n = y THEN h[x] ELSE h[n]
  BY <1>1
<1> HIDE DEF i
<1>4. \A n \in Pointers, f \in Sides :
         u[f][n] = IF n = x /\ f = o THEN inner ELSE IF n = y /\ f = s THEN x
                    ELSE IF t[f][n] = x THEN y ELSE t[f][n]
  BY DEF Turned
<1>5. y = t[o][x] /\ InTree(u) = InTree(t)
  BY RotateLinked
<1>6. \A n \in Pointers : Black(u, n) = Black(t, n) /\ Black(t, n) \in Nat
  BY DEF Turned, Black
<1>7. /\ k = h[t[s][x]] + Black(t, x) + Missing(x, s, q, e)
      /\ k = h[inner] + Black(t, x) + Missing(x, o, q, e)
      /\ h[x] = k + Black(t, y) + Missing(y, s, q, e)
      /\ h[x] = h[t[o][y]] + Black(t, y) + Missing(y, o, q, e)
  OBVIOUS
<1> HIDE DEF o, inner
<1>8. ASSUME NEW n \in InTree(t), NEW f \in Sides
      PROVE  CountedAt(u, i, q, e, n, f)
  <2>1. n \in Pointers /\ t[f][n] \in Pointers /\ n # NIL_NODE
    BY KeyTypes, ChildTypes DEF Search
  <2>2. SUFFICES i[n] = i[u[f][n]] + Black(t, n) + Missing(n, f, q, e)
    BY <1>6, <2>1 DEF CountedAt
  <2>3. CASE n = x /\ f = o
    <3>1. u[o][x] = inner /\ i[x] = k /\ i[inner] = h[inner]
      BY <1>1, <1>2, <1>3, <1>4
    <3>2. k = h[inner] + Black(t, x) + Missing(x, o, q, e)
      BY <1>7
    <3> QED
      BY <2>3, <3>1, <3>2
  <2>4. CASE n = x /\ f = s
    <3>1. t[s][x] # y /\ t[s][x] # x /\ t[s][x] \in Pointers /\ s # o /\ x \in Pointers /\ y # x
      BY <1>1, <1>2
    <3>2. u[s][x] = t[s][x]
      BY <1>4, <3>1
    <3>3. i[x] = k /\ i[t[s][x]] = h[t[s][x]]
      BY <1>3, <3>1
    <3>4. k = h[t[s][x]] + Black(t, x) + Missing(x, s, q, e)
      BY <1>7
    <3> QED
      BY <2>4, <3>2, <3>3, <3>4
  <2>5. CASE n = y /\ f = s
    <3>1. u[s][y] = x
      BY <1>1, <1>4
    <3>2. i[y] = h[x] /\ i[x] = k
      BY <1>1, <1>3
    <3>3. h[x] = k + Black(t, y) + Missing(y, s, q, e)
      BY <1>7
    <3> QED
      BY <2>5, <3>1, <3>2, <3>3
  <2>6. CASE n = y /\ f = o
    <3>1. u[o][y] = t[o][y]
      BY <1>1, <1>2, <1>4
    <3>2. i[y] = h[x] /\ i[t[o][y]] = h[t[o][y]]
      BY <1>1, <1>3
    <3> QED
      BY <1>7, <2>6, <3>1, <3>2
  <2>7. CASE n # x /\ n # y
    <3>1. h[n] = h[t[f][n]] + Black(t, n) + Missing(n, f, q, e)
      BY <2>7 DEF CountedAt
    <3>2. t[f][n] # y
      BY <1>1, <2>7, ChildTypes, KeyTypes DEF Search
    <3> QED
      BY <1>1, <1>3, <1>4, <2>1, <2>7, <3>1, <3>2
  <2> QED
    BY <1>2, <2>3, <2>4, <2>5, <2>6, <2>7
<1> QED
  BY <1>1, <1>3, <1>5, <1>8 DEF Counted, i

(* Nobody has more black nodes below than root. *)
LEMMA RootHighest ==
  ASSUME NEW t, NEW g, Search(t, g), NEW h, NEW q, NEW e, Counted(t, h, q, e), NEW n \in Pointers,
         n \in InTree(t) \/ n = NIL_NODE
  PROVE  h[n] \in Nat /\ h[t.root] \in Nat /\ h[n] <= h[t.root]
<1> DEFINE S == {m \in InTree(t) : ~(h[m] <= h[t.root])}
<1>1. h \in [Pointers -> Nat] /\ h[NIL_NODE] = 0 /\ t.root \in Pointers
  BY RootTypes DEF Counted
<1>2. \A m \in InTree(t) : m \in Pointers
  BY KeyTypes DEF Search
<1>3. ASSUME S # {}
      PROVE  FALSE
  <2>1. S \subseteq InTree(t)
    OBVIOUS
  <2>2. PICK m \in S : \A b \in S : g[m] \subseteq g[b] => g[b] = g[m]
    <3> HIDE DEF S
    <3> QED
      BY <1>3, <2>1, Highest
  <2>3. m # t.root /\ m \in InTree(t)
    BY <1>1, <2>2
  <2> DEFINE b == t.p[m]
  <2>4. b \in InTree(t) /\ b \notin g[m] /\ g[m] \subseteq g[b] /\ b \in g[b]
    BY <2>3, ParentOf, BelowTypes
  <2>5. PICK s \in Sides : t[s][b] = m
    BY <2>3, ParentOf
  <2>6. h[b] = h[m] + Black(t, b) + Missing(b, s, q, e)
    BY <2>4, <2>5 DEF Counted, CountedAt
  <2>7. b \notin S
    BY <2>2, <2>4
  <2> QED
    BY <1>1, <1>2, <2>2, <2>3, <2>4, <2>6, <2>7 DEF Black, Missing
<1> QED
  BY <1>1, <1>3
-----------------------------------------------------------------------------
(* A red node has a black parent, but for a and the children of b. *)
RedsApart(t, a, b) ==
    \A n \in InTree(t) : t.c[n] = "red" => t.c[t.p[n]] = "black" \/ n = a \/ t.p[n] = b

(* While rb_insert_fixup() is at a. *)
Inserting(t, a, h) ==
    /\ a \in InTree(t) /\ t.c[a] = "red"
    /\ Counted(t, h, NIL_NODE, "l")
    /\ RedsApart(t, a, NIL_NODE)
    /\ t.c[t.root] = "red" => t.root = a

LEMMA Colours ==
  ASSUME NEW t, Shaped(t), NEW n \in Pointers
  PROVE  /\ t.c[n] \in {"red", "black"} /\ t.c[NIL_NODE] = "black" /\ t.c \in [Pointers -> {"red", "black"}]
         /\ IsRed(t, n) <=> t.c[n] = "red" /\ n # NIL_NODE
         /\ IsRed(t, n) <=> t.c[n] = "red"
         /\ ~IsRed(t, n) <=> t.c[n] = "black"
         /\ Black(t, n) = IF t.c[n] = "red" THEN 0 ELSE 1
BY DEF Shaped, IsRed, Black

LEMMA NoneMissing ==
  ASSUME NEW t, Shaped(t), NEW n \in InTree(t), NEW s, NEW e
  PROVE  Missing(n, s, NIL_NODE, e) = 0
BY KeyTypes DEF Missing

(* The nodes at a turn of rb_insert_fixup(): z, its parent and its grandparent,
   on whose side s the parent is, and y. *)
InsertTurnAt(t, a, b, d, s, y) ==
    /\ b = t.p[a] /\ d = t.p[b] /\ s = SideOf(t, b) /\ y = t[Other(s)][d]
    /\ t.c[b] = "red"

LEMMA InsertNodes ==
  ASSUME NEW t, NEW g, Search(t, g), NEW a, NEW h, Inserting(t, a, h),
         NEW b, NEW d, NEW s, NEW y, InsertTurnAt(t, a, b, d, s, y)
  PROVE  /\ b \in InTree(t) /\ b # t.root /\ d \in InTree(t) /\ t.c[d] = "black"
         /\ t.p[a] = b /\ t.p[b] = d /\ t[Other(s)][d] = y /\ t.c[b] = "red" /\ t.c[a] = "red"
         /\ a # t.root /\ a # b /\ d # a /\ d # b /\ y # b /\ y # d /\ y # a
         /\ a \in Pointers /\ b \in Pointers /\ d \in Pointers /\ y \in Pointers
         /\ a # NIL_NODE /\ b # NIL_NODE /\ d # NIL_NODE
         /\ s \in Sides /\ t[s][d] = b
         /\ \A m \in Pointers, f \in Sides : t[f][m] = b <=> m = d /\ f = s
         /\ y # NIL_NODE => y \in InTree(t) /\ t.p[y] = d
         /\ t.p[d] \in Pointers /\ t.p[d] # d /\ t.p[d] # b /\ t.p[d] # a
<1> USE DEF InsertTurnAt
<1>1. Shaped(t) /\ a \in InTree(t) /\ t.c[a] = "red" /\ RedsApart(t, a, NIL_NODE)
      /\ (t.c[t.root] = "red" => t.root = a)
  BY DEF Search, Inserting
<1>2. a \in Pointers /\ a # NIL_NODE
  BY <1>1, KeyTypes
<1>3. a # t.root
  <2>1. t.c[NIL_NODE] = "black"
    BY <1>1, <1>2, Colours
  <2> QED
    BY <1>1, <2>1, RootTypes
<1>4. b \in InTree(t) /\ b # a /\ a \in g[b]
  BY <1>1, <1>3, ParentOf
<1>5. b # t.root
  BY <1>1, <1>4
<1>6. d \in InTree(t) /\ d # b /\ b \in g[d] /\ g[b] \subseteq g[d] /\ d \notin g[b]
  BY <1>4, <1>5, ParentOf
<1>7. d # a
  BY <1>4, <1>6
<1>8. b \in Pointers /\ d \in Pointers /\ b # NIL_NODE /\ d # NIL_NODE
  BY <1>1, <1>4, <1>6, KeyTypes
<1>9. t.c[d] = "black"
  BY <1>1, <1>4, <1>8 DEF RedsApart
<1>10. /\ s \in Sides /\ t[s][d] = b
       /\ \A m \in Pointers, f \in Sides : t[f][m] = b <=> m = d /\ f = s
  BY <1>4, <1>5, SideFound
<1>11. Other(s) \in Sides /\ Other(s) # s
  BY <1>10, SideIsField
<1>12. y \in Pointers /\ y # b /\ y # d /\ (y # NIL_NODE => y \in InTree(t) /\ t.p[y] = d /\ y \in g[d])
  BY <1>6, <1>8, <1>10, <1>11, ChildTypes, BelowTypes
<1>13. y # a
  BY <1>2, <1>6, <1>12
<1>14. t.p[d] \in Pointers /\ t.p[d] # d /\ t.p[d] # b /\ t.p[d] # a
  <2>1. CASE d = t.root
    BY <1>2, <1>8, <2>1, RootTypes DEF Pointers
  <2>2. CASE d # t.root
    <3>1. t.p[d] \in InTree(t) /\ t.p[d] \notin g[d] /\ t.p[d] # d
      BY <1>6, <2>2, ParentOf
    <3> QED
      BY <1>1, <1>4, <1>6, <3>1, KeyTypes
  <2> QED
    BY <2>1, <2>2
<1> QED
  BY <1>1, <1>2, <1>3, <1>4, <1>5, <1>6, <1>7, <1>8, <1>9, <1>10, <1>12, <1>13, <1>14

(* Three nodes of other colours. *)
Recoloured(t, u, y, b, d) ==
    /\ Shaped(u) /\ SameTree(t, u)
    /\ \A m \in Pointers :
          u.c[m] = IF m = d THEN "red" ELSE IF m = b \/ m = y THEN "black" ELSE t.c[m]

LEMMA RecolourIs ==
  ASSUME NEW t, Shaped(t), NEW y \in Pointers, NEW b \in Pointers, NEW d \in Nodes, d # b, d # y
  PROVE  Recoloured(t, Redden(Blacken(Blacken(t, y), b), d), y, b, d)
<1> DEFINE t1 == Paint(t, y, "black")
           t2 == Paint(t1, b, "black")
           t3 == Paint(t2, d, "red")
<1>1. d \in Pointers /\ d # NIL_NODE
  BY NilApart DEF Pointers
<1>2. Shaped(t1) /\ SameTree(t, t1) /\ \A m \in Pointers : t1.c[m] = IF m = y THEN "black" ELSE t.c[m]
  BY PaintIs
<1>3. Redden(Blacken(Blacken(t, y), b), d) = t3
  BY PaintNames
<1> HIDE DEF t1
<1>4. Shaped(t2) /\ SameTree(t1, t2) /\ \A m \in Pointers : t2.c[m] = IF m = b THEN "black" ELSE t1.c[m]
  BY <1>2, PaintIs
<1> HIDE DEF t2
<1>5. Shaped(t3) /\ SameTree(t2, t3) /\ \A m \in Pointers : t3.c[m] = IF m = d THEN "red" ELSE t2.c[m]
  BY <1>1, <1>4, PaintIs
<1> HIDE DEF t3
<1>6. SameTree(t, t3)
  BY <1>2, <1>4, <1>5, SameTrans
<1> QED
  BY <1>2, <1>3, <1>4, <1>5, <1>6 DEF Recoloured

(* The uncle is red: z moves up two levels. *)
LEMMA RecolourKeeps ==
  ASSUME NEW t, NEW g, Search(t, g), NEW a, NEW h, Inserting(t, a, h),
         NEW b, NEW d, NEW s, NEW y, InsertTurnAt(t, a, b, d, s, y),
         t.c[y] = "red", NEW u, Recoloured(t, u, y, b, d)
  PROVE  /\ Search(u, g) /\ InTree(u) = InTree(t)
         /\ \E k : Inserting(u, d, k) /\ k[d] = h[a] + 1
<1> DEFINE o == Other(s)
<1>1. /\ b \in InTree(t) /\ b # t.root /\ d \in InTree(t) /\ t.c[d] = "black"
      /\ t.c[b] = "red" /\ t.c[a] = "red" /\ a # t.root
      /\ a # b /\ d # a /\ d # b /\ y # b /\ y # d /\ y # a
      /\ a \in Pointers /\ b \in Pointers /\ d \in Pointers /\ y \in Pointers
      /\ b # NIL_NODE /\ d # NIL_NODE /\ s \in Sides
  BY InsertNodes
<1>1a. t[s][d] = b /\ t[o][d] = y /\ t.p[a] = b /\ t.p[b] = d
  BY InsertNodes
<1>1b. Shaped(t) /\ t.c \in [Pointers -> {"red", "black"}] /\ t.c[NIL_NODE] = "black"
  BY <1>1, Colours DEF Search
<1>1c. y \in InTree(t) /\ t.p[y] = d /\ y # NIL_NODE
  <2>1. y # NIL_NODE
    BY <1>1b
  <2> QED
    BY <2>1, InsertNodes
<1>1d. a \in InTree(t) /\ \A f \in Sides : f = s \/ f = o
  BY <1>1, SideIsField DEF Inserting
<1> HIDE DEF o
<1>2. Shaped(u) /\ SameTree(t, u)
  BY DEF Recoloured
<1>3. \A m \in Pointers :
         u.c[m] = IF m = d THEN "red" ELSE IF m = b \/ m = y THEN "black" ELSE t.c[m]
  BY DEF Recoloured
<1>4. Search(u, g) /\ InTree(u) = InTree(t)
  BY <1>2, SameSearch
<1>5. u.root = t.root /\ u.p = t.p /\ \A f \in Sides : u[f] = t[f]
  BY <1>2, SideIsField DEF SameTree, Fields
<1>6. h \in [Pointers -> Nat] /\ h[NIL_NODE] = 0
  BY DEF Inserting, Counted
<1>7. ASSUME NEW n \in InTree(t), NEW f \in Sides
      PROVE  h[n] = h[t[f][n]] + Black(t, n)
  <2>1. Missing(n, f, NIL_NODE, "l") = 0
    BY <1>1b, NoneMissing
  <2>2. h[n] = h[t[f][n]] + Black(t, n) + Missing(n, f, NIL_NODE, "l")
    BY DEF Inserting, Counted, CountedAt
  <2>3. t[f][n] \in Pointers
    BY ChildTypes
  <2> QED
    BY <1>6, <2>1, <2>2, <2>3 DEF Black
<1> DEFINE k == [h EXCEPT ![b] = h[b] + 1, ![y] = h[y] + 1]
<1>8. /\ k \in [Pointers -> Nat] /\ k[b] = h[b] + 1 /\ k[y] = h[y] + 1
      /\ \A n \in Pointers : n # b /\ n # y => k[n] = h[n]
  BY <1>1, <1>6
<1> HIDE DEF k
<1>9. Black(t, b) = 0 /\ Black(t, y) = 0 /\ Black(t, d) = 1
  BY <1>1 DEF Black
<1>10. /\ Black(u, b) = 1 /\ Black(u, y) = 1 /\ Black(u, d) = 0
       /\ \A n \in Pointers : n # b /\ n # y /\ n # d => Black(u, n) = Black(t, n)
  BY <1>1, <1>3 DEF Black
<1>11. ASSUME NEW n \in InTree(t), NEW f \in Sides
       PROVE  k[n] = k[t[f][n]] + Black(u, n)
  <2>1. n \in Pointers /\ t[f][n] \in Pointers /\ n # NIL_NODE
    BY <1>1b, KeyTypes, ChildTypes
  <2>2. h[n] = h[t[f][n]] + Black(t, n)
    BY <1>7
  <2>3. t[f][n] = b \/ t[f][n] = y => n = d
    BY <1>1, <1>1a, <1>1c, ChildTypes
  <2>4. CASE n = d
    <3>1. t[f][d] = b \/ t[f][d] = y
      BY <1>1a, <1>1d
    <3>2. k[t[f][d]] = h[t[f][d]] + 1 /\ h[t[f][d]] \in Nat /\ k[d] = h[d]
      BY <1>1, <1>6, <1>8, <3>1
    <3> QED
      BY <1>9, <1>10, <2>2, <2>4, <3>2
  <2>5. CASE n # d
    <3>1. k[t[f][n]] = h[t[f][n]] /\ h[t[f][n]] \in Nat
      BY <1>6, <1>8, <2>1, <2>3, <2>5
    <3>2. CASE n = b \/ n = y
      BY <1>8, <1>9, <1>10, <2>2, <3>1, <3>2
    <3>3. CASE n # b /\ n # y
      BY <1>8, <1>10, <2>1, <2>2, <2>5, <3>1, <3>3
    <3> QED
      BY <3>2, <3>3
  <2> QED
    BY <2>4, <2>5
<1>12. Counted(u, k, NIL_NODE, "l")
  <2>1. k[NIL_NODE] = 0
    BY <1>1, <1>1c, <1>6, <1>8 DEF Pointers
  <2>2. ASSUME NEW n \in InTree(u), NEW f \in Sides
        PROVE  CountedAt(u, k, NIL_NODE, "l", n, f)
    <3>1. Missing(n, f, NIL_NODE, "l") = 0
      BY <1>2, NoneMissing
    <3>2. k[n] = k[u[f][n]] + Black(u, n) /\ n \in Pointers /\ u[f][n] \in Pointers
      BY <1>2, <1>4, <1>5, <1>11, KeyTypes, ChildTypes
    <3> QED
      BY <1>8, <3>1, <3>2 DEF CountedAt, Black
  <2> QED
    BY <1>8, <2>1, <2>2 DEF Counted
<1>13. ASSUME NEW n \in InTree(t), u.c[n] = "red", n # d
       PROVE  u.c[t.p[n]] = "black"
  <2>1. n \in Pointers /\ t.p[n] \in Pointers
    BY <1>1b, KeyTypes, ChildOf
  <2>2. t.c[n] = "red" /\ n # b /\ n # y
    BY <1>3, <1>13, <2>1
  <2>3. CASE n = a
    BY <1>1, <1>1a, <1>3, <2>3
  <2>4. CASE n # a
    <3>1. t.c[t.p[n]] = "black"
      BY <1>1b, <2>2, <2>4 DEF Inserting, RedsApart
    <3>2. ASSUME t.p[n] = d
          PROVE  FALSE
      <4>1. n # t.root
        BY <1>1, <3>2, RootTypes
      <4>2. PICK f \in Sides : t[f][t.p[n]] = n
        BY <4>1, ParentOf
      <4> QED
        BY <1>1a, <1>1d, <2>2, <3>2, <4>2
    <3> QED
      BY <1>3, <2>1, <3>1, <3>2
  <2> QED
    BY <2>3, <2>4
<1>14. RedsApart(u, d, NIL_NODE)
  BY <1>4, <1>5, <1>13 DEF RedsApart
<1>15. u.c[u.root] = "red" => u.root = d
  <2>1. t.root \in Pointers /\ (t.c[t.root] = "red" => t.root = a)
    BY RootTypes DEF Inserting
  <2> QED
    BY <1>1, <1>3, <1>5, <2>1
<1>16. k[d] = h[a] + 1
  <2>1. h[d] = h[b] + 1
    BY <1>1, <1>1a, <1>7, <1>9
  <2>2. PICK f \in Sides : t[f][b] = a
    BY <1>1, <1>1a, <1>1d, ParentOf
  <2>3. h[b] = h[a] + 0
    BY <1>1, <1>7, <1>9, <2>2
  <2>4. k[d] = h[d] /\ h[a] \in Nat
    BY <1>1, <1>6, <1>8
  <2> QED
    BY <2>1, <2>3, <2>4
<1>17. d \in InTree(u) /\ u.c[d] = "red"
  BY <1>1, <1>3, <1>4
<1>18. Inserting(u, d, k)
  BY <1>12, <1>14, <1>15, <1>17 DEF Inserting
<1> QED
  BY <1>4, <1>16, <1>18

(* z is the inner child: its parent goes down, and is the outer child of z. *)
OuterNext(t, a) ==
    LET b == t.p[a]
        s == SideOf(t, b)
    IN t.c[t[Other(s)][t.p[b]]] = "black" /\ a # t[Other(s)][b]

LEMMA InnerKeeps ==
  ASSUME NEW t, NEW g, Search(t, g), NEW a, NEW h, Inserting(t, a, h),
         NEW b, NEW d, NEW s, NEW y, InsertTurnAt(t, a, b, d, s, y),
         t.c[y] = "black", a = t[Other(s)][b], NEW u, Turned(t, u, b, a, s)
  PROVE  /\ Search(u, RotateBelow(t, g, b, a, s)) /\ InTree(u) = InTree(t)
         /\ \E k : Inserting(u, b, k) /\ k[b] = h[a]
         /\ OuterNext(u, b)
<1> DEFINE o == Other(s)
           inner == t[s][a]
<1>1. /\ b \in InTree(t) /\ b # t.root /\ d \in InTree(t) /\ t.c[d] = "black"
      /\ t.c[b] = "red" /\ t.c[a] = "red" /\ a # t.root
      /\ a # b /\ d # a /\ d # b /\ y # b /\ y # a
      /\ a \in Pointers /\ b \in Pointers /\ d \in Pointers /\ y \in Pointers
      /\ a # NIL_NODE /\ s \in Sides
  BY InsertNodes
<1>1a. t[s][d] = b /\ t[o][d] = y /\ t.p[a] = b /\ t.p[b] = d
  BY InsertNodes
<1>1b. Shaped(t) /\ t.c \in [Pointers -> {"red", "black"}] /\ t.c[NIL_NODE] = "black"
  BY <1>1, Colours DEF Search
<1>1c. a \in InTree(t) /\ o \in Sides /\ s # o /\ \A f \in Sides : f = s \/ f = o
  BY <1>1, SideIsField DEF Inserting
<1>1d. inner # a /\ inner # b /\ inner \in Pointers
  BY <1>1, RotateNodes
<1>2. Search(u, RotateBelow(t, g, b, a, s)) /\ InTree(u) = InTree(t)
  BY <1>1, RotateSearch
<1>3. u.c = t.c /\ u.root = t.root /\ u.i = t.i /\ Shaped(u)
  BY <1>1 DEF Turned
<1>4. /\ \A n \in Pointers, f \in Sides :
            u[f][n] = IF n = b /\ f = o THEN inner ELSE IF n = a /\ f = s THEN b
                      ELSE IF t[f][n] = b THEN a ELSE t[f][n]
      /\ \A n \in Pointers :
            u.p[n] = IF n = b THEN a ELSE IF n = a THEN t.p[b]
                     ELSE IF n = inner /\ n # NIL_NODE THEN b ELSE t.p[n]
  BY DEF Turned
<1>5. h \in [Pointers -> Nat] /\ h[NIL_NODE] = 0
  BY DEF Inserting, Counted
<1>6. ASSUME NEW n \in InTree(t), NEW f \in Sides
      PROVE  /\ h[n] = h[t[f][n]] + Black(t, n) /\ Missing(n, f, NIL_NODE, "l") = 0
             /\ CountedAt(t, h, NIL_NODE, "l", n, f) /\ h[t[f][n]] \in Nat
  <2>1. Missing(n, f, NIL_NODE, "l") = 0
    BY <1>1b, NoneMissing
  <2>2. CountedAt(t, h, NIL_NODE, "l", n, f)
    BY DEF Inserting, Counted
  <2>3. h[n] = h[t[f][n]] + Black(t, n) + Missing(n, f, NIL_NODE, "l")
    BY <2>2 DEF CountedAt
  <2>4. t[f][n] \in Pointers
    BY ChildTypes
  <2> QED
    BY <1>5, <2>1, <2>2, <2>3, <2>4 DEF Black
<1>7. Black(t, a) = 0 /\ Black(t, b) = 0
  BY <1>1 DEF Black
<1>8. /\ h[b] = h[t[s][b]] /\ h[b] = h[a] /\ h[a] = h[inner] /\ h[a] = h[t[o][a]]
      /\ h[b] \in Nat /\ h[t[s][b]] \in Nat /\ h[a] \in Nat /\ h[inner] \in Nat /\ h[t[o][a]] \in Nat
      /\ \A f \in Sides : Missing(a, f, NIL_NODE, "l") = 0 /\ Missing(b, f, NIL_NODE, "l") = 0
  <2>1. h[b] = h[t[s][b]] + 0 /\ h[b] = h[t[o][b]] + 0 /\ h[a] = h[inner] + 0 /\ h[a] = h[t[o][a]] + 0
    BY <1>1, <1>1c, <1>6, <1>7
  <2>2. t[o][b] = a
    OBVIOUS
  <2>3. h[b] \in Nat /\ h[t[s][b]] \in Nat /\ h[a] \in Nat /\ h[inner] \in Nat /\ h[t[o][a]] \in Nat
    BY <1>1, <1>1c, <1>5, <1>6
  <2>4. \A f \in Sides : Missing(a, f, NIL_NODE, "l") = 0 /\ Missing(b, f, NIL_NODE, "l") = 0
    BY <1>1, <1>1c, <1>6
  <2> QED
    BY <2>1, <2>2, <2>3, <2>4
<1> DEFINE k == [h EXCEPT ![a] = h[b], ![b] = h[b]]
<1>9. Counted(u, k, NIL_NODE, "l")
  <2>1. /\ h[b] = h[t[s][b]] + Black(t, b) + Missing(b, s, NIL_NODE, "l")
        /\ h[b] = h[t[s][a]] + Black(t, b) + Missing(b, Other(s), NIL_NODE, "l")
        /\ h[b] = h[b] + Black(t, a) + Missing(a, s, NIL_NODE, "l")
        /\ h[b] = h[t[Other(s)][a]] + Black(t, a) + Missing(a, Other(s), NIL_NODE, "l")
    BY <1>1, <1>1c, <1>7, <1>8
  <2>2. \A n \in InTree(t) \ {b, a}, f \in Sides : CountedAt(t, h, NIL_NODE, "l", n, f)
    BY <1>6
  <2>3. PICK m \in Nat : m = h[b]
    BY <1>8
  <2>4. /\ m = h[t[s][b]] + Black(t, b) + Missing(b, s, NIL_NODE, "l")
        /\ m = h[t[s][a]] + Black(t, b) + Missing(b, Other(s), NIL_NODE, "l")
        /\ h[b] = m + Black(t, a) + Missing(a, s, NIL_NODE, "l")
        /\ h[b] = h[t[Other(s)][a]] + Black(t, a) + Missing(a, Other(s), NIL_NODE, "l")
    BY <2>1, <2>3
  <2>5. Counted(u, [h EXCEPT ![a] = h[b], ![b] = m], NIL_NODE, "l")
    BY <1>1, <1>5, <2>2, <2>4, RotateCounted
  <2> QED
    BY <2>3, <2>5
<1>10. k[b] = h[a]
  BY <1>1, <1>5, <1>8
<1> HIDE DEF k
<1>11. ASSUME NEW n \in InTree(t), t.c[n] = "red", n # b
       PROVE  t.c[u.p[n]] = "black"
  <2>1. n \in Pointers
    BY <1>1b, KeyTypes
  <2>2. CASE n = a
    BY <1>1, <1>1a, <1>4, <2>2
  <2>3. CASE n # a
    <3>1. t.c[t.p[n]] = "black"
      BY <1>1b, <1>11, <2>3 DEF Inserting, RedsApart
    <3>2. n # inner \/ n = NIL_NODE
      <4> SUFFICES ASSUME n = inner, n # NIL_NODE
                   PROVE  FALSE
        OBVIOUS
      <4>1. t.p[n] = a
        BY <1>1, <1>1c, ChildTypes
      <4> QED
        BY <1>1, <3>1, <4>1
    <3>3. u.p[n] = t.p[n]
      BY <1>4, <1>11, <2>1, <2>3, <3>2
    <3> QED
      BY <3>1, <3>3
  <2> QED
    BY <2>2, <2>3
<1>12. RedsApart(u, b, NIL_NODE)
  BY <1>2, <1>3, <1>11 DEF RedsApart
<1>13. Inserting(u, b, k)
  BY <1>1, <1>2, <1>3, <1>9, <1>12 DEF Inserting
<1>14. OuterNext(u, b)
  <2>1. u.p[b] = a /\ u.p[a] = d
    BY <1>1, <1>1a, <1>4
  <2>2. u[s][d] = a /\ u[o][d] = y /\ u[s][a] = b
    BY <1>1, <1>1a, <1>1c, <1>4
  <2>3. SideOf(u, a) = s
    BY <1>1, <2>1, <2>2, SideOfIs
  <2>4. b # u[o][a]
    BY <1>1, <1>1b, <1>1c, <1>2, <2>2, ChildTypes, KeyTypes
  <2> QED
    BY <1>3, <2>1, <2>2, <2>3, <2>4 DEF OuterNext
<1> QED
  BY <1>2, <1>10, <1>13, <1>14

LEMMA RecolourTwo ==
  ASSUME NEW t, Shaped(t), NEW b \in Pointers, NEW d \in Nodes, d # b
  PROVE  Recoloured(t, Redden(Blacken(t, b), d), b, b, d)
<1> DEFINE t2 == Paint(t, b, "black")
           t3 == Paint(t2, d, "red")
<1>1. d \in Pointers /\ d # NIL_NODE
  BY NilApart DEF Pointers
<1>3. Redden(Blacken(t, b), d) = t3
  BY PaintNames
<1>4. Shaped(t2) /\ SameTree(t, t2) /\ \A m \in Pointers : t2.c[m] = IF m = b THEN "black" ELSE t.c[m]
  BY PaintIs
<1> HIDE DEF t2
<1>5. Shaped(t3) /\ SameTree(t2, t3) /\ \A m \in Pointers : t3.c[m] = IF m = d THEN "red" ELSE t2.c[m]
  BY <1>1, <1>4, PaintIs
<1> HIDE DEF t3
<1>6. SameTree(t, t3)
  BY <1>4, <1>5, SameTrans
<1> QED
  BY <1>3, <1>4, <1>5, <1>6 DEF Recoloured

(* z is the outer child: its grandparent goes down on the other side, and the loop
   is done. *)
LEMMA OuterKeeps ==
  ASSUME NEW t, NEW g, Search(t, g), NEW a, NEW h, Inserting(t, a, h),
         NEW b, NEW d, NEW s, NEW y, InsertTurnAt(t, a, b, d, s, y),
         t.c[y] = "black", a # t[Other(s)][b], NEW v, Recoloured(t, v, b, b, d),
         NEW u, Turned(v, u, d, b, Other(s))
  PROVE  /\ Search(u, RotateBelow(v, g, d, b, Other(s))) /\ InTree(u) = InTree(t)
         /\ \E k : Inserting(u, a, k) /\ k[a] = h[a]
         /\ u.c[u.p[a]] = "black"
<1> DEFINE o == Other(s)
           inner == t[o][b]
<1>1. /\ b \in InTree(t) /\ b # t.root /\ d \in InTree(t) /\ t.c[d] = "black"
      /\ t.c[b] = "red" /\ t.c[a] = "red" /\ a # t.root
      /\ a # b /\ d # a /\ d # b /\ y # b /\ y # a /\ y # d
      /\ a \in Pointers /\ b \in Pointers /\ d \in Pointers /\ y \in Pointers
      /\ a # NIL_NODE /\ b # NIL_NODE /\ s \in Sides
  BY InsertNodes
<1>1a. t[s][d] = b /\ t[o][d] = y /\ t.p[a] = b /\ t.p[b] = d
  BY InsertNodes
<1>1e. (y # NIL_NODE => t.p[y] = d) /\ t.p[d] # b
  BY InsertNodes
<1>1b. Shaped(t) /\ t.c \in [Pointers -> {"red", "black"}] /\ t.c[NIL_NODE] = "black"
  BY <1>1, Colours DEF Search
<1>1c. /\ a \in InTree(t) /\ o \in Sides /\ s # o /\ Other(o) = s
       /\ \A f \in Sides : f = s \/ f = o
  BY <1>1, <1>1b, SideIsField, SideTypes DEF Inserting
<1>1d. t[s][b] = a
  BY <1>1, <1>1a, <1>1c, ParentOf
<1>2. Shaped(v) /\ SameTree(t, v)
  BY DEF Recoloured
<1>3. \A m \in Pointers : v.c[m] = IF m = d THEN "red" ELSE IF m = b THEN "black" ELSE t.c[m]
  BY DEF Recoloured
<1>4. Search(v, g) /\ InTree(v) = InTree(t)
  BY <1>2, SameSearch
<1>5. v.root = t.root /\ v.p = t.p /\ \A f \in Sides : v[f] = t[f]
  BY <1>2, SideIsField DEF SameTree, Fields
<1>6. b = v[Other(o)][d] /\ b = v[s][d]
  BY <1>1, <1>1a, <1>1c, <1>5
<1>7. Search(u, RotateBelow(v, g, d, b, o)) /\ InTree(u) = InTree(t)
  BY <1>1, <1>1c, <1>4, <1>6, RotateSearch
<1>7a. inner # b /\ inner # d /\ inner \in Pointers
  <2>1. v[o][b] # b /\ v[o][b] # d /\ v[o][b] \in Pointers
    BY <1>1, <1>1c, <1>4, <1>6, RotateNodes
  <2> QED
    BY <1>1c, <1>5, <2>1
<1>8. u.c = v.c /\ u.root = IF t.root = d THEN b ELSE t.root
  BY <1>5 DEF Turned
<1>9. \A n \in Pointers :
         u.p[n] = IF n = d THEN b ELSE IF n = b THEN t.p[d]
                  ELSE IF n = inner /\ n # NIL_NODE THEN d ELSE t.p[n]
  BY <1>1c, <1>5 DEF Turned
<1>10. h \in [Pointers -> Nat] /\ h[NIL_NODE] = 0
  BY DEF Inserting, Counted
<1>11. ASSUME NEW n \in InTree(t), NEW f \in Sides
      PROVE  /\ h[n] = h[t[f][n]] + Black(t, n) /\ Missing(n, f, NIL_NODE, "l") = 0
             /\ h[t[f][n]] \in Nat
  <2>1. Missing(n, f, NIL_NODE, "l") = 0
    BY <1>1b, NoneMissing
  <2>2. CountedAt(t, h, NIL_NODE, "l", n, f)
    BY DEF Inserting, Counted
  <2>3. h[n] = h[t[f][n]] + Black(t, n) + Missing(n, f, NIL_NODE, "l")
    BY <2>2 DEF CountedAt
  <2>4. t[f][n] \in Pointers
    BY ChildTypes
  <2> QED
    BY <1>10, <2>1, <2>2, <2>3, <2>4 DEF Black
<1>12. /\ Black(t, d) = 1 /\ Black(t, b) = 0 /\ Black(v, d) = 0 /\ Black(v, b) = 1
       /\ \A n \in Pointers : n # d /\ n # b => Black(v, n) = Black(t, n)
  BY <1>1, <1>3 DEF Black
<1>13. /\ h[d] = h[b] + 1 /\ h[d] = h[y] + 1 /\ h[b] = h[inner] /\ h[b] = h[a]
       /\ h[d] \in Nat /\ h[b] \in Nat /\ h[y] \in Nat /\ h[inner] \in Nat /\ h[a] \in Nat
  <2>1. h[d] = h[t[s][d]] + 1 /\ h[d] = h[t[o][d]] + 1 /\ h[b] = h[t[o][b]] + 0 /\ h[b] = h[t[s][b]] + 0
    BY <1>1, <1>1c, <1>11, <1>12
  <2>2. h[d] \in Nat /\ h[b] \in Nat /\ h[y] \in Nat /\ h[inner] \in Nat /\ h[a] \in Nat
    BY <1>1, <1>7a, <1>10
  <2> QED
    BY <1>1a, <1>1d, <2>1, <2>2
<1> DEFINE k == [h EXCEPT ![b] = h[d], ![d] = h[b]]
<1>14. Counted(u, k, NIL_NODE, "l")
  <2>1. /\ v[o][d] = y /\ v[o][b] = inner /\ v[s][b] = a
        /\ v[Other(o)][b] = a
        /\ Missing(b, o, NIL_NODE, "l") = 0 /\ Missing(b, Other(o), NIL_NODE, "l") = 0
        /\ Missing(d, o, NIL_NODE, "l") = 0 /\ Missing(d, Other(o), NIL_NODE, "l") = 0
    BY <1>1, <1>1a, <1>1c, <1>1d, <1>5, <1>11
  <2>2. /\ h[b] = h[v[o][d]] + Black(v, d) + Missing(d, o, NIL_NODE, "l")
        /\ h[b] = h[v[o][b]] + Black(v, d) + Missing(d, Other(o), NIL_NODE, "l")
        /\ h[d] = h[b] + Black(v, b) + Missing(b, o, NIL_NODE, "l")
        /\ h[d] = h[v[Other(o)][b]] + Black(v, b) + Missing(b, Other(o), NIL_NODE, "l")
    <3>1. h[b] = h[y] + 0 + 0
      BY <1>13
    <3>2. h[b] = h[inner] + 0 + 0
      BY <1>13
    <3>3. h[d] = h[b] + 1 + 0
      BY <1>13
    <3>4. h[d] = h[a] + 1 + 0
      BY <1>13
    <3> HIDE DEF o
    <3> QED
      BY <1>12, <2>1, <3>1, <3>2, <3>3, <3>4
  <2>3. ASSUME NEW n \in InTree(v) \ {d, b}, NEW f \in Sides
        PROVE  CountedAt(v, h, NIL_NODE, "l", n, f)
    <3>1. n \in InTree(t) /\ n \in Pointers /\ n # d /\ n # b
      BY <1>2, <1>4, KeyTypes
    <3>2. h[n] = h[v[f][n]] + Black(v, n) /\ Missing(n, f, NIL_NODE, "l") = 0 /\ h[v[f][n]] \in Nat
      BY <1>5, <1>11, <1>12, <3>1
    <3> QED
      BY <3>2 DEF CountedAt, Black
  <2> QED
    BY <1>1, <1>1c, <1>4, <1>6, <1>10, <1>13, <2>2, <2>3, RotateCounted
<1>15. k[a] = h[a]
  BY <1>1, <1>10
<1> HIDE DEF k
<1>16. a # inner
  OBVIOUS
<1>17. u.p[a] = b /\ u.c[b] = "black"
  BY <1>1, <1>1a, <1>3, <1>8, <1>9, <1>16
<1>18. ASSUME NEW n \in InTree(t), v.c[n] = "red", n # a
       PROVE  v.c[u.p[n]] = "black"
  <2>1. n \in Pointers /\ n # NIL_NODE /\ t.p[n] \in Pointers
    BY <1>1b, KeyTypes, ChildOf
  <2>2. CASE n = d
    BY <1>1, <1>3, <1>9, <2>1, <2>2
  <2>3. CASE n # d
    <3>1. t.c[n] = "red" /\ n # b
      BY <1>1, <1>3, <1>18, <2>1, <2>3
    <3>2. t.c[t.p[n]] = "black"
      BY <1>1b, <1>18, <3>1 DEF Inserting, RedsApart
    <3>3. n # inner
      BY <1>1, <1>1c, <2>1, <3>2, ChildTypes
    <3>4. t.p[n] # d
      <4> SUFFICES ASSUME t.p[n] = d
                   PROVE  FALSE
        OBVIOUS
      <4>1. n # t.root
        BY <1>1, <1>1b, RootTypes, KeyTypes
      <4>2. PICK f \in Sides : t[f][t.p[n]] = n
        BY <4>1, ParentOf
      <4>3. n = b \/ n = y
        BY <1>1a, <1>1c, <4>2
      <4> QED
        BY <3>1, <4>3
    <3>5. u.p[n] = t.p[n]
      BY <1>9, <2>1, <2>3, <3>1, <3>3
    <3> QED
      BY <1>3, <2>1, <3>2, <3>4, <3>5
  <2> QED
    BY <2>2, <2>3
<1>19. RedsApart(u, a, NIL_NODE)
  BY <1>7, <1>8, <1>18 DEF RedsApart
<1>20. u.c[u.root] # "red"
  <2>1. t.root \in Pointers /\ (t.c[t.root] = "red" => t.root = a)
    BY RootTypes DEF Inserting
  <2> QED
    BY <1>1, <1>3, <1>8, <2>1
<1>21. a \in InTree(u) /\ u.c[a] = "red"
  BY <1>1, <1>1c, <1>3, <1>7, <1>8
<1>22. Inserting(u, a, k)
  BY <1>14, <1>19, <1>20, <1>21 DEF Inserting
<1> QED
  BY <1>7, <1>8, <1>15, <1>17, <1>22
-----------------------------------------------------------------------------
Size == Cardinality(Nodes)

LEMMA SizeNat == Size \in Nat
BY NilApart, FS_CardinalityType DEF Size

LEMMA SizeOf ==
  ASSUME NEW S, S \subseteq Nodes
  PROVE  IsFiniteSet(S) /\ Cardinality(S) \in Nat /\ Cardinality(S) <= Size
<1>1. S \in SUBSET Nodes
  OBVIOUS
<1> QED
  BY <1>1, NilApart, FS_Subset, FS_CardinalityType DEF Size

LEMMA SmallerSet ==
  ASSUME NEW S, S \subseteq Nodes, NEW R, R \subseteq S, NEW x \in S, x \notin R
  PROVE  Cardinality(R) < Cardinality(S)
<1>1. R \in SUBSET S /\ R # S
  OBVIOUS
<1>2. IsFiniteSet(S) /\ Cardinality(S) \in Nat /\ Cardinality(R) \in Nat
  BY SizeOf
<1> QED
  BY <1>1, <1>2, FS_Subset

(* A walk whose measure falls with every step but those that stay comes to a
   node it stays at, in as many steps as the measure has at first. *)
LEMMA Settles ==
  ASSUME NEW T, NEW nx \in [T -> T], NEW p \in T, NEW m \in [T -> Nat], NEW N \in Nat, m[p] <= N,
         \A e \in T : nx[e] = e \/ m[nx[e]] < m[e],
         NEW w, Iterates(w, nx, p, T, N)
  PROVE  w[N] \in T /\ nx[w[N]] = w[N]
<1> DEFINE Good == {k \in Nat : k <= N => nx[w[k]] = w[k] \/ m[w[k]] + k <= N}
<1>1. w \in [0..N -> T] /\ w[0] = p /\ \A k \in 1..N : w[k] = nx[w[k - 1]]
  BY DEF Iterates
<1>2. 0 \in Good
  BY <1>1
<1>3. ASSUME NEW k \in Nat, k \in Good
      PROVE  k + 1 \in Good
  <2> SUFFICES ASSUME k + 1 <= N
               PROVE  nx[w[k + 1]] = w[k + 1] \/ m[w[k + 1]] + (k + 1) <= N
    OBVIOUS
  <2>1. k + 1 \in 1..N /\ k \in 0..N
    OBVIOUS
  <2>2. w[k + 1] = nx[w[k]] /\ w[k] \in T
    BY <1>1, <2>1
  <2>3. nx[w[k]] = w[k] \/ m[w[k]] + k <= N
    BY <1>3
  <2>4. nx[w[k]] = w[k] \/ m[nx[w[k]]] < m[w[k]]
    BY <2>2
  <2>5. m[w[k]] \in Nat /\ m[nx[w[k]]] \in Nat
    BY <2>2
  <2> QED
    BY <2>2, <2>3, <2>4, <2>5
<1>4. N \in Good
  <2> HIDE DEF Good
  <2> QED
    BY <1>2, <1>3, Induction
<1>5. w[N] \in T /\ m[w[N]] \in Nat /\ nx[w[N]] \in T /\ m[nx[w[N]]] \in Nat
  BY <1>1
<1> QED
  BY <1>4, <1>5

(* Two walks that start and go on alike are the same. *)
LEMMA SameWalk ==
  ASSUME NEW N \in Nat, NEW w, NEW v, w[0] = v[0],
         \A k \in 1..N : w[k - 1] = v[k - 1] => w[k] = v[k]
  PROVE  w[N] = v[N]
<1> DEFINE Good == {k \in Nat : k <= N => w[k] = v[k]}
<1>1. 0 \in Good
  OBVIOUS
<1>2. ASSUME NEW k \in Nat, k \in Good
      PROVE  k + 1 \in Good
  <2>1. k + 1 <= N => k + 1 \in 1..N /\ (k + 1) - 1 = k
    OBVIOUS
  <2> QED
    BY <1>2, <2>1
<1>3. N \in Good
  <2> HIDE DEF Good
  <2> QED
    BY <1>1, <1>2, Induction
<1> QED
  BY <1>3

(* get_node_by_key() walks down towards the key. *)
DownTo(t, key, n) ==
    LET child == IF key < t.i[n] THEN t.l[n] ELSE t.r[n]
    IN IF n = NIL_NODE \/ t.i[n] = key \/ child = NIL_NODE THEN n ELSE child

LEMMA SearchWalk ==
  ASSUME NEW t, NEW key, NEW T, NEW nx, \A e \in T : nx[e] = DownTo(t, key, e),
         NEW w, Iterates(w, nx, t.root, T, Size)
  PROVE  get_node_by_key(t, key) = w[Size]
<1> DEFINE Rec(g) == [k \in 0..Cardinality(Nodes) |->
        IF k = 0 THEN t.root
        ELSE LET n == g[k - 1]
                 child == IF key < t.i[n] THEN t.l[n] ELSE t.r[n]
             IN IF n = NIL_NODE \/ t.i[n] = key \/ child = NIL_NODE THEN n ELSE child]
<1> DEFINE v == CHOOSE a : a = Rec(a)
<1>1. /\ w \in [0..Size -> T] /\ w[0] = t.root
      /\ \A k \in 1..Size : w[k] = DownTo(t, key, w[k - 1])
  BY SizeNat DEF Iterates
<1>2. w = Rec(w)
  <2>1. ASSUME NEW k \in 0..Size
        PROVE  w[k] = Rec(w)[k]
    <3>1. CASE k = 0
      BY <1>1, <3>1 DEF Size
    <3>2. CASE k # 0
      <4>1. k \in 1..Size
        BY <3>2, SizeNat
      <4> QED
        BY <1>1, <3>2, <4>1 DEF DownTo, Size
    <3> QED
      BY <3>1, <3>2
  <2> HIDE DEF Rec
  <2>2. DOMAIN Rec(w) = 0..Size /\ Rec(w) = [k \in 0..Size |-> Rec(w)[k]]
    BY DEF Rec, Size
  <2> QED
    BY <1>1, <2>1, <2>2
<1>3. v = Rec(v)
  <2> HIDE DEF Rec
  <2> QED
    BY <1>2
<1>4. get_node_by_key(t, key) = v[Size]
  BY DEF get_node_by_key, Follow, Size
<1> HIDE DEF v
<1>5. v[0] = t.root /\ \A k \in 1..Size : v[k] = DownTo(t, key, v[k - 1])
  <2>1. v[0] = t.root
    BY <1>3, SizeNat DEF Size
  <2>2. ASSUME NEW k \in 1..Size
        PROVE  v[k] = DownTo(t, key, v[k - 1])
    <3>1. k \in 0..Cardinality(Nodes) /\ k # 0
      BY SizeNat DEF Size
    <3>2. v[k] = Rec(v)[k]
      BY <1>3
    <3> QED
      BY <3>1, <3>2 DEF DownTo
  <2> QED
    BY <2>1, <2>2
<1> HIDE DEF Rec
<1>6. v[0] = w[0] /\ \A k \in 1..Size : v[k - 1] = w[k - 1] => v[k] = w[k]
  BY <1>1, <1>5
<1>7. v[Size] = w[Size]
  BY <1>6, SizeNat, SameWalk
<1> QED
  BY <1>4, <1>7
(* A node below another is on the same side of all those above it. *)
LEMMA SameSide ==
  ASSUME NEW t, NEW g, Search(t, g), NEW a \in InTree(t), NEW n \in g[a], n # a, NEW m \in g[n],
         NEW s \in Sides
  PROVE  m # a /\ (Before(s, t.i[m], t.i[a]) <=> Before(s, t.i[n], t.i[a]))
<1>1. n \in InTree(t) /\ m \in InTree(t) /\ m \in g[a]
  BY Nested
<1>2. PICK f \in Sides : Before(f, t.i[n], t.i[a])
  BY <1>1, OneSide, SideTypes DEF Search
<1> DEFINE c == t[f][a]
<1>3. n \in g[c] /\ a \notin g[c]
  BY <1>1, <1>2, ChildTypes DEF Search, Below
<1>4. c \in InTree(t)
  BY <1>3, ChildTypes DEF Search, Below
<1>5. m \in g[c]
  BY <1>3, <1>4, Nested
<1>6. m # a /\ Before(f, t.i[m], t.i[a])
  BY <1>3, <1>5 DEF Search, Below
<1>7. s = f \/ s = Other(f)
  BY SideIsField
<1> QED
  BY <1>1, <1>2, <1>6, <1>7, OneSide DEF Search

(* The way to n is the way to key. *)
WayTo(t, g, key, n) ==
    /\ n \in InTree(t)
    /\ \A a \in InTree(t) : n \in g[a] /\ a # n =>
          /\ t.i[a] # key
          /\ \A s \in Sides : Before(s, key, t.i[a]) <=> Before(s, t.i[n], t.i[a])

(* Where key belongs below n. *)
Toward(t, key, n) == IF key < t.i[n] THEN "l" ELSE "r"

LEMMA TowardIs ==
  ASSUME NEW t, Shaped(t), NEW n \in InTree(t), NEW key \in Nat
  PROVE  /\ Toward(t, key, n) \in Sides
         /\ t.i[n] # key => \A s \in Sides : Before(s, key, t.i[n]) <=> s = Toward(t, key, n)
         /\ DownTo(t, key, n) = LET c == t[Toward(t, key, n)][n]
                                IN IF t.i[n] = key \/ c = NIL_NODE THEN n ELSE c
BY KeyTypes DEF Toward, Sides, Before, DownTo

LEMMA WayDown ==
  ASSUME NEW t, NEW g, Search(t, g), NEW key \in Nat, NEW n, WayTo(t, g, key, n),
         t.i[n] # key, t[Toward(t, key, n)][n] # NIL_NODE
  PROVE  WayTo(t, g, key, t[Toward(t, key, n)][n])
<1> DEFINE s == Toward(t, key, n)
           c == t[s][n]
<1>1. n \in InTree(t) /\ s \in Sides
  BY TowardIs DEF WayTo, Search
<1>2. c \in InTree(t) /\ t.p[c] = n /\ c \in g[n] /\ c \in g[c] /\ c # n
  BY <1>1, ChildTypes, BelowTypes
<1>3. Before(s, t.i[c], t.i[n])
  BY <1>1, <1>2 DEF Search, Below
<1>4. ASSUME NEW a \in InTree(t), c \in g[a], a # c
      PROVE  t.i[a] # key /\ \A f \in Sides : Before(f, key, t.i[a]) <=> Before(f, t.i[c], t.i[a])
  <2>1. n \in g[a]
    BY <1>2, <1>4, Upwards
  <2>2. CASE a = n
    <3>1. \A f \in Sides : Before(f, key, t.i[n]) <=> f = s
      BY <1>1, TowardIs DEF Search
    <3>2. \A f \in Sides : Before(f, t.i[c], t.i[n]) <=> f = s
      BY <1>1, <1>2, <1>3, OneSide, SideIsField DEF Search
    <3> QED
      BY <2>2, <3>1, <3>2
  <2>3. CASE a # n
    <3>1. t.i[a] # key /\ \A f \in Sides : Before(f, key, t.i[a]) <=> Before(f, t.i[n], t.i[a])
      BY <2>1, <2>3 DEF WayTo
    <3>2. \A f \in Sides : Before(f, t.i[c], t.i[a]) <=> Before(f, t.i[n], t.i[a])
      BY <1>2, <2>1, <2>3, SameSide
    <3> QED
      BY <3>1, <3>2
  <2> QED
    BY <2>2, <2>3
<1> QED
  BY <1>2, <1>4 DEF WayTo

(* At the end of the way the key is found, or is nowhere. *)
LEMMA WayEnds ==
  ASSUME NEW t, NEW g, Search(t, g), NEW key \in Nat, NEW e, WayTo(t, g, key, e),
         t.i[e] # key, t[Toward(t, key, e)][e] = NIL_NODE, NEW k \in InTree(t), t.i[k] = key
  PROVE  FALSE
<1> DEFINE S == {a \in InTree(t) : e \in g[a] /\ k \in g[a]}
<1>1. e \in InTree(t) /\ Toward(t, key, e) \in Sides
  BY TowardIs DEF WayTo, Search
<1>2. k \notin g[e]
  <2>1. Before(Toward(t, key, e), key, t.i[e])
    BY <1>1, TowardIs DEF Search
  <2> QED
    BY <1>1, <2>1 DEF Search, Below
<1>3. S \subseteq InTree(t) /\ S # {}
  BY <1>1, RootTypes
<1>4. PICK a \in S : \A b \in S : g[b] \subseteq g[a] => g[b] = g[a]
  <2> HIDE DEF S
  <2> QED
    BY <1>3, Lowest
<1>5. a \in InTree(t) /\ a # e /\ e \in g[a] /\ k \in g[a]
  BY <1>2, <1>4
<1>6. a # k
  BY <1>5 DEF WayTo
<1>7. PICK s \in Sides : Before(s, t.i[e], t.i[a])
  BY <1>1, <1>5, OneSide, SideTypes DEF Search
<1>8. Before(s, t.i[k], t.i[a])
  BY <1>5, <1>7 DEF WayTo
<1> DEFINE c == t[s][a]
<1>9. e \in g[c] /\ k \in g[c] /\ a \notin g[c] /\ g[c] \subseteq g[a] /\ a \in g[a]
  BY <1>5, <1>7, <1>8, ChildTypes, BelowTypes DEF Search, Below
<1>10. c \in InTree(t)
  BY <1>5, <1>9, ChildTypes DEF Search, Below
<1> QED
  BY <1>4, <1>9, <1>10

(* get_node_by_key() finds the node of the key, or the one below which it belongs. *)
Located(t, g, key, e) ==
    /\ t.root = NIL_NODE => e = NIL_NODE
    /\ t.root # NIL_NODE =>
          /\ WayTo(t, g, key, e)
          /\ t.i[e] # key => /\ t[Toward(t, key, e)][e] = NIL_NODE
                             /\ \A n \in InTree(t) : t.i[n] # key

LEMMA GetNode ==
  ASSUME NEW t, NEW g, Search(t, g), NEW key \in Nat
  PROVE  Located(t, g, key, get_node_by_key(t, key))
<1>1. CASE t.root = NIL_NODE
  <2> DEFINE T == {NIL_NODE}
             nx == [n \in T |-> n]
  <2>1. PICK w : Iterates(w, nx, t.root, T, Size)
    <3>1. t.root \in T /\ nx \in [T -> T]
      BY <1>1
    <3> HIDE DEF T, nx
    <3> QED
      BY <3>1, SizeNat, CanIterate
  <2>2. \A n \in T : nx[n] = DownTo(t, key, n)
    BY DEF DownTo
  <2>3. w[Size] = NIL_NODE
    BY <2>1, SizeNat DEF Iterates
  <2>4. get_node_by_key(t, key) = w[Size]
    <3> HIDE DEF T, nx
    <3> QED
      BY <2>1, <2>2, SearchWalk
  <2> QED
    BY <1>1, <2>3, <2>4 DEF Located
<1>2. CASE t.root # NIL_NODE
  <2> DEFINE T == {n \in InTree(t) : WayTo(t, g, key, n)}
             nx == [n \in T |-> DownTo(t, key, n)]
             m == [n \in T |-> Cardinality(g[n])]
  <2>1. t.root \in T
    BY <1>2, RootTypes, Upwards DEF WayTo
  <2>2. ASSUME NEW n \in T
        PROVE  DownTo(t, key, n) \in T
               /\ (DownTo(t, key, n) = n \/ Cardinality(g[DownTo(t, key, n)]) < Cardinality(g[n]))
    <3> DEFINE s == Toward(t, key, n)
               c == t[s][n]
    <3>1. s \in Sides /\ DownTo(t, key, n) = IF t.i[n] = key \/ c = NIL_NODE THEN n ELSE c
      BY TowardIs DEF Search
    <3>2. CASE t.i[n] = key \/ c = NIL_NODE
      BY <3>1, <3>2
    <3>3. CASE ~(t.i[n] = key \/ c = NIL_NODE)
      <4>1. DownTo(t, key, n) = c
        BY <3>1, <3>3
      <4>2. c \in InTree(t) /\ WayTo(t, g, key, c)
        BY <3>1, <3>3, WayDown, ChildTypes
      <4>3. g[c] \subseteq g[n] /\ n \notin g[c] /\ n \in g[n] /\ g[n] \subseteq Nodes
        BY <3>1, ChildTypes, BelowTypes DEF InTree
      <4>4. Cardinality(g[c]) < Cardinality(g[n])
        <5> HIDE DEF c
        <5> QED
          BY <4>3, SmallerSet
      <4> QED
        BY <4>1, <4>2, <4>4
    <3> QED
      BY <3>2, <3>3
  <2>3. nx \in [T -> T]
    BY <2>2
  <2>4. m \in [T -> Nat] /\ \A n \in T : m[n] <= Size
    <3>1. \A n \in T : Cardinality(g[n]) \in Nat /\ Cardinality(g[n]) <= Size
      <4> TAKE n \in T
      <4>1. g[n] \subseteq Nodes
        BY BelowTypes DEF InTree
      <4> QED
        BY <4>1, SizeOf
    <3> QED
      BY <3>1
  <2>5. \A n \in T : nx[n] = n \/ m[nx[n]] < m[n]
    BY <2>2, <2>3
  <2>6. \A n \in T : nx[n] = DownTo(t, key, n)
    OBVIOUS
  <2>7. \A n \in T : n \in InTree(t) /\ WayTo(t, g, key, n)
    OBVIOUS
  <2> HIDE DEF T, nx, m
  <2>8. PICK w : Iterates(w, nx, t.root, T, Size)
    BY <2>1, <2>3, SizeNat, CanIterate
  <2>9. w[Size] \in T /\ nx[w[Size]] = w[Size]
    BY <2>1, <2>3, <2>4, <2>5, <2>8, SizeNat, Settles
  <2>10. get_node_by_key(t, key) = w[Size]
    BY <2>6, <2>8, SearchWalk
  <2> DEFINE e == get_node_by_key(t, key)
             s == Toward(t, key, e)
  <2>11. e \in InTree(t) /\ WayTo(t, g, key, e) /\ DownTo(t, key, e) = e
    BY <2>6, <2>7, <2>9, <2>10
  <2> HIDE DEF e
  <2>12. s \in Sides /\ DownTo(t, key, e) = IF t.i[e] = key \/ t[s][e] = NIL_NODE THEN e ELSE t[s][e]
    BY <2>11, TowardIs DEF Search
  <2>13. t.i[e] # key => t[s][e] = NIL_NODE
    BY <2>11, <2>12, ChildTypes
  <2>14. t.i[e] # key => \A n \in InTree(t) : t.i[n] # key
    BY <2>11, <2>13, WayEnds
  <2>15. Located(t, g, key, e)
    BY <1>2, <2>11, <2>13, <2>14 DEF Located
  <2> QED
    BY <2>15 DEF e
<1> QED
  BY <1>1, <1>2
-----------------------------------------------------------------------------
(* The keys at and below a node are all those of the tree in their range. *)
LEMMA Between ==
  ASSUME NEW t, NEW g, Search(t, g), NEW a \in InTree(t), NEW m \in g[a], NEW n \in g[a],
         NEW k \in InTree(t), NEW s \in Sides, Before(s, t.i[m], t.i[k]), Before(s, t.i[k], t.i[n])
  PROVE  k \in g[a]
<1> SUFFICES ASSUME k \notin g[a]
             PROVE  FALSE
  OBVIOUS
<1> DEFINE S == {b \in InTree(t) : a \in g[b] /\ k \in g[b]}
<1>1. S \subseteq InTree(t) /\ S # {}
  BY RootTypes
<1>2. PICK b \in S : \A c \in S : g[c] \subseteq g[b] => g[c] = g[b]
  <2> HIDE DEF S
  <2> QED
    BY <1>1, Lowest
<1>3. b \in InTree(t) /\ b # a /\ a \in g[b] /\ k \in g[b]
  BY <1>2
<1>4. m \in InTree(t) /\ n \in InTree(t) /\ Other(s) \in Sides
  BY Nested, SideIsField
<1>5. \A f \in Sides : /\ Before(f, t.i[m], t.i[b]) <=> Before(f, t.i[a], t.i[b])
                       /\ Before(f, t.i[n], t.i[b]) <=> Before(f, t.i[a], t.i[b])
  BY <1>3, SameSide
<1>6. t.i[m] \in Nat /\ t.i[n] \in Nat /\ t.i[k] \in Nat /\ t.i[b] \in Nat
  BY <1>3, <1>4, KeyTypes DEF Search
<1>7. PICK f \in Sides : Before(f, t.i[a], t.i[b])
  BY <1>3, OneSide, SideTypes DEF Search
<1>8. Before(f, t.i[m], t.i[b]) /\ Before(f, t.i[n], t.i[b])
  BY <1>5, <1>7
<1>9. Before(f, t.i[k], t.i[b])
  BY <1>6, <1>8 DEF Before
<1> DEFINE c == t[f][b]
<1>10. a \in g[c] /\ k \in g[c] /\ b \notin g[c] /\ g[c] \subseteq g[b] /\ b \in g[b]
  BY <1>3, <1>7, <1>9, ChildTypes, BelowTypes DEF Search, Below
<1>11. c \in InTree(t)
  BY <1>3, <1>7, <1>10, ChildTypes DEF Search, Below
<1> QED
  BY <1>2, <1>10, <1>11

(* rb_min() and rb_max() walk down on one side. *)
DownSide(t, s, n) == IF t[s][n] = NIL_NODE THEN n ELSE t[s][n]

LEMMA SideWalk ==
  ASSUME NEW t, NEW s, NEW z, NEW T, NEW nx, \A e \in T : nx[e] = DownSide(t, s, e),
         NEW w, Iterates(w, nx, z, T, Size)
  PROVE  Outermost(t, z, s) = w[Size]
<1> DEFINE Rec(g) == [k \in 0..Cardinality(Nodes) |->
        IF k = 0 THEN z ELSE IF t[s][g[k - 1]] = NIL_NODE THEN g[k - 1] ELSE t[s][g[k - 1]]]
<1> DEFINE v == CHOOSE a : a = Rec(a)
<1>1. /\ w \in [0..Size -> T] /\ w[0] = z
      /\ \A k \in 1..Size : w[k] = DownSide(t, s, w[k - 1])
  BY SizeNat DEF Iterates
<1>2. w = Rec(w)
  <2>1. ASSUME NEW k \in 0..Size
        PROVE  w[k] = Rec(w)[k]
    <3>1. CASE k = 0
      BY <1>1, <3>1 DEF Size
    <3>2. CASE k # 0
      <4>1. k \in 1..Size
        BY <3>2, SizeNat
      <4> QED
        BY <1>1, <3>2, <4>1 DEF DownSide, Size
    <3> QED
      BY <3>1, <3>2
  <2> HIDE DEF Rec
  <2>2. DOMAIN Rec(w) = 0..Size /\ Rec(w) = [k \in 0..Size |-> Rec(w)[k]]
    BY DEF Rec, Size
  <2> QED
    BY <1>1, <2>1, <2>2
<1>3. v = Rec(v)
  <2> HIDE DEF Rec
  <2> QED
    BY <1>2
<1>4. Outermost(t, z, s) = v[Size]
  BY DEF Outermost, Follow, Size
<1> HIDE DEF v
<1>5. v[0] = z /\ \A k \in 1..Size : v[k] = DownSide(t, s, v[k - 1])
  <2>1. v[0] = z
    BY <1>3, SizeNat DEF Size
  <2>2. ASSUME NEW k \in 1..Size
        PROVE  v[k] = DownSide(t, s, v[k - 1])
    <3>1. k \in 0..Cardinality(Nodes) /\ k # 0
      BY SizeNat DEF Size
    <3>2. v[k] = Rec(v)[k]
      BY <1>3
    <3> QED
      BY <3>1, <3>2 DEF DownSide
  <2> QED
    BY <2>1, <2>2
<1> HIDE DEF Rec
<1>6. v[0] = w[0] /\ \A k \in 1..Size : v[k - 1] = w[k - 1] => v[k] = w[k]
  BY <1>1, <1>5
<1>7. v[Size] = w[Size]
  BY <1>6, SizeNat, SameWalk
<1> QED
  BY <1>4, <1>7

(* e is the outermost node on side s at and below z. *)
LastOn(t, g, z, s, e) ==
    /\ e \in g[z] /\ e \in InTree(t) /\ t[s][e] = NIL_NODE
    /\ \A m \in g[z] : m = e \/ Before(Other(s), t.i[m], t.i[e])

LEMMA OutermostIs ==
  ASSUME NEW t, NEW g, Search(t, g), NEW z \in InTree(t), NEW s \in Sides
  PROVE  LastOn(t, g, z, s, Outermost(t, z, s))
<1> DEFINE o == Other(s)
           T == {n \in g[z] : \A m \in g[z] : m \in g[n] \/ Before(o, t.i[m], t.i[n])}
           nx == [n \in T |-> DownSide(t, s, n)]
           m == [n \in T |-> Cardinality(g[n])]
<1>0. Shaped(t) /\ o \in Sides /\ \A n \in InTree(t) : t.i[n] \in Nat
  BY SideIsField, KeyTypes DEF Search
<1>1. z \in T
  BY BelowTypes
<1>2. ASSUME NEW n \in T
      PROVE  DownSide(t, s, n) \in T
             /\ (DownSide(t, s, n) = n \/ Cardinality(g[DownSide(t, s, n)]) < Cardinality(g[n]))
  <2> DEFINE c == t[s][n]
  <2>1. CASE c = NIL_NODE
    BY <2>1 DEF DownSide
  <2>2. CASE c # NIL_NODE
    <3>1. DownSide(t, s, n) = c
      BY <2>2 DEF DownSide
    <3>2. n \in InTree(t) /\ g[n] \subseteq g[z]
      BY Nested
    <3>3. c \in InTree(t) /\ c \in g[n] /\ c \in g[c] /\ g[c] \subseteq g[n] /\ n \notin g[c] /\ n \in g[n]
      BY <2>2, <3>2, ChildTypes, BelowTypes
    <3>4. g[c] = {k \in g[n] : Before(s, t.i[k], t.i[n])}
      BY <3>2 DEF Search, Below
    <3>5. ASSUME NEW k \in g[z]
          PROVE  k \in g[c] \/ Before(o, t.i[k], t.i[c])
      <4>1. Before(o, t.i[n], t.i[c]) /\ k \in InTree(t)
        BY <3>3, <3>4, Nested DEF Before, Other
      <4>2. CASE k \in g[n] /\ k = n
        BY <4>1, <4>2
      <4>3. CASE k \in g[n] /\ k # n /\ k \notin g[c]
        <5>1. Before(o, t.i[k], t.i[n])
          BY <3>2, <3>4, <4>1, <4>3, OneSide DEF Search
        <5> QED
          BY <1>0, <3>2, <3>3, <4>1, <5>1, Trans
      <4>4. CASE k \notin g[n]
        <5>1. Before(o, t.i[k], t.i[n])
          BY <4>4
        <5> QED
          BY <1>0, <3>2, <3>3, <4>1, <5>1, Trans
      <4> QED
        BY <4>2, <4>3, <4>4
    <3>6. c \in T
      BY <3>2, <3>3, <3>5
    <3>7. Cardinality(g[c]) < Cardinality(g[n])
      <4>1. g[n] \subseteq Nodes
        BY <3>2, BelowTypes DEF InTree
      <4> HIDE DEF c
      <4> QED
        BY <3>3, <4>1, SmallerSet
    <3> QED
      BY <3>1, <3>6, <3>7
  <2> QED
    BY <2>1, <2>2
<1>3. nx \in [T -> T]
  BY <1>2
<1>4. m \in [T -> Nat] /\ \A n \in T : m[n] <= Size
  <2>1. \A n \in T : Cardinality(g[n]) \in Nat /\ Cardinality(g[n]) <= Size
    <3> TAKE n \in T
    <3>1. n \in InTree(t)
      BY Nested
    <3>2. g[n] \subseteq Nodes
      BY <3>1, BelowTypes DEF InTree
    <3> QED
      BY <3>2, SizeOf
  <2> QED
    BY <2>1
<1>5. \A n \in T : nx[n] = n \/ m[nx[n]] < m[n]
  BY <1>2, <1>3
<1>6. \A n \in T : nx[n] = DownSide(t, s, n)
  OBVIOUS
<1>7. \A n \in T : n \in InTree(t) /\ n \in g[z] /\ \A k \in g[z] : k \in g[n] \/ Before(o, t.i[k], t.i[n])
  BY Nested
<1> HIDE DEF T, nx, m
<1>8. PICK w : Iterates(w, nx, z, T, Size)
  BY <1>1, <1>3, SizeNat, CanIterate
<1>9. w[Size] \in T /\ nx[w[Size]] = w[Size]
  BY <1>1, <1>3, <1>4, <1>5, <1>8, SizeNat, Settles
<1>10. Outermost(t, z, s) = w[Size]
  BY <1>6, <1>8, SideWalk
<1> DEFINE e == Outermost(t, z, s)
<1>11. /\ e \in InTree(t) /\ e \in g[z] /\ DownSide(t, s, e) = e
       /\ \A k \in g[z] : k \in g[e] \/ Before(o, t.i[k], t.i[e])
  BY <1>6, <1>7, <1>9, <1>10
<1> HIDE DEF e
<1>12. t[s][e] = NIL_NODE
  BY <1>11, ChildTypes DEF DownSide
<1>13. ASSUME NEW k \in g[e], k # e
       PROVE  Before(o, t.i[k], t.i[e])
  <2>1. k \in InTree(t) /\ ~Before(s, t.i[k], t.i[e])
    BY <1>11, <1>12, Nested DEF Search, Below
  <2> QED
    BY <1>11, <1>13, <2>1, OneSide DEF Search
<1>14. LastOn(t, g, z, s, e)
  BY <1>11, <1>12, <1>13 DEF LastOn
<1> QED
  BY <1>14 DEF e
(* rb_suc() and rb_pre() walk up while they come from that side. *)
UpSide(t, s, n) == IF t.p[n] # NIL_NODE /\ n = t[s][t.p[n]] THEN t.p[n] ELSE n

LEMMA UpWalk ==
  ASSUME NEW t, NEW s, NEW z, NEW T, NEW nx, \A e \in T : nx[e] = UpSide(t, s, e),
         NEW w, Iterates(w, nx, z, T, Size), t[s][z] = NIL_NODE
  PROVE  NextOf(t, z, s) = t.p[w[Size]]
<1> DEFINE Rec(g) == [k \in 0..Cardinality(Nodes) |->
        IF k = 0 THEN z
        ELSE IF t.p[g[k - 1]] # NIL_NODE /\ g[k - 1] = t[s][t.p[g[k - 1]]] THEN t.p[g[k - 1]]
        ELSE g[k - 1]]
<1> DEFINE v == CHOOSE a : a = Rec(a)
<1>1. /\ w \in [0..Size -> T] /\ w[0] = z
      /\ \A k \in 1..Size : w[k] = UpSide(t, s, w[k - 1])
  BY SizeNat DEF Iterates
<1>2. w = Rec(w)
  <2>1. ASSUME NEW k \in 0..Size
        PROVE  w[k] = Rec(w)[k]
    <3>1. CASE k = 0
      BY <1>1, <3>1 DEF Size
    <3>2. CASE k # 0
      <4>1. k \in 1..Size
        BY <3>2, SizeNat
      <4> QED
        BY <1>1, <3>2, <4>1 DEF UpSide, Size
    <3> QED
      BY <3>1, <3>2
  <2> HIDE DEF Rec
  <2>2. DOMAIN Rec(w) = 0..Size /\ Rec(w) = [k \in 0..Size |-> Rec(w)[k]]
    BY DEF Rec, Size
  <2> QED
    BY <1>1, <2>1, <2>2
<1>3. v = Rec(v)
  <2> HIDE DEF Rec
  <2> QED
    BY <1>2
<1>4. NextOf(t, z, s) = t.p[v[Size]]
  BY DEF NextOf, Follow, Size
<1> HIDE DEF v
<1>5. v[0] = z /\ \A k \in 1..Size : v[k] = UpSide(t, s, v[k - 1])
  <2>1. v[0] = z
    BY <1>3, SizeNat DEF Size
  <2>2. ASSUME NEW k \in 1..Size
        PROVE  v[k] = UpSide(t, s, v[k - 1])
    <3>1. k \in 0..Cardinality(Nodes) /\ k # 0
      BY SizeNat DEF Size
    <3>2. v[k] = Rec(v)[k]
      BY <1>3
    <3> QED
      BY <3>1, <3>2 DEF UpSide
  <2> QED
    BY <2>1, <2>2
<1> HIDE DEF Rec
<1>6. v[0] = w[0] /\ \A k \in 1..Size : v[k - 1] = w[k - 1] => v[k] = w[k]
  BY <1>1, <1>5
<1>7. v[Size] = w[Size]
  BY <1>6, SizeNat, SameWalk
<1> QED
  BY <1>4, <1>7

(* e is the next node after n on side s of it. *)
NextTo(t, n, s, e) ==
    LET further == {m \in InTree(t) : Before(Other(s), t.i[n], t.i[m])} IN
    IF further = {} THEN e = NIL_NODE
    ELSE e \in further /\ \A m \in further : m = e \/ Before(Other(s), t.i[e], t.i[m])

LEMMA NextBelow ==
  ASSUME NEW t, NEW g, Search(t, g), NEW z \in InTree(t), NEW s \in Sides, t[s][z] # NIL_NODE
  PROVE  NextTo(t, z, s, NextOf(t, z, s))
<1> DEFINE o == Other(s)
           c == t[s][z]
           e == Outermost(t, c, o)
<1>1. c \in InTree(t) /\ g[c] = {m \in g[z] : Before(s, t.i[m], t.i[z])} /\ o \in Sides /\ Other(o) = s
      /\ c \in g[c] /\ \A n \in InTree(t) : t.i[n] \in Nat
  BY ChildTypes, SideTypes, BelowTypes, KeyTypes DEF Search, Below
<1>2. NextOf(t, z, s) = e
  BY DEF NextOf
<1>3. LastOn(t, g, c, o, e)
  BY <1>1, OutermostIs
<1> HIDE DEF e
<1>4. e \in InTree(t) /\ e \in g[z] /\ Before(s, t.i[e], t.i[z])
  BY <1>1, <1>3 DEF LastOn
<1>5. Before(o, t.i[z], t.i[e])
  BY <1>4 DEF Before, Other
<1>6. ASSUME NEW m \in InTree(t), Before(o, t.i[z], t.i[m]), m # e
      PROVE  Before(o, t.i[e], t.i[m])
  <2>1. CASE m \in g[z]
    <3>1. m \in g[c]
      BY <1>1, <1>6, <2>1 DEF Before, Other
    <3>2. Before(s, t.i[m], t.i[e])
      BY <1>1, <1>3, <1>6, <3>1 DEF LastOn
    <3> QED
      BY <3>2 DEF Before, Other
  <2>2. CASE m \notin g[z]
    <3>1. z \in g[z]
      BY BelowTypes
    <3>2. ~Before(o, t.i[m], t.i[e])
      BY <1>1, <1>4, <1>6, <2>2, <3>1, Between
    <3>3. Before(s, t.i[m], t.i[e])
      BY <1>1, <1>4, <1>6, <3>2, OneSide DEF Search
    <3> QED
      BY <3>3 DEF Before, Other
  <2> QED
    BY <2>1, <2>2
<1>7. NextTo(t, z, s, e)
  BY <1>4, <1>5, <1>6 DEF NextTo
<1> QED
  BY <1>2, <1>7

LEMMA NextAbove ==
  ASSUME NEW t, NEW g, Search(t, g), NEW z \in InTree(t), NEW s \in Sides, t[s][z] = NIL_NODE
  PROVE  NextTo(t, z, s, NextOf(t, z, s))
<1> DEFINE o == Other(s)
           T == {n \in InTree(t) : z \in g[n] /\ \A m \in g[n] : ~Before(o, t.i[z], t.i[m])}
           nx == [n \in T |-> UpSide(t, s, n)]
           m == [n \in T |-> Size - Cardinality(g[n])]
<1>0. /\ Shaped(t) /\ o \in Sides /\ Other(o) = s /\ o # s /\ z \in g[z]
      /\ \A n \in InTree(t) : t.i[n] \in Nat /\ n \in Pointers /\ n # NIL_NODE
  BY SideTypes, SideIsField, KeyTypes, BelowTypes DEF Search
<1>0a. \A x, y : Before(o, x, y) <=> Before(s, y, x)
  BY DEF Before, Other, Sides
<1>1. z \in T
  <2>1. ASSUME NEW k \in g[z], Before(o, t.i[z], t.i[k])
        PROVE  FALSE
    <3>1. Before(s, t.i[k], t.i[z])
      BY <1>0a, <2>1
    <3>2. k \in g[t[s][z]]
      BY <3>1 DEF Search, Below
    <3> QED
      BY <3>2 DEF Search, Below
  <2> QED
    BY <1>0, <2>1
<1>2. ASSUME NEW n \in T
      PROVE  UpSide(t, s, n) \in T
             /\ (UpSide(t, s, n) = n \/ Cardinality(g[n]) < Cardinality(g[UpSide(t, s, n)]))
  <2> DEFINE q == t.p[n]
  <2>1. CASE ~(q # NIL_NODE /\ n = t[s][q])
    BY <2>1 DEF UpSide
  <2>2. CASE q # NIL_NODE /\ n = t[s][q]
    <3>1. UpSide(t, s, n) = q
      BY <2>2 DEF UpSide
    <3>2. n # t.root
      BY <2>2, ChildOf
    <3>3. q \in InTree(t) /\ g[n] \subseteq g[q] /\ q \notin g[n] /\ q \in g[q]
      BY <3>2, ParentOf, BelowTypes
    <3>4. g[n] = {k \in g[q] : Before(s, t.i[k], t.i[q])}
      BY <2>2, <3>3 DEF Search, Below
    <3>5. Before(s, t.i[z], t.i[q])
      BY <3>4
    <3>6. ASSUME NEW k \in g[q], Before(o, t.i[z], t.i[k])
          PROVE  FALSE
      <4>1. Before(s, t.i[k], t.i[z]) /\ k \in InTree(t)
        BY <1>0a, <3>3, <3>6, Nested
      <4>2. Before(s, t.i[k], t.i[q])
        BY <1>0, <3>3, <3>5, <4>1, Trans
      <4> QED
        BY <3>4, <3>6, <4>2
    <3>7. q \in T
      BY <3>3, <3>6
    <3>8. Cardinality(g[n]) < Cardinality(g[q])
      <4>1. g[q] \subseteq Nodes
        BY <3>3, BelowTypes DEF InTree
      <4> HIDE DEF q
      <4> QED
        BY <3>3, <4>1, SmallerSet
    <3> QED
      BY <3>1, <3>7, <3>8
  <2> QED
    BY <2>1, <2>2
<1>3. nx \in [T -> T]
  BY <1>2
<1>4. \A n \in T : Cardinality(g[n]) \in Nat /\ Cardinality(g[n]) <= Size
  <2> TAKE n \in T
  <2>1. g[n] \subseteq Nodes
    BY BelowTypes DEF InTree
  <2> QED
    BY <2>1, SizeOf
<1>5. m \in [T -> Nat] /\ \A n \in T : m[n] <= Size
  BY <1>4, SizeNat
<1>6. \A n \in T : nx[n] = n \/ m[nx[n]] < m[n]
  <2> TAKE n \in T
  <2>1. nx[n] = UpSide(t, s, n) /\ nx[n] \in T
    BY <1>2
  <2>2. nx[n] = n \/ Cardinality(g[n]) < Cardinality(g[nx[n]])
    BY <1>2, <2>1
  <2> HIDE DEF nx, T
  <2>3. Cardinality(g[n]) \in Nat /\ Cardinality(g[nx[n]]) \in Nat
    BY <1>4, <2>1
  <2> QED
    BY <2>1, <2>2, <2>3, SizeNat
<1>7. \A n \in T : nx[n] = UpSide(t, s, n)
  OBVIOUS
<1>8. \A n \in T : n \in InTree(t) /\ z \in g[n] /\ \A k \in g[n] : ~Before(o, t.i[z], t.i[k])
  OBVIOUS
<1> HIDE DEF T, nx, m
<1>9. PICK w : Iterates(w, nx, z, T, Size)
  BY <1>1, <1>3, SizeNat, CanIterate
<1>10. w[Size] \in T /\ nx[w[Size]] = w[Size]
  BY <1>1, <1>3, <1>5, <1>6, <1>9, SizeNat, Settles
<1>11. NextOf(t, z, s) = t.p[w[Size]]
  BY <1>7, <1>9, UpWalk
<1>12. PICK e \in InTree(t) :
         /\ NextOf(t, z, s) = t.p[e] /\ UpSide(t, s, e) = e /\ z \in g[e]
         /\ \A k \in g[e] : ~Before(o, t.i[z], t.i[k])
  BY <1>7, <1>8, <1>10, <1>11
<1> DEFINE q == t.p[e]
<1>13. CASE e = t.root
  <2>1. q = NIL_NODE
    BY <1>13, RootTypes, <1>0
  <2>2. \A k \in InTree(t) : ~Before(o, t.i[z], t.i[k])
    BY <1>12, <1>13, RootTypes
  <2> QED
    BY <1>12, <2>1, <2>2 DEF NextTo
<1>14. CASE e # t.root
  <2>1. q \in InTree(t) /\ q # e
    BY <1>14, ParentOf
  <2>2. t[s][q] # e
    BY <1>0, <1>12, <2>1 DEF UpSide
  <2>3. t[o][q] = e
    BY <1>14, <2>2, ParentOf, SideIsField
  <2>4. g[e] = {k \in g[q] : Before(o, t.i[k], t.i[q])}
    BY <1>0, <2>1, <2>3 DEF Search, Below
  <2>5. Before(o, t.i[z], t.i[q]) /\ z \in g[q] /\ q \in g[q]
    BY <1>12, <2>1, <2>4, BelowTypes
  <2>6. ASSUME NEW k \in InTree(t), Before(o, t.i[z], t.i[k]), k # q
        PROVE  Before(o, t.i[q], t.i[k])
    <3> SUFFICES ASSUME Before(o, t.i[k], t.i[q])
                 PROVE  FALSE
      BY <1>0, <1>0a, <2>1, <2>6, OneSide DEF Search
    <3>1. k \in g[q]
      BY <1>0, <2>1, <2>5, <2>6, Between
    <3>2. k \in g[e]
      BY <2>4, <3>1
    <3> QED
      BY <1>12, <2>6, <3>2
  <2>7. NextTo(t, z, s, q)
    BY <2>1, <2>5, <2>6 DEF NextTo
  <2> QED
    BY <1>12, <2>7
<1> QED
  BY <1>13, <1>14

LEMMA NextIs ==
  ASSUME NEW t, NEW g, Search(t, g), NEW z \in InTree(t), NEW s \in Sides
  PROVE  NextTo(t, z, s, NextOf(t, z, s))
BY NextBelow, NextAbove
-----------------------------------------------------------------------------
(* What rb_insert() comes to: z is a red leaf under e, or root. *)
Hung(t, u, e, z, key) ==
    /\ Shaped(u)
    /\ \A n \in Nodes : u.i[n] = IF n = z THEN key ELSE t.i[n]
    /\ \A n \in Pointers : u.c[n] = IF n = z THEN "red" ELSE t.c[n]
    /\ \A n \in Pointers : u.p[n] = IF n = z THEN e ELSE t.p[n]
    /\ u.root = IF e = NIL_NODE THEN z ELSE t.root
    /\ \A n \in Pointers, f \in Sides :
          u[f][n] = IF e # NIL_NODE /\ n = e /\ f = Toward(t, key, e) THEN z ELSE t[f][n]

LEMMA LinkIs ==
  ASSUME Shaped(rbt), NEW e \in Pointers, NEW z \in Nodes, NEW key \in Keys
  PROVE  Hung(rbt, LinkUnder(e, z, key), e, z, key)
<1> DEFINE new == [rbt EXCEPT !.i[z] = key, !.c[z] = "red", !.p[z] = e]
           u == LinkUnder(e, z, key)
<1>1. z \in Pointers /\ z # NIL_NODE
  BY NilApart DEF Pointers
<1>2. /\ Shaped(new) /\ new.l = rbt.l /\ new.r = rbt.r /\ new.root = rbt.root
      /\ new.i = [rbt.i EXCEPT ![z] = key] /\ new.c = [rbt.c EXCEPT ![z] = "red"]
      /\ new.p = [rbt.p EXCEPT ![z] = e]
  <2> DEFINE t1 == [rbt EXCEPT !.i[z] = key]
             t2 == Paint(t1, z, "red")
  <2>1. Shaped(t1) /\ t1.c = rbt.c /\ t1.i = [rbt.i EXCEPT ![z] = key] /\ t1.root = rbt.root
        /\ t1.l = rbt.l /\ t1.r = rbt.r /\ t1.p = rbt.p
    BY DEF Shaped
  <2>2. new = Put(t2, "p", z, e)
    BY DEF Put, Paint
  <2> HIDE DEF t1, new
  <2>3. Shaped(t2) /\ t2.i = t1.i /\ t2.root = t1.root /\ t2.l = t1.l /\ t2.r = t1.r /\ t2.p = t1.p
        /\ t2.c = [t1.c EXCEPT ![z] = "red"]
    BY <1>1, <2>1 DEF Shaped, Paint
  <2> HIDE DEF t2
  <2>4. Shaped(new) /\ new.i = t2.i /\ new.root = t2.root /\ new.l = t2.l /\ new.r = t2.r
        /\ new.p = [t2.p EXCEPT ![z] = e] /\ new.c = t2.c
    BY <1>1, <2>2, <2>3 DEF Shaped, Put
  <2> QED
    BY <2>1, <2>3, <2>4
<1>3. u = IF e = NIL_NODE THEN [new EXCEPT !.root = z]
          ELSE IF key < rbt.i[e] THEN [new EXCEPT !.l[e] = z] ELSE [new EXCEPT !.r[e] = z]
  BY DEF LinkUnder
<1> HIDE DEF new, u
<1>4. /\ Shaped(u) /\ u.i = new.i /\ u.c = new.c /\ u.p = new.p
      /\ u.root = IF e = NIL_NODE THEN z ELSE new.root
      /\ u.l = IF e # NIL_NODE /\ key < rbt.i[e] THEN [new.l EXCEPT ![e] = z] ELSE new.l
      /\ u.r = IF e # NIL_NODE /\ ~(key < rbt.i[e]) THEN [new.r EXCEPT ![e] = z] ELSE new.r
  BY <1>1, <1>2, <1>3 DEF Shaped
<1>5. \A n \in Pointers, f \in Sides :
          u[f][n] = IF e # NIL_NODE /\ n = e /\ f = Toward(rbt, key, e) THEN z ELSE rbt[f][n]
  BY <1>2, <1>4 DEF Shaped, Sides, Toward
<1>6. /\ \A n \in Nodes : u.i[n] = IF n = z THEN key ELSE rbt.i[n]
      /\ \A n \in Pointers : u.c[n] = IF n = z THEN "red" ELSE rbt.c[n]
      /\ \A n \in Pointers : u.p[n] = IF n = z THEN e ELSE rbt.p[n]
  BY <1>2, <1>4 DEF Shaped
<1>7. Hung(rbt, u, e, z, key)
  BY <1>2, <1>4, <1>5, <1>6 DEF Hung
<1> QED
  BY <1>7 DEF u

HungBelow(g, e, z) ==
    [a \in Pointers |-> IF a = z THEN {z} ELSE IF e \in g[a] THEN g[a] \union {z} ELSE g[a]]

(* A new leaf where get_node_by_key() ended. *)
NewLeaf(t, g, key, e, z) ==
    /\ Located(t, g, key, e) /\ (e # NIL_NODE => t.i[e] # key)
    /\ z \in Nodes /\ z \notin InTree(t) /\ key \in Keys

LEMMA LeafNodes ==
  ASSUME NEW t, NEW g, Search(t, g), NEW key, NEW e, NEW z, NewLeaf(t, g, key, e, z)
  PROVE  /\ z \in Pointers /\ z # NIL_NODE /\ e \in Pointers /\ e # z /\ key \in Nat
         /\ e = NIL_NODE <=> t.root = NIL_NODE
         /\ e = NIL_NODE => InTree(t) = {}
         /\ e # NIL_NODE => /\ e \in InTree(t) /\ Toward(t, key, e) \in Sides
                            /\ t[Toward(t, key, e)][e] = NIL_NODE
                            /\ \A s \in Sides : Before(s, key, t.i[e]) <=> s = Toward(t, key, e)
         /\ \A n \in InTree(t) : t.i[n] # key
         /\ \A f \in Sides : t[f][z] = NIL_NODE
         /\ \A n \in InTree(t), f \in Sides : t[f][n] # z
<1>1. z \in Pointers /\ z # NIL_NODE /\ key \in Nat /\ Shaped(t) /\ key \in Keys /\ z \notin InTree(t)
  BY NilApart DEF Pointers, NewLeaf, Search
<1>2. \A f \in Sides : t[f][z] = NIL_NODE
  BY <1>1 DEF Search, Linked
<1>3. \A n \in InTree(t), f \in Sides : t[f][n] # z
  BY <1>1, ChildTypes
<1>4. CASE t.root = NIL_NODE
  <2>1. e = NIL_NODE /\ InTree(t) = {}
    BY <1>4, RootTypes DEF NewLeaf, Located
  <2> QED
    BY <1>1, <1>2, <1>3, <1>4, <2>1 DEF Pointers
<1>5. CASE t.root # NIL_NODE
  <2>1. WayTo(t, g, key, e)
    BY <1>5 DEF NewLeaf, Located
  <2>2. e \in InTree(t)
    BY <2>1 DEF WayTo
  <2>3. e \in Pointers /\ e # NIL_NODE /\ e # z
    BY <1>1, <2>2, KeyTypes
  <2>4. t.i[e] # key /\ t[Toward(t, key, e)][e] = NIL_NODE /\ \A n \in InTree(t) : t.i[n] # key
    BY <1>5, <2>3 DEF NewLeaf, Located
  <2>5. Toward(t, key, e) \in Sides
        /\ \A s \in Sides : Before(s, key, t.i[e]) <=> s = Toward(t, key, e)
    BY <1>1, <2>2, <2>4, TowardIs
  <2> QED
    BY <1>1, <1>2, <1>3, <1>5, <2>2, <2>3, <2>4, <2>5
<1> QED
  BY <1>4, <1>5

LEMMA HungLinked ==
  ASSUME NEW t, NEW g, Search(t, g), NEW key, NEW e, NEW z, NewLeaf(t, g, key, e, z),
         NEW u, Hung(t, u, e, z, key)
  PROVE  Linked(u) /\ InTree(u) = InTree(t) \union {z} /\ Distinct(u)
<1>1. /\ z \in Pointers /\ z # NIL_NODE /\ e \in Pointers /\ e # z /\ key \in Nat
      /\ e = NIL_NODE <=> t.root = NIL_NODE
      /\ e = NIL_NODE => InTree(t) = {}
      /\ e # NIL_NODE => /\ e \in InTree(t) /\ Toward(t, key, e) \in Sides
                         /\ t[Toward(t, key, e)][e] = NIL_NODE
      /\ \A n \in InTree(t) : t.i[n] # key
      /\ \A f \in Sides : t[f][z] = NIL_NODE
      /\ \A n \in InTree(t), f \in Sides : t[f][n] # z
  BY LeafNodes
<1>2. z \in Nodes /\ z \notin InTree(t) /\ key # NoKey
  BY NilApart DEF NewLeaf
<1> DEFINE s == Toward(t, key, e)
<1>3. /\ \A n \in Nodes : u.i[n] = IF n = z THEN key ELSE t.i[n]
      /\ \A n \in Pointers : u.p[n] = IF n = z THEN e ELSE t.p[n]
      /\ u.root = IF e = NIL_NODE THEN z ELSE t.root
      /\ \A n \in Pointers, f \in Sides :
            u[f][n] = IF e # NIL_NODE /\ n = e /\ f = s THEN z ELSE t[f][n]
  BY DEF Hung
<1> HIDE DEF s
<1>4. InTree(u) = InTree(t) \union {z}
  BY <1>2, <1>3 DEF InTree
<1>5. Distinct(u)
  <2>1. \A n \in InTree(t) : u.i[n] = t.i[n] /\ n # z
    BY <1>2, <1>3 DEF InTree
  <2>2. u.i[z] = key
    BY <1>2, <1>3
  <2> QED
    BY <1>1, <1>4, <2>1, <2>2 DEF Distinct, Search
<1>6. \A n \in InTree(t) : n \in Pointers /\ n # z /\ n # NIL_NODE
  BY <1>2, KeyTypes DEF Search
<1>7. u.root # NIL_NODE => u.root \in InTree(u) /\ u.p[u.root] = NIL_NODE
  BY <1>1, <1>3, <1>4, <1>6, RootTypes
<1>8. ASSUME NEW n \in InTree(u), NEW f \in Sides, u[f][n] # NIL_NODE
      PROVE  u[f][n] \in InTree(u) /\ u.p[u[f][n]] = n
  <2>1. CASE e # NIL_NODE /\ n = e /\ f = s
    BY <1>1, <1>3, <1>4, <2>1
  <2>2. CASE ~(e # NIL_NODE /\ n = e /\ f = s)
    <3>1. n \in Pointers
      BY <1>1, <1>4, <1>6
    <3>2. u[f][n] = t[f][n]
      BY <1>3, <2>2, <3>1
    <3>3. n \in InTree(t)
      BY <1>1, <1>4, <1>8, <3>2
    <3>4. t[f][n] \in InTree(t) /\ t.p[t[f][n]] = n
      BY <1>8, <3>2, <3>3, ChildTypes
    <3> QED
      BY <1>3, <1>4, <1>6, <3>2, <3>4
  <2> QED
    BY <2>1, <2>2
<1>9. ASSUME NEW n \in InTree(u), n # u.root
      PROVE  u.p[n] \in InTree(u) /\ \E f \in Sides : u[f][u.p[n]] = n
  <2>1. CASE n = z
    BY <1>1, <1>3, <1>4, <1>9, <2>1 DEF s
  <2>2. CASE n # z
    <3>1. n \in InTree(t) /\ e # NIL_NODE /\ n # t.root /\ u.p[n] = t.p[n]
      BY <1>1, <1>3, <1>4, <1>6, <1>9, <2>2
    <3>2. PICK f \in Sides : t.p[n] \in InTree(t) /\ t[f][t.p[n]] = n
      BY <3>1, ParentOf
    <3>3. ~(t.p[n] = e /\ f = s)
      BY <1>1, <1>6, <3>1, <3>2 DEF s
    <3>4. u[f][t.p[n]] = n
      BY <1>3, <1>6, <3>2, <3>3
    <3> QED
      BY <1>4, <3>1, <3>2, <3>4
  <2> QED
    BY <2>1, <2>2
<1>10. ASSUME NEW n \in Pointers, NEW f \in Sides, n \notin InTree(u)
       PROVE  u[f][n] = NIL_NODE
  <2>1. n \notin InTree(t) /\ ~(e # NIL_NODE /\ n = e)
    BY <1>1, <1>4, <1>10
  <2>2. t[f][n] = NIL_NODE
    BY <2>1 DEF Search, Linked
  <2> QED
    BY <1>3, <2>1, <2>2
<1> QED
  BY <1>4, <1>5, <1>7, <1>8, <1>9, <1>10 DEF Linked

LEMMA HungSearch ==
  ASSUME NEW t, NEW g, Search(t, g), NEW key, NEW e, NEW z, NewLeaf(t, g, key, e, z),
         NEW u, Hung(t, u, e, z, key)
  PROVE  Search(u, HungBelow(g, e, z)) /\ InTree(u) = InTree(t) \union {z}
<1> DEFINE s == Toward(t, key, e)
           k == HungBelow(g, e, z)
<1>1. /\ z \in Pointers /\ z # NIL_NODE /\ e \in Pointers /\ e # z /\ key \in Nat
      /\ e = NIL_NODE <=> t.root = NIL_NODE
      /\ e = NIL_NODE => InTree(t) = {}
      /\ e # NIL_NODE => /\ e \in InTree(t) /\ s \in Sides /\ t[s][e] = NIL_NODE
                         /\ \A f \in Sides : Before(f, key, t.i[e]) <=> f = s
      /\ \A f \in Sides : t[f][z] = NIL_NODE
      /\ \A n \in InTree(t), f \in Sides : t[f][n] # z
  BY LeafNodes
<1>2. z \in Nodes /\ z \notin InTree(t)
  BY DEF NewLeaf
<1>3. /\ \A n \in Nodes : u.i[n] = IF n = z THEN key ELSE t.i[n]
      /\ u.root = IF e = NIL_NODE THEN z ELSE t.root
      /\ \A n \in Pointers, f \in Sides :
            u[f][n] = IF e # NIL_NODE /\ n = e /\ f = s THEN z ELSE t[f][n]
  BY DEF Hung
<1> HIDE DEF s
<1>4. Linked(u) /\ Distinct(u) /\ InTree(u) = InTree(t) \union {z}
  BY HungLinked
<1>5. /\ g \in [Pointers -> SUBSET InTree(t)] /\ g[NIL_NODE] = {} /\ NIL_NODE \in Pointers
      /\ g[t.root] = InTree(t) /\ t.root \in Pointers
  BY RootTypes DEF Search, Below, Pointers
<1>6. \A a \in Pointers : k[a] = IF a = z THEN {z} ELSE IF e \in g[a] THEN g[a] \union {z} ELSE g[a]
  BY DEF HungBelow
<1>7. k \in [Pointers -> SUBSET InTree(u)]
  BY <1>4, <1>5 DEF HungBelow
<1> HIDE DEF k
<1>8. k[NIL_NODE] = {}
  BY <1>1, <1>5, <1>6
<1>9. k[u.root] = InTree(u)
  <2>1. CASE e = NIL_NODE
    BY <1>1, <1>3, <1>4, <1>6, <2>1
  <2>2. CASE e # NIL_NODE
    <3>1. t.root # z /\ e \in g[t.root]
      BY <1>1, <1>2, <1>5, <2>2, RootTypes
    <3> QED
      BY <1>3, <1>4, <1>5, <1>6, <2>2, <3>1
  <2> QED
    BY <2>1, <2>2
<1>10. \A n \in InTree(t) : n \in Pointers /\ n # z /\ n \in Nodes /\ n \in g[n]
  BY <1>2, KeyTypes, BelowTypes DEF Search
<1>11. \A n \in InTree(u) : n \in k[n]
  BY <1>1, <1>4, <1>6, <1>10
<1>12. u.i[z] = key /\ \A n \in InTree(t) : u.i[n] = t.i[n]
  BY <1>2, <1>3, <1>10
<1>13. ASSUME NEW n \in InTree(u), NEW f \in Sides
       PROVE  k[u[f][n]] = {m \in k[n] : Before(f, u.i[m], u.i[n])}
  <2>1. CASE n = z
    <3>1. u[f][n] = NIL_NODE
      BY <1>1, <1>3, <2>1
    <3>2. ~Before(f, key, key)
      BY <1>1 DEF Before
    <3> QED
      BY <1>1, <1>6, <1>8, <1>12, <2>1, <3>1, <3>2
  <2>2. CASE n # z
    <3>1. n \in InTree(t) /\ n \in Pointers /\ e # NIL_NODE /\ e \in InTree(t)
      BY <1>1, <1>4, <1>10, <2>2
    <3> DEFINE c == t[f][n]
    <3>2. c \in Pointers /\ c # z /\ g[c] = {m \in g[n] : Before(f, t.i[m], t.i[n])} /\ g[n] \subseteq InTree(t)
          /\ n \notin g[c]
      BY <1>1, <3>1, ChildTypes, BelowTypes DEF Search, Below
    <3> HIDE DEF c
    <3>3. g[c] = {m \in g[n] : Before(f, u.i[m], u.i[n])}
      BY <1>12, <3>1, <3>2
    <3>4. k[n] = IF e \in g[n] THEN g[n] \union {z} ELSE g[n]
      BY <1>6, <2>2, <3>1
    <3>5. CASE n = e
      <4>1. k[n] = g[n] \union {z} /\ u.i[n] = t.i[e]
        BY <1>10, <1>12, <3>1, <3>4, <3>5
      <4>2. CASE f = s
        <5>1. u[f][n] = z
          BY <1>3, <3>1, <3>5, <4>2
        <5>2. g[c] = {}
          BY <1>1, <1>5, <3>1, <3>5, <4>2 DEF c
        <5>3. Before(f, u.i[z], u.i[n])
          BY <1>1, <1>12, <3>1, <4>1, <4>2
        <5>4. k[z] = {z}
          BY <1>1, <1>6
        <5> QED
          BY <3>3, <4>1, <5>1, <5>2, <5>3, <5>4
      <4>3. CASE f # s
        <5>1. u[f][n] = c
          BY <1>3, <3>1, <3>5, <4>3 DEF c
        <5>2. ~Before(f, u.i[z], u.i[n])
          BY <1>1, <1>12, <3>1, <4>1, <4>3
        <5>3. k[c] = g[c]
          BY <1>6, <3>2, <3>5
        <5> QED
          BY <3>3, <4>1, <5>1, <5>2, <5>3
      <4> QED
        BY <4>2, <4>3
    <3>6. CASE n # e
      <4>1. u[f][n] = c
        BY <1>3, <3>1, <3>6 DEF c
      <4>2. k[c] = IF e \in g[c] THEN g[c] \union {z} ELSE g[c]
        BY <1>6, <3>2
      <4>3. CASE e \notin g[n]
        BY <3>2, <3>3, <3>4, <4>1, <4>2, <4>3
      <4>4. CASE e \in g[n]
        <5>1. WayTo(t, g, key, e)
          BY <1>1, <3>1 DEF NewLeaf, Located
        <5>2. Before(f, key, t.i[n]) <=> Before(f, t.i[e], t.i[n])
          BY <3>1, <3>6, <4>4, <5>1 DEF WayTo
        <5>3. Before(f, u.i[z], u.i[n]) <=> e \in g[c]
          BY <1>12, <3>1, <3>2, <4>4, <5>2
        <5> QED
          BY <3>3, <3>4, <4>1, <4>2, <4>4, <5>3
      <4> QED
        BY <4>3, <4>4
    <3> QED
      BY <3>5, <3>6
  <2> QED
    BY <2>1, <2>2
<1>14. Below(u, k)
  BY <1>7, <1>8, <1>9, <1>11, <1>13 DEF Below
<1>15. Search(u, k)
  BY <1>4, <1>14 DEF Search, Hung
<1> QED
  BY <1>4, <1>15 DEF k
-----------------------------------------------------------------------------
(* When no operation is under way. *)
Balanced(t, h) ==
    /\ Counted(t, h, NIL_NODE, "l")
    /\ RedsApart(t, NIL_NODE, NIL_NODE)
    /\ t.c[t.root] = "black"

LEMMA HungInserting ==
  ASSUME NEW t, NEW g, Search(t, g), NEW key, NEW e, NEW z, NewLeaf(t, g, key, e, z),
         NEW u, Hung(t, u, e, z, key), NEW h, Balanced(t, h)
  PROVE  \E k : Inserting(u, z, k)
<1> DEFINE s == Toward(t, key, e)
           k == [h EXCEPT ![z] = 0]
<1>1. /\ z \in Pointers /\ z # NIL_NODE /\ e \in Pointers /\ e # z /\ key \in Nat
      /\ e = NIL_NODE => InTree(t) = {}
      /\ e # NIL_NODE => e \in InTree(t) /\ s \in Sides /\ t[s][e] = NIL_NODE
      /\ \A f \in Sides : t[f][z] = NIL_NODE
      /\ \A n \in InTree(t), f \in Sides : t[f][n] # z
  BY LeafNodes
<1>2. z \in Nodes /\ z \notin InTree(t) /\ InTree(u) = InTree(t) \union {z}
  BY HungLinked DEF NewLeaf
<1>3. /\ \A n \in Pointers : u.c[n] = IF n = z THEN "red" ELSE t.c[n]
      /\ \A n \in Pointers : u.p[n] = IF n = z THEN e ELSE t.p[n]
      /\ u.root = IF e = NIL_NODE THEN z ELSE t.root
      /\ \A n \in Pointers, f \in Sides :
            u[f][n] = IF e # NIL_NODE /\ n = e /\ f = s THEN z ELSE t[f][n]
      /\ Shaped(u)
  BY DEF Hung
<1> HIDE DEF s
<1>4. h \in [Pointers -> Nat] /\ h[NIL_NODE] = 0 /\ NIL_NODE \in Pointers
  BY DEF Balanced, Counted, Pointers
<1>5. k \in [Pointers -> Nat] /\ \A n \in Pointers : k[n] = IF n = z THEN 0 ELSE h[n]
  BY <1>1, <1>4
<1> HIDE DEF k
<1>6. \A n \in InTree(t) : n \in Pointers /\ n # z /\ n # NIL_NODE
  BY <1>2, KeyTypes DEF Search
<1>7. ASSUME NEW n \in InTree(u), NEW f \in Sides
      PROVE  CountedAt(u, k, NIL_NODE, "l", n, f)
  <2>1. Missing(n, f, NIL_NODE, "l") = 0
    BY <1>3, NoneMissing
  <2>2. CASE n = z
    <3>1. u[f][n] = NIL_NODE /\ Black(u, n) = 0
      BY <1>1, <1>3, <2>2 DEF Black
    <3> QED
      BY <1>1, <1>4, <1>5, <2>1, <2>2, <3>1 DEF CountedAt
  <2>3. CASE n # z
    <3>1. n \in InTree(t) /\ n \in Pointers
      BY <1>2, <1>6, <2>3
    <3>2. h[n] = h[t[f][n]] + Black(t, n) + Missing(n, f, NIL_NODE, "l")
      BY <3>1 DEF Balanced, Counted, CountedAt
    <3>3. Black(u, n) = Black(t, n) /\ t[f][n] \in Pointers /\ t[f][n] # z
      BY <1>1, <1>3, <2>3, <3>1, ChildTypes DEF Black
    <3>4. k[u[f][n]] = h[t[f][n]]
      BY <1>1, <1>3, <1>4, <1>5, <3>1, <3>3
    <3> QED
      BY <1>5, <2>3, <3>1, <3>2, <3>3, <3>4 DEF CountedAt
  <2> QED
    BY <2>2, <2>3
<1>8. Counted(u, k, NIL_NODE, "l")
  BY <1>1, <1>4, <1>5, <1>7 DEF Counted
<1>9. RedsApart(u, z, NIL_NODE)
  <2>1. ASSUME NEW n \in InTree(t), u.c[n] = "red"
        PROVE  u.c[u.p[n]] = "black"
    <3>1. t.c[n] = "red" /\ u.p[n] = t.p[n]
      BY <1>3, <1>6, <2>1
    <3>2. t.c[t.p[n]] = "black"
      <4>1. t.c[NIL_NODE] = "black"
        BY DEF Search, Shaped
      <4> QED
        BY <3>1, <4>1 DEF Balanced, RedsApart
    <3>3. t.p[n] \in Pointers /\ t.p[n] # z
      <4>1. n # t.root => t.p[n] \in InTree(t)
        BY ParentOf
      <4> QED
        BY <1>1, <1>2, <4>1, RootTypes, ChildOf
    <3> QED
      BY <1>3, <3>1, <3>2, <3>3
  <2> QED
    BY <1>2, <2>1 DEF RedsApart
<1>10. u.c[z] = "red" /\ (u.c[u.root] = "red" => u.root = z)
  <2>1. t.root \in Pointers /\ t.c[t.root] = "black"
    BY RootTypes DEF Balanced
  <2> QED
    BY <1>1, <1>3, <2>1
<1> QED
  BY <1>2, <1>8, <1>9, <1>10 DEF Inserting

(* The way down to a has one black node too few: q and e tell where. *)
HangsAt(t, a, q, e) ==
    IF a = t.root THEN q = NIL_NODE
    ELSE q \in InTree(t) /\ q = t.p[a] /\ e \in Sides /\ t[e][q] = a

LEMMA Darken ==
  ASSUME NEW t, NEW g, Search(t, g), NEW a \in InTree(t), t.c[a] = "red",
         NEW q, NEW e, HangsAt(t, a, q, e), NEW h, Counted(t, h, q, e)
  PROVE  Counted(Paint(t, a, "black"), [h EXCEPT ![a] = h[a] + 1], NIL_NODE, "l")
<1> DEFINE u == Paint(t, a, "black")
           k == [h EXCEPT ![a] = h[a] + 1]
<1>1. a \in Pointers /\ a # NIL_NODE /\ Shaped(t)
  BY KeyTypes DEF Search
<1>2. /\ Shaped(u) /\ SameTree(t, u)
      /\ \A m \in Pointers : u.c[m] = IF m = a THEN "black" ELSE t.c[m]
  BY <1>1, PaintIs
<1> HIDE DEF u
<1>3. InTree(u) = InTree(t) /\ \A f \in Sides : u[f] = t[f]
  BY <1>2, SameSearch, SideIsField DEF SameTree
<1>4. h \in [Pointers -> Nat] /\ h[NIL_NODE] = 0
  BY DEF Counted
<1>5. k \in [Pointers -> Nat] /\ \A n \in Pointers : k[n] = IF n = a THEN h[a] + 1 ELSE h[n]
  BY <1>1, <1>4
<1> HIDE DEF k
<1>6. ASSUME NEW n \in InTree(t), NEW f \in Sides
      PROVE  k[n] = k[t[f][n]] + Black(u, n)
  <2>1. n \in Pointers /\ n # NIL_NODE /\ t[f][n] \in Pointers /\ t[f][n] # n
    BY <1>1, KeyTypes, ChildTypes
  <2>2. h[n] = h[t[f][n]] + Black(t, n) + Missing(n, f, q, e) /\ h[n] \in Nat /\ h[t[f][n]] \in Nat
    BY <1>4, <2>1 DEF Counted, CountedAt
  <2>3. CASE n = a
    <3>1. Missing(n, f, q, e) = 0
      <4>1. a # t.root => q # a
        BY ParentOf DEF HangsAt
      <4> QED
        BY <1>1, <2>3, <4>1 DEF Missing, HangsAt
    <3>2. Black(t, n) = 0 /\ Black(u, n) = 1
      BY <1>1, <1>2, <2>3 DEF Black
    <3> QED
      BY <1>5, <2>1, <2>2, <2>3, <3>1, <3>2
  <2>4. CASE n # a /\ t[f][n] = a
    <3>1. a # t.root /\ q = n /\ e = f
      <4>1. t.p[a] = n
        BY <1>1, <2>4, ChildTypes
      <4>2. a # t.root
        BY <1>1, <2>1, <4>1, RootTypes
      <4>3. q = n /\ t[e][n] = a /\ e \in Sides
        BY <4>1, <4>2 DEF HangsAt
      <4>4. e = f
        BY <1>1, <2>4, <4>3, ChildTypes, SideIsField
      <4> QED
        BY <4>2, <4>3, <4>4
    <3>2. Missing(n, f, q, e) = 1
      BY <3>1 DEF Missing
    <3>3. Black(u, n) = Black(t, n) /\ Black(t, n) \in Nat
      BY <1>2, <2>1, <2>4 DEF Black
    <3>4. k[n] = h[n] /\ k[t[f][n]] = h[t[f][n]] + 1
      BY <1>5, <2>1, <2>4
    <3> QED
      BY <2>2, <3>2, <3>3, <3>4
  <2>5. CASE n # a /\ t[f][n] # a
    <3>1. Missing(n, f, q, e) = 0
      <4>1. a # t.root => t[e][q] = a
        BY DEF HangsAt
      <4> QED
        BY <2>1, <2>5, <4>1 DEF Missing, HangsAt
    <3>2. Black(u, n) = Black(t, n) /\ Black(t, n) \in Nat
      BY <1>2, <2>1, <2>5 DEF Black
    <3>3. k[n] = h[n] /\ k[t[f][n]] = h[t[f][n]]
      BY <1>5, <2>1, <2>5
    <3> QED
      BY <2>2, <3>1, <3>2, <3>3
  <2> QED
    BY <2>3, <2>4, <2>5
<1>7. ASSUME NEW n \in InTree(u), NEW f \in Sides
      PROVE  CountedAt(u, k, NIL_NODE, "l", n, f)
  <2>1. Missing(n, f, NIL_NODE, "l") = 0
    BY <1>2, NoneMissing
  <2>2. k[n] = k[u[f][n]] + Black(u, n) /\ n \in Pointers /\ u[f][n] \in Pointers
    BY <1>1, <1>3, <1>6, KeyTypes, ChildTypes
  <2> QED
    BY <1>5, <2>1, <2>2 DEF CountedAt, Black
<1>8. Counted(u, k, NIL_NODE, "l")
  BY <1>1, <1>4, <1>5, <1>7 DEF Counted, Pointers
<1> QED
  BY <1>8 DEF u, k

(* rb_insert_fixup() is done. *)
LEMMA InsertEnds ==
  ASSUME NEW t, NEW g, Search(t, g), NEW a, NEW h, Inserting(t, a, h), t.c[t.p[a]] = "black"
  PROVE  /\ Search(Blacken(t, t.root), g) /\ InTree(Blacken(t, t.root)) = InTree(t)
         /\ \E k : Balanced(Blacken(t, t.root), k)
<1> DEFINE u == Paint(t, t.root, "black")
<1>1. Shaped(t) /\ a \in InTree(t) /\ t.root \in Pointers
  BY RootTypes DEF Inserting, Search
<1>2. /\ Shaped(u) /\ SameTree(t, u)
      /\ \A m \in Pointers : u.c[m] = IF m = t.root THEN "black" ELSE t.c[m]
  BY <1>1, PaintIs
<1>3. Blacken(t, t.root) = u
  BY PaintNames
<1>4. Search(u, g) /\ InTree(u) = InTree(t) /\ u.root = t.root /\ u.p = t.p
  BY <1>2, SameSearch DEF SameTree, Fields
<1>5. \E k : Counted(u, k, NIL_NODE, "l")
  <2>1. CASE t.c[t.root] = "red"
    <3>1. t.root \in InTree(t)
      BY <1>1, <2>1 DEF Inserting
    <3>2. HangsAt(t, t.root, NIL_NODE, "l")
      BY DEF HangsAt
    <3>3. Counted(t, h, NIL_NODE, "l")
      BY DEF Inserting
    <3> QED
      BY <2>1, <3>1, <3>2, <3>3, Darken
  <2>2. CASE t.c[t.root] # "red"
    <3>1. \A n \in Pointers : u.c[n] = t.c[n]
      BY <1>1, <1>2, <2>2, Colours
    <3>2. \A n \in InTree(t) : n \in Pointers
      BY <1>1, KeyTypes
    <3>3. \A f \in Sides : u[f] = t[f]
      BY <1>2, SideIsField DEF SameTree
    <3> HIDE DEF u
    <3>4. Counted(u, h, NIL_NODE, "l")
      BY <1>4, <3>1, <3>2, <3>3 DEF Inserting, Counted, CountedAt, Black
    <3> QED
      BY <3>4
  <2> QED
    BY <2>1, <2>2
<1>6. RedsApart(u, NIL_NODE, NIL_NODE)
  <2> SUFFICES ASSUME NEW n \in InTree(t), u.c[n] = "red"
               PROVE  u.c[t.p[n]] = "black"
    BY <1>4 DEF RedsApart
  <2>1. n \in Pointers /\ t.p[n] \in Pointers /\ t.c[n] = "red"
    BY <1>1, <1>2, KeyTypes, ChildOf
  <2>2. t.c[NIL_NODE] = "black"
    BY <1>1 DEF Shaped
  <2>3. t.c[t.p[n]] = "black"
    BY <2>1, <2>2 DEF Inserting, RedsApart
  <2> QED
    BY <1>2, <2>1, <2>3
<1>7. u.c[u.root] = "black"
  BY <1>1, <1>2, <1>4
<1> HIDE DEF u
<1> QED
  BY <1>3, <1>4, <1>5, <1>6, <1>7 DEF Balanced
-----------------------------------------------------------------------------
(* What rb_delete() comes to: y, which has no child but x, is unlinked, and z,
   if another node, gets its key. *)
Taken(t, u, z, y, x) ==
    /\ Shaped(u)
    /\ \A n \in Nodes :
          u.i[n] = IF n = y THEN NoKey ELSE IF n = z THEN t.i[y] ELSE t.i[n]
    /\ \A n \in Pointers : u.c[n] = IF n = y THEN "black" ELSE t.c[n]
    /\ \A n \in Pointers :
          u.p[n] = IF n = y THEN NIL_NODE ELSE IF n = x THEN t.p[y] ELSE t.p[n]
    /\ u.root = IF t.p[y] = NIL_NODE THEN x ELSE t.root
    /\ \A n \in Pointers, f \in Sides :
          u[f][n] = IF n = y THEN NIL_NODE ELSE IF t[f][n] = y THEN x ELSE t[f][n]

OnlyChild(t, y) == IF t.l[y] # NIL_NODE THEN t.l[y] ELSE t.r[y]

LEMMA FreedIs ==
  ASSUME NEW t, Shaped(t), NEW y \in Nodes
  PROVE  LET u == Freed(t, y) IN
         /\ Shaped(u) /\ u.root = t.root
         /\ \A n \in Nodes : u.i[n] = IF n = y THEN NoKey ELSE t.i[n]
         /\ \A n \in Pointers : u.c[n] = IF n = y THEN "black" ELSE t.c[n]
         /\ \A n \in Pointers : u.p[n] = IF n = y THEN NIL_NODE ELSE t.p[n]
         /\ \A n \in Pointers, f \in Sides : u[f][n] = IF n = y THEN NIL_NODE ELSE t[f][n]
<1> DEFINE t1 == [t EXCEPT !.i[y] = NoKey]
           t2 == Paint(t1, y, "black")
           t3 == Put(t2, "l", y, NIL_NODE)
           t4 == Put(t3, "r", y, NIL_NODE)
           t5 == Put(t4, "p", y, NIL_NODE)
<1>1. y \in Pointers /\ y # NIL_NODE /\ NIL_NODE \in Pointers
  BY NilApart DEF Pointers
<1>2. Freed(t, y) = t5
  BY DEF Freed, Put, Paint
<1>3. /\ Shaped(t1) /\ t1.c = t.c /\ t1.root = t.root /\ t1.l = t.l /\ t1.r = t.r /\ t1.p = t.p
      /\ t1.i = [t.i EXCEPT ![y] = NoKey]
  BY DEF Shaped
<1> HIDE DEF t1
<1>4. /\ Shaped(t2) /\ t2.i = t1.i /\ t2.root = t.root /\ t2.l = t.l /\ t2.r = t.r /\ t2.p = t.p
      /\ t2.c = [t.c EXCEPT ![y] = "black"]
  BY <1>1, <1>3 DEF Shaped, Paint
<1> HIDE DEF t2
<1>5. /\ Shaped(t3) /\ t3.i = t1.i /\ t3.root = t.root /\ t3.r = t.r /\ t3.p = t.p /\ t3.c = t2.c
      /\ t3.l = [t.l EXCEPT ![y] = NIL_NODE]
  BY <1>1, <1>4 DEF Shaped, Put
<1> HIDE DEF t3
<1>6. /\ Shaped(t4) /\ t4.i = t1.i /\ t4.root = t.root /\ t4.l = t3.l /\ t4.p = t.p /\ t4.c = t2.c
      /\ t4.r = [t.r EXCEPT ![y] = NIL_NODE]
  BY <1>1, <1>5 DEF Shaped, Put
<1> HIDE DEF t4
<1>7. /\ Shaped(t5) /\ t5.i = t1.i /\ t5.root = t.root /\ t5.l = t3.l /\ t5.r = t4.r /\ t5.c = t2.c
      /\ t5.p = [t.p EXCEPT ![y] = NIL_NODE]
  BY <1>1, <1>6 DEF Shaped, Put
<1> HIDE DEF t5
<1>8. \A n \in Nodes : t5.i[n] = IF n = y THEN NoKey ELSE t.i[n]
  BY <1>3, <1>7 DEF Shaped
<1>9. \A n \in Pointers : /\ t5.c[n] = IF n = y THEN "black" ELSE t.c[n]
                          /\ t5.p[n] = IF n = y THEN NIL_NODE ELSE t.p[n]
  BY <1>4, <1>7 DEF Shaped
<1>10. \A n \in Pointers, f \in Sides : t5[f][n] = IF n = y THEN NIL_NODE ELSE t[f][n]
  BY <1>5, <1>6, <1>7 DEF Shaped, Sides
<1> QED
  BY <1>2, <1>7, <1>8, <1>9, <1>10

(* The nodes at a deletion: y has no child on side Other(s). *)
TakenAt(t, g, z, y, x, s) ==
    /\ z \in InTree(t) /\ y \in InTree(t) /\ s \in Sides
    /\ t[Other(s)][y] = NIL_NODE /\ x = t[s][y]
    /\ y # z => NextTo(t, z, "r", y)

LEMMA TakenNodes ==
  ASSUME NEW t, NEW g, Search(t, g), NEW z \in InTree(t), NEW y,
         y = IF t.l[z] = NIL_NODE \/ t.r[z] = NIL_NODE THEN z ELSE NextOf(t, z, "r")
  PROVE  \E s \in Sides : TakenAt(t, g, z, y, OnlyChild(t, y), s)
<1>1. "l" \in Sides /\ "r" \in Sides /\ Other("l") = "r" /\ Other("r") = "l"
  BY DEF Sides, Other
<1>2. CASE y = z /\ (t.l[z] = NIL_NODE \/ t.r[z] = NIL_NODE)
  BY <1>1, <1>2 DEF TakenAt, OnlyChild
<1>3. CASE y = NextOf(t, z, "r") /\ t.l[z] # NIL_NODE /\ t.r[z] # NIL_NODE
  <2> DEFINE c == t["r"][z]
  <2>1. c \in InTree(t) /\ y = Outermost(t, c, "l")
    BY <1>1, <1>3, ChildTypes DEF NextOf
  <2>2. LastOn(t, g, c, "l", y)
    BY <1>1, <2>1, OutermostIs
  <2>3. y \in InTree(t) /\ t["l"][y] = NIL_NODE
    BY <2>2 DEF LastOn
  <2>4. NextTo(t, z, "r", y)
    BY <1>1, <1>3, NextIs
  <2>5. OnlyChild(t, y) = t["r"][y]
    BY <2>3 DEF OnlyChild
  <2> QED
    BY <1>1, <2>3, <2>4, <2>5 DEF TakenAt
<1> QED
  BY <1>2, <1>3

LEMMA TakenFacts ==
  ASSUME NEW t, NEW g, Search(t, g), NEW z, NEW y, NEW x, NEW s, TakenAt(t, g, z, y, x, s)
  PROVE  /\ y \in InTree(t) /\ y \in Nodes /\ y \in Pointers /\ y # NIL_NODE
         /\ x \in Pointers /\ x # y /\ t.p[y] \in Pointers /\ t.p[y] # y /\ (x # NIL_NODE => t.p[y] # x)
         /\ x # NIL_NODE => x \in InTree(t) /\ t.p[x] = y /\ x # t.root
         /\ \A n \in Pointers, f \in Sides : t[f][y] = n => n = x \/ n = NIL_NODE
         /\ g[x] = g[y] \ {y}
         /\ z \in InTree(t) /\ z \in Nodes
         /\ y = t.root <=> t.p[y] = NIL_NODE
<1>1. y \in InTree(t) /\ z \in InTree(t) /\ s \in Sides /\ t[Other(s)][y] = NIL_NODE /\ x = t[s][y]
      /\ Other(s) \in Sides /\ \A f \in Sides : f = s \/ f = Other(s)
  BY SideIsField DEF TakenAt
<1>2. y \in Nodes /\ y \in Pointers /\ y # NIL_NODE /\ z \in Nodes
  BY <1>1, KeyTypes DEF Search
<1>3. x \in Pointers /\ x # y /\ (x # NIL_NODE => x \in InTree(t) /\ t.p[x] = y /\ x # t.root /\ x \in g[y])
  BY <1>1, <1>2, ChildTypes, BelowTypes, RootTypes
<1>4. t.p[y] \in Pointers /\ (y = t.root <=> t.p[y] = NIL_NODE)
  BY <1>1, ChildOf
<1>5. t.p[y] # y /\ (x # NIL_NODE => t.p[y] # x)
  <2>1. CASE y = t.root
    BY <1>2, <1>4, <2>1
  <2>2. CASE y # t.root
    BY <1>1, <1>3, <2>2, ParentOf
  <2> QED
    BY <2>1, <2>2
<1>6. g[x] = g[y] \ {y}
  <2>1. /\ g[x] = {m \in g[y] : Before(s, t.i[m], t.i[y])}
        /\ g[NIL_NODE] = {m \in g[y] : Before(Other(s), t.i[m], t.i[y])}
        /\ g[NIL_NODE] = {}
    BY <1>1 DEF Search, Below
  <2>2. \A m \in g[y] : m \in InTree(t)
    BY <1>1, Nested
  <2>3. \A m \in g[y] : m # y => Before(s, t.i[m], t.i[y])
    BY <1>1, <2>1, <2>2, OneSide DEF Search
  <2>4. ~Before(s, t.i[y], t.i[y])
    BY <1>1, OneSide DEF Search
  <2> QED
    BY <2>1, <2>3, <2>4
<1> QED
  BY <1>1, <1>2, <1>3, <1>4, <1>5, <1>6

LEMMA TakeIs ==
  ASSUME NEW g, Search(rbt, g), NEW z, NEW y, NEW s, TakenAt(rbt, g, z, y, OnlyChild(rbt, y), s)
  PROVE  Taken(rbt, Freed(Unlinked(z, y), y), z, y, OnlyChild(rbt, y))
<1> DEFINE x == OnlyChild(rbt, y)
           t1 == Put(rbt, "p", x, rbt.p[y])
           t2 == Replace(t1, y, x)
           t3 == IF y = z THEN t2 ELSE [t2 EXCEPT !.i[z] = rbt.i[y]]
           u == Freed(t3, y)
<1>1. /\ y \in InTree(rbt) /\ y \in Nodes /\ y \in Pointers /\ y # NIL_NODE
      /\ x \in Pointers /\ x # y /\ rbt.p[y] \in Pointers /\ rbt.p[y] # y
      /\ z \in InTree(rbt) /\ z \in Nodes /\ Shaped(rbt)
  BY TakenFacts DEF Search
<1>2. Unlinked(z, y) = t3
  BY DEF Unlinked, OnlyChild, Put
<1> HIDE DEF x
<1>3. /\ Shaped(t1) /\ t1.i = rbt.i /\ t1.c = rbt.c /\ t1.root = rbt.root
      /\ t1.p = [rbt.p EXCEPT ![x] = rbt.p[y]] /\ t1.l = rbt.l /\ t1.r = rbt.r
  BY <1>1 DEF Shaped, Put
<1>4. PICK e \in Sides :
         /\ rbt.p[y] # NIL_NODE => rbt[e][rbt.p[y]] = y /\ rbt[Other(e)][rbt.p[y]] # y
         /\ \A n \in Pointers, f \in Sides : rbt[f][n] = y <=> rbt.p[y] # NIL_NODE /\ n = rbt.p[y] /\ f = e
  BY <1>1, ChildOf
<1>5. t1.p[y] = rbt.p[y] /\ \A f \in Sides : t1[f] = rbt[f]
  BY <1>1, <1>3 DEF Shaped, Sides
<1>6. \A n \in Pointers : t1.p[n] = IF n = x THEN rbt.p[y] ELSE rbt.p[n]
  BY <1>1, <1>3 DEF Shaped
<1> HIDE DEF t1
<1>7. t2 = IF rbt.p[y] = NIL_NODE THEN [t1 EXCEPT !.root = x] ELSE Put(t1, e, rbt.p[y], x)
  <2>1. t1.p[y] # NIL_NODE => t1[e][t1.p[y]] = y /\ t1[Other(e)][t1.p[y]] # y
    BY <1>4, <1>5, SideIsField
  <2>2. Shaped(t1) /\ y \in Pointers /\ x \in Pointers
    BY <1>1, <1>3
  <2> HIDE DEF t2, t3, u
  <2>3. Replace(t1, y, x) = IF t1.p[y] = NIL_NODE THEN [t1 EXCEPT !.root = x] ELSE Put(t1, e, t1.p[y], x)
    BY <2>1, <2>2, ReplaceIs
  <2> QED
    BY <1>5, <2>3 DEF t2
<1> HIDE DEF t2
<1>8. /\ Shaped(t2) /\ t2.i = rbt.i /\ t2.c = rbt.c /\ t2.p = t1.p
      /\ t2.root = IF rbt.p[y] = NIL_NODE THEN x ELSE rbt.root
      /\ \A n \in Pointers, f \in Sides : t2[f][n] = IF rbt[f][n] = y THEN x ELSE rbt[f][n]
  <2>1. CASE rbt.p[y] = NIL_NODE
    <3>1. t2 = [t1 EXCEPT !.root = x]
      BY <1>7, <2>1
    <3>2. Shaped(t2) /\ t2.root = x /\ t2.i = t1.i /\ t2.c = t1.c /\ t2.p = t1.p /\ \A f \in Sides : t2[f] = t1[f]
      BY <1>1, <1>3, <3>1, PutRootIs DEF Fields, Sides
    <3> QED
      BY <1>3, <1>4, <1>5, <2>1, <3>2
  <2>2. CASE rbt.p[y] # NIL_NODE
    <3>1. t2 = Put(t1, e, rbt.p[y], x) /\ e \in Fields /\ e # "p" /\ "p" \in Fields
      BY <1>7, <2>2, SideIsField
    <3>2. Shaped(t2) /\ SameRest(t1, t2) /\ t2[e] = [t1[e] EXCEPT ![rbt.p[y]] = x]
          /\ \A f \in Fields : f # e => t2[f] = t1[f]
      BY <1>1, <1>3, <3>1, PutIs
    <3>3. t2.p = t1.p /\ t2.i = rbt.i /\ t2.c = rbt.c /\ t2.root = rbt.root
      BY <1>3, <3>1, <3>2 DEF SameRest
    <3>4. ASSUME NEW n \in Pointers, NEW f \in Sides
          PROVE  t2[f][n] = IF rbt[f][n] = y THEN x ELSE rbt[f][n]
      <4>1. rbt[f][n] = y <=> n = rbt.p[y] /\ f = e
        BY <1>4, <2>2
      <4>2. t1[f] = rbt[f] /\ t1[f] \in [Pointers -> Pointers] /\ f \in Fields
        BY <1>3, <1>5, FieldTypes, SideIsField
      <4> QED
        BY <3>2, <4>1, <4>2
    <3> QED
      BY <2>2, <3>2, <3>3, <3>4
  <2> QED
    BY <2>1, <2>2
<1>9. /\ Shaped(t3) /\ t3.c = t2.c /\ t3.p = t2.p /\ t3.root = t2.root
      /\ \A f \in Sides : t3[f] = t2[f]
      /\ \A n \in Nodes : t3.i[n] = IF n = z THEN rbt.i[y] ELSE rbt.i[n]
  <2>1. CASE y = z
    BY <1>8, <2>1
  <2>2. CASE y # z
    <3>1. t3 = [t2 EXCEPT !.i[z] = rbt.i[y]] /\ rbt.i[y] \in Keys
      BY <1>1, <2>2, KeyTypes
    <3> HIDE DEF t3
    <3>2. /\ Shaped(t3) /\ t3.c = t2.c /\ t3.p = t2.p /\ t3.root = t2.root /\ t3.l = t2.l /\ t3.r = t2.r
          /\ t3.i = [t2.i EXCEPT ![z] = rbt.i[y]]
      BY <1>1, <1>8, <3>1 DEF Shaped
    <3> QED
      BY <1>1, <1>8, <3>2 DEF Shaped, Sides
  <2> QED
    BY <2>1, <2>2
<1> HIDE DEF t3
<1>10. /\ Shaped(u) /\ u.root = t3.root
       /\ \A n \in Nodes : u.i[n] = IF n = y THEN NoKey ELSE t3.i[n]
       /\ \A n \in Pointers : u.c[n] = IF n = y THEN "black" ELSE t3.c[n]
       /\ \A n \in Pointers : u.p[n] = IF n = y THEN NIL_NODE ELSE t3.p[n]
       /\ \A n \in Pointers, f \in Sides : u[f][n] = IF n = y THEN NIL_NODE ELSE t3[f][n]
  BY <1>1, <1>9, FreedIs
<1> HIDE DEF u
<1>11. \A n \in Pointers, f \in Sides :
          u[f][n] = IF n = y THEN NIL_NODE ELSE IF rbt[f][n] = y THEN x ELSE rbt[f][n]
  BY <1>8, <1>9, <1>10
<1>12. \A n \in Pointers :
          u.p[n] = IF n = y THEN NIL_NODE ELSE IF n = x THEN rbt.p[y] ELSE rbt.p[n]
  BY <1>6, <1>8, <1>9, <1>10
<1>13. Taken(rbt, u, z, y, x)
  BY <1>8, <1>9, <1>10, <1>11, <1>12 DEF Taken
<1> QED
  BY <1>2, <1>13 DEF u, x
(* z gets the key next to its own, which keeps the order. *)
LEMMA TakenOrder ==
  ASSUME NEW t, NEW g, Search(t, g), NEW z, NEW y, NEW x, NEW s, TakenAt(t, g, z, y, x, s),
         NEW u, Taken(t, u, z, y, x), NEW m \in InTree(t) \ {y}, NEW n \in InTree(t) \ {y}, NEW f \in Sides
  PROVE  /\ u.i[m] \in Keys
         /\ Before(f, u.i[m], u.i[n]) <=> Before(f, t.i[m], t.i[n])
<1>1. Shaped(t) /\ y \in InTree(t) /\ z \in InTree(t)
  BY DEF Search, TakenAt
<1>2. /\ t.i[m] \in Nat /\ t.i[n] \in Nat /\ t.i[y] \in Nat /\ t.i[z] \in Nat /\ t.i[m] \in Keys
      /\ t.i[y] \in Keys /\ m \in Nodes /\ n \in Nodes
  BY <1>1, KeyTypes
<1>3. u.i[m] = IF m = z THEN t.i[y] ELSE t.i[m]
  BY <1>2 DEF Taken
<1>4. u.i[n] = IF n = z THEN t.i[y] ELSE t.i[n]
  BY <1>2 DEF Taken
<1>5. ASSUME NEW k \in InTree(t), k # y, k # z, y # z
      PROVE  /\ t.i[k] < t.i[y] <=> t.i[k] < t.i[z]
             /\ t.i[y] < t.i[k] <=> t.i[z] < t.i[k]
  <2>1. NextTo(t, z, "r", y)
    BY <1>5 DEF TakenAt
  <2>2. t.i[z] < t.i[y]
    BY <1>1, <2>1, KeyTypes DEF NextTo, Before, Other
  <2>3. t.i[z] < t.i[k] => t.i[y] < t.i[k]
    BY <1>5, <2>1, KeyTypes DEF NextTo, Before, Other
  <2>4. t.i[k] # t.i[z] /\ t.i[k] # t.i[y] /\ t.i[k] \in Nat
    BY <1>1, <1>5, KeyTypes DEF Search, Distinct
  <2> QED
    BY <1>2, <2>2, <2>3, <2>4
<1>6. u.i[m] \in Keys
  BY <1>2, <1>3
<1>7. CASE m = z /\ n = z
  BY <1>2, <1>3, <1>4, <1>6, <1>7 DEF Before
<1>8. CASE m = z /\ n # z
  BY <1>1, <1>3, <1>4, <1>5, <1>6, <1>8 DEF Before
<1>9. CASE m # z /\ n = z
  BY <1>1, <1>3, <1>4, <1>5, <1>6, <1>9 DEF Before
<1>10. CASE m # z /\ n # z
  BY <1>3, <1>4, <1>6, <1>10
<1> QED
  BY <1>6, <1>7, <1>8, <1>9, <1>10

LEMMA TakenLinked ==
  ASSUME NEW t, NEW g, Search(t, g), NEW z, NEW y, NEW x, NEW s, TakenAt(t, g, z, y, x, s),
         NEW u, Taken(t, u, z, y, x)
  PROVE  Linked(u) /\ InTree(u) = InTree(t) \ {y} /\ Distinct(u)
<1>1. /\ y \in InTree(t) /\ y \in Nodes /\ y \in Pointers /\ y # NIL_NODE
      /\ x \in Pointers /\ x # y /\ t.p[y] \in Pointers /\ t.p[y] # y /\ (x # NIL_NODE => t.p[y] # x)
      /\ x # NIL_NODE => x \in InTree(t) /\ t.p[x] = y /\ x # t.root
      /\ \A n \in Pointers, f \in Sides : t[f][y] = n => n = x \/ n = NIL_NODE
      /\ z \in InTree(t) /\ z \in Nodes
      /\ y = t.root <=> t.p[y] = NIL_NODE
  BY TakenFacts
<1>2. /\ \A n \in Nodes :
            u.i[n] = IF n = y THEN NoKey ELSE IF n = z THEN t.i[y] ELSE t.i[n]
      /\ \A n \in Pointers :
            u.p[n] = IF n = y THEN NIL_NODE ELSE IF n = x THEN t.p[y] ELSE t.p[n]
      /\ u.root = IF t.p[y] = NIL_NODE THEN x ELSE t.root
      /\ \A n \in Pointers, f \in Sides :
            u[f][n] = IF n = y THEN NIL_NODE ELSE IF t[f][n] = y THEN x ELSE t[f][n]
  BY DEF Taken
<1>3. \A n \in InTree(t) : n \in Pointers /\ n # NIL_NODE /\ n \in Nodes
  BY KeyTypes DEF Search
<1>4. InTree(u) = InTree(t) \ {y}
  <2>1. t.i[y] # NoKey /\ t.i[z] # NoKey
    BY <1>1 DEF InTree
  <2> QED
    BY <1>2, <2>1 DEF InTree
<1>5. Distinct(u)
  <2> SUFFICES ASSUME NEW m \in InTree(u), NEW n \in InTree(u), u.i[m] = u.i[n], m # n
               PROVE  FALSE
    BY DEF Distinct
  <2>1. m \in InTree(t) \ {y} /\ n \in InTree(t) \ {y}
    BY <1>4
  <2>2. \A f \in Sides : u.i[m] \in Keys /\ (Before(f, u.i[m], u.i[n]) <=> Before(f, t.i[m], t.i[n]))
    BY <2>1, TakenOrder
  <2>4. "l" \in Sides /\ Other("l") \in Sides
    BY DEF Sides, Other
  <2>5. u.i[m] \in Nat /\ u.i[m] = u.i[n]
    BY <2>2, <2>4, NilApart
  <2>3. \A f \in Sides : ~Before(f, u.i[m], u.i[n])
    BY <2>5 DEF Before
  <2> QED
    BY <2>1, <2>2, <2>3, <2>4, OneSide DEF Search
<1>6. u.root # NIL_NODE => u.root \in InTree(u) /\ u.p[u.root] = NIL_NODE
  <2>1. CASE t.p[y] = NIL_NODE
    BY <1>1, <1>2, <1>4, <2>1
  <2>2. CASE t.p[y] # NIL_NODE
    <3>1. t.root # y /\ u.root = t.root
      BY <1>1, <1>2, <2>2
    <3>2. t.root # NIL_NODE => t.root \in InTree(t) /\ t.p[t.root] = NIL_NODE
      BY RootTypes
    <3>3. t.root # NIL_NODE => t.root # x
      BY <1>1
    <3> QED
      BY <1>2, <1>3, <1>4, <3>1, <3>2, <3>3
  <2> QED
    BY <2>1, <2>2
<1>7. ASSUME NEW n \in InTree(u), NEW f \in Sides, u[f][n] # NIL_NODE
      PROVE  u[f][n] \in InTree(u) /\ u.p[u[f][n]] = n
  <2>1. n \in InTree(t) /\ n # y /\ n \in Pointers
    BY <1>3, <1>4
  <2>2. CASE t[f][n] = y
    <3>1. u[f][n] = x /\ t.p[y] = n /\ x # NIL_NODE
      BY <1>1, <1>2, <1>7, <2>1, <2>2, ChildTypes
    <3> QED
      BY <1>1, <1>2, <1>4, <3>1
  <2>3. CASE t[f][n] # y
    <3>1. u[f][n] = t[f][n]
      BY <1>2, <2>1, <2>3
    <3>2. t[f][n] \in InTree(t) /\ t.p[t[f][n]] = n
      BY <1>7, <2>1, <3>1, ChildTypes
    <3>3. t[f][n] # x
      BY <1>1, <1>3, <2>1, <3>2
    <3> QED
      BY <1>2, <1>3, <1>4, <2>3, <3>1, <3>2, <3>3
  <2> QED
    BY <2>2, <2>3
<1>8. ASSUME NEW n \in InTree(u), n # u.root
      PROVE  u.p[n] \in InTree(u) /\ \E f \in Sides : u[f][u.p[n]] = n
  <2>1. n \in InTree(t) /\ n # y /\ n \in Pointers /\ n # NIL_NODE
    BY <1>3, <1>4
  <2>2. CASE n = x
    <3>1. t.p[y] # NIL_NODE /\ y # t.root /\ u.p[n] = t.p[y]
      BY <1>1, <1>2, <1>8, <2>1, <2>2
    <3>2. t.p[y] \in InTree(t) /\ \E f \in Sides : t[f][t.p[y]] = y
      BY <1>1, <3>1, ParentOf
    <3> QED
      BY <1>1, <1>2, <1>3, <1>4, <2>2, <3>1, <3>2
  <2>3. CASE n # x
    <3>1. u.p[n] = t.p[n]
      BY <1>2, <2>1, <2>3
    <3>2. n # t.root
      BY <1>1, <1>2, <1>8, <2>1
    <3>3. t.p[n] \in InTree(t) /\ \E f \in Sides : t[f][t.p[n]] = n
      BY <2>1, <3>2, ParentOf
    <3>4. t.p[n] # y
      BY <1>1, <2>1, <2>3, <3>3
    <3> QED
      BY <1>2, <1>3, <1>4, <2>1, <3>1, <3>3, <3>4
  <2> QED
    BY <2>2, <2>3
<1>9. ASSUME NEW n \in Pointers, NEW f \in Sides, n \notin InTree(u)
      PROVE  u[f][n] = NIL_NODE
  <2>1. CASE n = y
    BY <1>2, <2>1
  <2>2. CASE n # y
    <3>1. t[f][n] = NIL_NODE
      BY <1>4, <1>9, <2>2 DEF Search, Linked
    <3> QED
      BY <1>1, <1>2, <2>2, <3>1
  <2> QED
    BY <2>1, <2>2
<1> QED
  BY <1>4, <1>5, <1>6, <1>7, <1>8, <1>9 DEF Linked

TakenBelow(g, y) == [a \in Pointers |-> IF a = y THEN {} ELSE g[a] \ {y}]

LEMMA TakenSearch ==
  ASSUME NEW t, NEW g, Search(t, g), NEW z, NEW y, NEW x, NEW s, TakenAt(t, g, z, y, x, s),
         NEW u, Taken(t, u, z, y, x)
  PROVE  Search(u, TakenBelow(g, y)) /\ InTree(u) = InTree(t) \ {y}
<1> DEFINE k == TakenBelow(g, y)
<1>1. /\ y \in InTree(t) /\ y \in Nodes /\ y \in Pointers /\ y # NIL_NODE
      /\ x \in Pointers /\ x # y /\ g[x] = g[y] \ {y}
      /\ y = t.root <=> t.p[y] = NIL_NODE
  BY TakenFacts
<1>2. /\ u.root = IF t.p[y] = NIL_NODE THEN x ELSE t.root
      /\ \A n \in Pointers, f \in Sides :
            u[f][n] = IF n = y THEN NIL_NODE ELSE IF t[f][n] = y THEN x ELSE t[f][n]
  BY DEF Taken
<1>3. Linked(u) /\ Distinct(u) /\ InTree(u) = InTree(t) \ {y}
  BY TakenLinked
<1>4. /\ g \in [Pointers -> SUBSET InTree(t)] /\ g[NIL_NODE] = {} /\ NIL_NODE \in Pointers
      /\ g[t.root] = InTree(t) /\ t.root \in Pointers
  BY RootTypes DEF Search, Below, Pointers
<1>5. \A a \in Pointers : k[a] = IF a = y THEN {} ELSE g[a] \ {y}
  BY DEF TakenBelow
<1>6. k \in [Pointers -> SUBSET InTree(u)]
  BY <1>3, <1>4 DEF TakenBelow
<1> HIDE DEF k
<1>7. k[NIL_NODE] = {}
  BY <1>1, <1>4, <1>5
<1>8. k[u.root] = InTree(u)
  <2>1. CASE y = t.root
    BY <1>1, <1>2, <1>3, <1>4, <1>5, <2>1
  <2>2. CASE y # t.root
    BY <1>1, <1>2, <1>3, <1>4, <1>5, <2>2
  <2> QED
    BY <2>1, <2>2
<1>9. \A n \in InTree(t) : n \in Pointers /\ n \in g[n]
  BY KeyTypes, BelowTypes DEF Search
<1>10. \A n \in InTree(u) : n \in k[n]
  BY <1>3, <1>5, <1>9
<1>11. ASSUME NEW n \in InTree(u), NEW f \in Sides
       PROVE  k[u[f][n]] = {m \in k[n] : Before(f, u.i[m], u.i[n])}
  <2> DEFINE c == t[f][n]
  <2>1. n \in InTree(t) \ {y} /\ n \in Pointers
    BY <1>3, <1>9
  <2>2. c \in Pointers /\ g[c] = {m \in g[n] : Before(f, t.i[m], t.i[n])} /\ g[n] \subseteq InTree(t)
    BY <2>1, ChildTypes, BelowTypes DEF Search, Below
  <2>3. k[n] = g[n] \ {y}
    BY <1>5, <2>1
  <2>4. \A m \in k[n] : Before(f, u.i[m], u.i[n]) <=> Before(f, t.i[m], t.i[n])
    BY <2>1, <2>2, <2>3, TakenOrder
  <2>5. k[u[f][n]] = g[c] \ {y}
    <3>1. CASE c = y
      <4>1. u[f][n] = x
        BY <1>2, <2>1, <3>1
      <4>2. k[x] = g[x] \ {y}
        BY <1>1, <1>5
      <4> QED
        BY <1>1, <3>1, <4>1, <4>2
    <3>2. CASE c # y
      BY <1>2, <1>5, <2>1, <2>2, <3>2
    <3> QED
      BY <3>1, <3>2
  <2> HIDE DEF c
  <2> QED
    BY <2>2, <2>3, <2>4, <2>5
<1>12. Below(u, k)
  BY <1>6, <1>7, <1>8, <1>10, <1>11 DEF Below
<1> QED
  BY <1>3, <1>12 DEF Search, Taken, k

(* The keys: that of z goes. *)
KeysOf(t) == {t.i[n] : n \in InTree(t)}

LEMMA TakenKeys ==
  ASSUME NEW t, NEW g, Search(t, g), NEW z, NEW y, NEW x, NEW s, TakenAt(t, g, z, y, x, s),
         NEW u, Taken(t, u, z, y, x)
  PROVE  KeysOf(u) = KeysOf(t) \ {t.i[z]}
<1>1. InTree(u) = InTree(t) \ {y} /\ y \in InTree(t) /\ z \in InTree(t)
  <2>1. InTree(u) = InTree(t) \ {y}
    BY TakenLinked
  <2> QED
    BY <2>1 DEF TakenAt
<1>2. \A n \in InTree(u) : u.i[n] = IF n = z THEN t.i[y] ELSE t.i[n]
  BY <1>1 DEF Taken, InTree
<1>3. \A m, n \in InTree(t) : t.i[m] = t.i[n] => m = n
  BY DEF Search, Distinct
<1>4. ASSUME NEW n \in InTree(u)
      PROVE  u.i[n] \in KeysOf(t) /\ u.i[n] # t.i[z]
  BY <1>1, <1>2, <1>3 DEF KeysOf
<1>5. ASSUME NEW n \in InTree(t), t.i[n] # t.i[z]
      PROVE  t.i[n] \in KeysOf(u)
  <2>1. CASE n = y
    <3>1. z \in InTree(u) /\ u.i[z] = t.i[y]
      BY <1>1, <1>2, <1>5, <2>1
    <3> QED
      BY <2>1, <3>1 DEF KeysOf
  <2>2. CASE n # y
    <3>1. n \in InTree(u) /\ u.i[n] = t.i[n]
      BY <1>1, <1>2, <1>5, <2>2
    <3> QED
      BY <3>1 DEF KeysOf
  <2> QED
    BY <2>1, <2>2
<1> QED
  BY <1>4, <1>5 DEF KeysOf
-----------------------------------------------------------------------------
(* While rb_delete_fixup() is at a, the way down to a has one black node too few. *)
Deleting(t, a, h, q, e) ==
    /\ a \in InTree(t) \union {NIL_NODE}
    /\ HangsAt(t, a, q, e) /\ Counted(t, h, q, e)
    /\ RedsApart(t, a, a)
    /\ t.c[t.root] = "red" => t.root = a

(* A leaf that is red goes without a fixup. *)
LEMMA TakenRed ==
  ASSUME NEW t, NEW g, Search(t, g), NEW z, NEW y, NEW x, NEW s, TakenAt(t, g, z, y, x, s),
         NEW u, Taken(t, u, z, y, x), NEW h, Balanced(t, h), t.c[y] = "red"
  PROVE  Balanced(u, h)
<1>1. /\ y \in InTree(t) /\ y \in Pointers /\ y # NIL_NODE
      /\ x \in Pointers /\ x # y /\ (x # NIL_NODE => x \in InTree(t) /\ t.p[x] = y)
      /\ y = t.root <=> t.p[y] = NIL_NODE
  BY TakenFacts
<1>2. /\ \A n \in Pointers : u.c[n] = IF n = y THEN "black" ELSE t.c[n]
      /\ \A n \in Pointers :
            u.p[n] = IF n = y THEN NIL_NODE ELSE IF n = x THEN t.p[y] ELSE t.p[n]
      /\ u.root = IF t.p[y] = NIL_NODE THEN x ELSE t.root
      /\ \A n \in Pointers, f \in Sides :
            u[f][n] = IF n = y THEN NIL_NODE ELSE IF t[f][n] = y THEN x ELSE t[f][n]
      /\ Shaped(u)
  BY DEF Taken
<1>3. InTree(u) = InTree(t) \ {y} /\ t[s][y] = x /\ s \in Sides
  <2>1. InTree(u) = InTree(t) \ {y}
    BY TakenLinked
  <2> QED
    BY <2>1 DEF TakenAt
<1>4. \A n \in InTree(t) : n \in Pointers /\ n # NIL_NODE
  BY KeyTypes DEF Search
<1>5. Shaped(t) /\ t.c[NIL_NODE] = "black" /\ t.c[t.root] = "black" /\ h \in [Pointers -> Nat] /\ h[NIL_NODE] = 0
  BY DEF Search, Shaped, Balanced, Counted
<1>6. ASSUME NEW n \in InTree(t), NEW f \in Sides
      PROVE  h[n] = h[t[f][n]] + Black(t, n) /\ h[t[f][n]] \in Nat /\ t[f][n] \in Pointers
  <2>1. t[f][n] \in Pointers /\ Missing(n, f, NIL_NODE, "l") = 0
    BY <1>5, ChildTypes, NoneMissing
  <2>2. h[n] = h[t[f][n]] + Black(t, n) + Missing(n, f, NIL_NODE, "l")
    BY DEF Balanced, Counted, CountedAt
  <2> QED
    BY <1>5, <2>1, <2>2 DEF Black
<1>7. h[y] = h[x]
  BY <1>1, <1>3, <1>6, <1>5 DEF Black
<1>8. ASSUME NEW n \in InTree(u), NEW f \in Sides
      PROVE  CountedAt(u, h, NIL_NODE, "l", n, f)
  <2>1. n \in InTree(t) /\ n # y /\ n \in Pointers /\ Missing(n, f, NIL_NODE, "l") = 0
    BY <1>2, <1>3, <1>4, NoneMissing
  <2>2. Black(u, n) = Black(t, n) /\ h[u[f][n]] = h[t[f][n]]
    BY <1>2, <1>7, <2>1 DEF Black
  <2> QED
    BY <1>5, <1>6, <2>1, <2>2 DEF CountedAt, Black
<1>9. Counted(u, h, NIL_NODE, "l")
  BY <1>5, <1>8 DEF Counted
<1>10. \A n \in InTree(t) : t.c[n] = "red" => t.c[t.p[n]] = "black"
  BY <1>5 DEF Balanced, RedsApart
<1>11. ASSUME NEW n \in InTree(u), u.c[n] = "red"
       PROVE  u.c[u.p[n]] = "black"
  <2>1. n \in InTree(t) /\ n # y /\ n \in Pointers /\ t.c[n] = "red" /\ t.p[n] \in Pointers
    BY <1>2, <1>3, <1>4, <1>11, ChildOf
  <2>2. t.c[t.p[n]] = "black"
    BY <1>10, <2>1
  <2>3. t.p[n] # y /\ n # x
    BY <1>1, <1>4, <2>1, <2>2
  <2> QED
    BY <1>2, <2>1, <2>2, <2>3
<1>12. u.c[u.root] = "black"
  <2>1. y # t.root
    BY <1>5
  <2> QED
    BY <1>1, <1>2, <1>5, <2>1, RootTypes
<1> QED
  BY <1>9, <1>11, <1>12 DEF Balanced, RedsApart

LEMMA TakenBlack ==
  ASSUME NEW t, NEW g, Search(t, g), NEW z, NEW y, NEW x, NEW s, TakenAt(t, g, z, y, x, s),
         NEW u, Taken(t, u, z, y, x), NEW h, Balanced(t, h), t.c[y] # "red"
  PROVE  \E q, e : Deleting(u, x, h, q, e)
<1>1. /\ y \in InTree(t) /\ y \in Pointers /\ y # NIL_NODE /\ t.p[y] # y
      /\ x \in Pointers /\ x # y /\ (x # NIL_NODE => x \in InTree(t) /\ t.p[x] = y /\ x # t.root)
      /\ y = t.root <=> t.p[y] = NIL_NODE
      /\ \A n \in Pointers, f \in Sides : t[f][y] = n => n = x \/ n = NIL_NODE
  BY TakenFacts
<1>2. /\ \A n \in Pointers : u.c[n] = IF n = y THEN "black" ELSE t.c[n]
      /\ \A n \in Pointers :
            u.p[n] = IF n = y THEN NIL_NODE ELSE IF n = x THEN t.p[y] ELSE t.p[n]
      /\ u.root = IF t.p[y] = NIL_NODE THEN x ELSE t.root
      /\ \A n \in Pointers, f \in Sides :
            u[f][n] = IF n = y THEN NIL_NODE ELSE IF t[f][n] = y THEN x ELSE t[f][n]
      /\ Shaped(u)
  BY DEF Taken
<1>3. InTree(u) = InTree(t) \ {y} /\ t[s][y] = x /\ s \in Sides
  <2>1. InTree(u) = InTree(t) \ {y}
    BY TakenLinked
  <2> QED
    BY <2>1 DEF TakenAt
<1>4. \A n \in InTree(t) : n \in Pointers /\ n # NIL_NODE
  BY KeyTypes DEF Search
<1>5. Shaped(t) /\ t.c[NIL_NODE] = "black" /\ t.c[t.root] = "black" /\ h \in [Pointers -> Nat] /\ h[NIL_NODE] = 0
  BY DEF Search, Shaped, Balanced, Counted
<1>6. ASSUME NEW n \in InTree(t), NEW f \in Sides
      PROVE  h[n] = h[t[f][n]] + Black(t, n) /\ h[t[f][n]] \in Nat /\ t[f][n] \in Pointers
  <2>1. t[f][n] \in Pointers /\ Missing(n, f, NIL_NODE, "l") = 0
    BY <1>5, ChildTypes, NoneMissing
  <2>2. h[n] = h[t[f][n]] + Black(t, n) + Missing(n, f, NIL_NODE, "l")
    BY DEF Balanced, Counted, CountedAt
  <2> QED
    BY <1>5, <2>1, <2>2 DEF Black
<1>7. h[y] = h[x] + 1
  <2>1. Black(t, y) = 1
    BY <1>1, <1>5, Colours
  <2> QED
    BY <1>1, <1>3, <1>6, <2>1
<1>8. PICK e \in Sides :
         /\ t.p[y] # NIL_NODE => t[e][t.p[y]] = y /\ t[Other(e)][t.p[y]] # y
         /\ \A n \in Pointers, f \in Sides : t[f][n] = y <=> t.p[y] # NIL_NODE /\ n = t.p[y] /\ f = e
  BY <1>1, ChildOf
<1> DEFINE q == t.p[y]
<1>9. HangsAt(u, x, q, e)
  <2>1. CASE q = NIL_NODE
    BY <1>2, <2>1 DEF HangsAt
  <2>2. CASE q # NIL_NODE
    <3>1. u.root = t.root /\ y # t.root
      BY <1>1, <1>2, <2>2
    <3>2. x # t.root
      BY <1>1, RootTypes
    <3>3. q \in InTree(u) /\ q \in Pointers
      BY <1>1, <1>3, <1>4, <3>1, ParentOf
    <3>4. u.p[x] = q /\ u[e][q] = x
      BY <1>1, <1>2, <1>8, <2>2, <3>3
    <3> QED
      BY <3>1, <3>2, <3>3, <3>4 DEF HangsAt
  <2> QED
    BY <2>1, <2>2
<1>10. ASSUME NEW n \in InTree(u), NEW f \in Sides
       PROVE  CountedAt(u, h, q, e, n, f)
  <2>1. n \in InTree(t) /\ n # y /\ n \in Pointers /\ n # NIL_NODE
    BY <1>3, <1>4
  <2>2. Black(u, n) = Black(t, n) /\ Black(t, n) \in Nat
    BY <1>2, <2>1 DEF Black
  <2>3. h[n] = h[t[f][n]] + Black(t, n) /\ h[t[f][n]] \in Nat
    BY <1>6, <2>1
  <2>4. CASE t[f][n] = y
    <3>1. Missing(n, f, q, e) = 1 /\ u[f][n] = x
      BY <1>2, <1>8, <2>1, <2>4 DEF Missing
    <3> QED
      BY <1>1, <1>5, <1>7, <2>2, <2>3, <2>4, <3>1 DEF CountedAt
  <2>5. CASE t[f][n] # y
    <3>1. Missing(n, f, q, e) = 0 /\ u[f][n] = t[f][n]
      BY <1>2, <1>8, <2>1, <2>5 DEF Missing
    <3> QED
      BY <2>2, <2>3, <3>1 DEF CountedAt
  <2> QED
    BY <2>4, <2>5
<1>11. Counted(u, h, q, e)
  BY <1>5, <1>10 DEF Counted
<1>12. ASSUME NEW n \in InTree(u), u.c[n] = "red", n # x
       PROVE  u.c[u.p[n]] = "black"
  <2>1. n \in InTree(t) /\ n # y /\ n \in Pointers /\ t.c[n] = "red" /\ t.p[n] \in Pointers
    BY <1>2, <1>3, <1>4, <1>12, ChildOf
  <2>2. t.c[t.p[n]] = "black"
    BY <1>5, <2>1 DEF Balanced, RedsApart
  <2> QED
    BY <1>2, <1>12, <2>1, <2>2
<1>13. u.c[u.root] = "red" => u.root = x
  <2>1. CASE q = NIL_NODE
    BY <1>2, <2>1
  <2>2. CASE q # NIL_NODE
    BY <1>1, <1>2, <1>5, <2>2, RootTypes
  <2> QED
    BY <2>1, <2>2
<1>14. x \in InTree(u) \union {NIL_NODE}
  BY <1>1, <1>3
<1> HIDE DEF q
<1>15. Deleting(u, x, h, q, e)
  BY <1>9, <1>11, <1>12, <1>13, <1>14 DEF Deleting, RedsApart
<1> QED
  BY <1>15

(* rb_delete_fixup() is done. *)
LEMMA DeleteEnds ==
  ASSUME NEW t, NEW g, Search(t, g), NEW a, NEW h, NEW q, NEW e, Deleting(t, a, h, q, e),
         a = t.root \/ t.c[a] = "red"
  PROVE  /\ Search(Blacken(t, a), g) /\ InTree(Blacken(t, a)) = InTree(t)
         /\ \E k : Balanced(Blacken(t, a), k)
<1> DEFINE u == Paint(t, a, "black")
<1>1. Shaped(t) /\ a \in Pointers /\ t.root \in Pointers /\ t.c[NIL_NODE] = "black"
  BY RootTypes, KeyTypes DEF Deleting, Search, Pointers, Shaped
<1>2. /\ Shaped(u) /\ SameTree(t, u)
      /\ \A m \in Pointers : u.c[m] = IF m = a THEN "black" ELSE t.c[m]
  BY <1>1, PaintIs
<1>3. Blacken(t, a) = u
  BY PaintNames
<1>4. Search(u, g) /\ InTree(u) = InTree(t) /\ u.root = t.root /\ u.p = t.p
  BY <1>2, SameSearch DEF SameTree, Fields
<1>5. \E k : Counted(u, k, NIL_NODE, "l")
  <2>1. CASE t.c[a] = "red"
    <3>1. a \in InTree(t)
      BY <1>1, <2>1 DEF Deleting
    <3> QED
      BY <2>1, <3>1, Darken DEF Deleting
  <2>2. CASE t.c[a] # "red"
    <3>1. \A n \in Pointers : u.c[n] = t.c[n]
      BY <1>1, <1>2, <2>2, Colours
    <3>2. \A n \in InTree(t) : n \in Pointers /\ n # NIL_NODE
      BY <1>1, KeyTypes
    <3>3. \A f \in Sides : u[f] = t[f]
      BY <1>2, SideIsField DEF SameTree
    <3>4. q = NIL_NODE
      BY <2>2 DEF Deleting, HangsAt
    <3>5. \A n \in InTree(t), f \in Sides : Missing(n, f, q, e) = Missing(n, f, NIL_NODE, "l")
      BY <3>2, <3>4 DEF Missing
    <3> HIDE DEF u
    <3>6. Counted(u, h, NIL_NODE, "l")
      BY <1>4, <3>1, <3>2, <3>3, <3>5 DEF Deleting, Counted, CountedAt, Black
    <3> QED
      BY <3>6
  <2> QED
    BY <2>1, <2>2
<1>6. RedsApart(u, NIL_NODE, NIL_NODE)
  <2> SUFFICES ASSUME NEW n \in InTree(t), u.c[n] = "red"
               PROVE  u.c[t.p[n]] = "black"
    BY <1>4 DEF RedsApart
  <2>1. n \in Pointers /\ t.p[n] \in Pointers /\ t.c[n] = "red" /\ n # a
    BY <1>1, <1>2, KeyTypes, ChildOf
  <2>2. t.c[t.p[n]] = "black" \/ t.p[n] = a
    BY <2>1 DEF Deleting, RedsApart
  <2> QED
    BY <1>2, <2>1, <2>2
<1>7. u.c[u.root] = "black"
  <2>1. t.c[t.root] = "red" => t.root = a
    BY DEF Deleting
  <2> QED
    BY <1>1, <1>2, <1>4, <2>1, Colours
<1> HIDE DEF u
<1> QED
  BY <1>3, <1>4, <1>5, <1>6, <1>7 DEF Balanced
(* The nodes at a turn of rb_delete_fixup(): x, its parent, on whose side s x is,
   and its brother w. *)
DeleteTurnAt(t, a, q, s, w) ==
    /\ q = t.p[a] /\ s = SideOf(t, a) /\ w = t[Other(s)][q]
    /\ t.c[a] = "black" /\ a # t.root

LEMMA DeleteNodes ==
  ASSUME NEW t, NEW g, Search(t, g), NEW a, NEW h, NEW q0, NEW e, Deleting(t, a, h, q0, e),
         NEW q, NEW s, NEW w, DeleteTurnAt(t, a, q, s, w)
  PROVE  /\ q0 = q /\ e = s
         /\ q \in InTree(t) /\ s \in Sides /\ t[s][q] = a /\ t[Other(s)][q] = w /\ t.p[a] = q
         /\ w \in InTree(t) /\ t.p[w] = q /\ w # q /\ w # a /\ a # q /\ w # t.root
         /\ a \in Pointers /\ q \in Pointers /\ w \in Pointers /\ q # NIL_NODE /\ w # NIL_NODE
         /\ t.c[t.root] = "black" /\ t.root \in InTree(t)
         /\ a \in InTree(t) \/ a = NIL_NODE
<1>1. Shaped(t) /\ a # t.root /\ t.c[a] = "black" /\ q = t.p[a] /\ s = SideOf(t, a) /\ w = t[Other(s)][q]
  BY DEF Search, DeleteTurnAt
<1>2. q0 \in InTree(t) /\ q0 = q /\ e \in Sides /\ t[e][q] = a
  BY <1>1 DEF Deleting, HangsAt
<1>3. q \in Pointers /\ q # NIL_NODE /\ a \in Pointers /\ Other(e) \in Sides /\ a # q
  BY <1>1, <1>2, KeyTypes, SideIsField, ChildTypes
<1>4. h \in [Pointers -> Nat] /\ h[NIL_NODE] = 0
  BY DEF Deleting, Counted
<1> DEFINE v == t[Other(e)][q]
<1>5. v \in Pointers /\ h[v] = h[a] + 1
  <2>1. CountedAt(t, h, q, e, q, e) /\ CountedAt(t, h, q, e, q, Other(e))
    BY <1>2, <1>3 DEF Deleting, Counted
  <2>2. Missing(q, e, q, e) = 1 /\ Missing(q, Other(e), q, e) = 0 /\ Black(t, q) \in Nat
    BY SideIsField, <1>2 DEF Missing, Black
  <2>3. v \in Pointers
    BY <1>2, <1>3, ChildTypes
  <2>4. h[q] = h[a] + Black(t, q) + 1 /\ h[q] = h[v] + Black(t, q) + 0
    BY <1>2, <2>1, <2>2 DEF CountedAt
  <2> HIDE DEF v
  <2>5. h[v] \in Nat /\ h[a] \in Nat
    BY <1>3, <1>4, <2>3
  <2> QED
    BY <2>2, <2>3, <2>4, <2>5
<1>6. v # a /\ v # NIL_NODE
  BY <1>3, <1>4, <1>5
<1>7. s = e
  BY <1>1, <1>2, <1>6, SideOfIs
<1>8. v = w
  BY <1>1, <1>7
<1>9. w \in InTree(t) /\ t.p[w] = q /\ w # q
  BY <1>2, <1>3, <1>6, <1>8, ChildTypes
<1>10. w # t.root
  BY <1>3, <1>9, RootTypes
<1>11. t.root \in Pointers /\ t.root \in InTree(t) /\ t.c[t.root] = "black"
  <2>1. t.root \in InTree(t) /\ t.root \in Pointers
    BY <1>2, RootTypes
  <2>2. t.c[t.root] # "red"
    BY <1>1 DEF Deleting
  <2> QED
    BY <1>1, <2>1, <2>2, Colours
<1>12. a \in InTree(t) \/ a = NIL_NODE
  BY DEF Deleting
<1> QED
  BY <1>1, <1>2, <1>3, <1>5, <1>6, <1>7, <1>8, <1>9, <1>10, <1>11, <1>12

(* What there is to know of the black nodes at a turn. *)
LEMMA DeleteCounts ==
  ASSUME NEW t, NEW g, Search(t, g), NEW a, NEW h, NEW q0, NEW e, Deleting(t, a, h, q0, e),
         NEW q, NEW s, NEW w, DeleteTurnAt(t, a, q, s, w)
  PROVE  /\ h \in [Pointers -> Nat] /\ h[NIL_NODE] = 0
         /\ h[a] \in Nat /\ h[w] = h[a] + 1 /\ h[q] = h[w] + Black(t, q) /\ h[q] \in Nat /\ h[w] \in Nat
         /\ \A n \in InTree(t), f \in Sides : CountedAt(t, h, q, s, n, f)
         /\ \A n \in InTree(t), f \in Sides : Missing(n, f, q, s) = IF n = q /\ f = s THEN 1 ELSE 0
         /\ \A f \in Sides : h[w] = h[t[f][w]] + Black(t, w) /\ h[t[f][w]] \in Nat
         /\ \A n \in InTree(t) : t.c[n] = "red" => t.c[t.p[n]] = "black"
<1>1. /\ q0 = q /\ e = s
      /\ q \in InTree(t) /\ s \in Sides /\ t[s][q] = a /\ t[Other(s)][q] = w
      /\ w \in InTree(t) /\ w # q
      /\ a \in Pointers /\ q \in Pointers /\ w \in Pointers /\ t.c[a] = "black"
  BY DeleteNodes DEF DeleteTurnAt
<1>2. h \in [Pointers -> Nat] /\ h[NIL_NODE] = 0 /\ \A n \in InTree(t), f \in Sides : CountedAt(t, h, q, s, n, f)
  BY <1>1 DEF Deleting, Counted
<1>3. \A n \in InTree(t), f \in Sides : Missing(n, f, q, s) = IF n = q /\ f = s THEN 1 ELSE 0
  BY DEF Missing
<1>4. h[a] \in Nat /\ h[q] \in Nat /\ h[w] \in Nat
  BY <1>1, <1>2
<1>5. h[w] = h[a] + 1 /\ h[q] = h[w] + Black(t, q)
  <2>1. CountedAt(t, h, q, s, q, s) /\ CountedAt(t, h, q, s, q, Other(s)) /\ s # Other(s) /\ Other(s) \in Sides
    BY <1>1, <1>2, SideIsField
  <2>2. Missing(q, s, q, s) = 1 /\ Missing(q, Other(s), q, s) = 0 /\ Black(t, q) \in Nat
    BY <2>1 DEF Missing, Black
  <2>3. h[q] = h[a] + Black(t, q) + 1 /\ h[q] = h[w] + Black(t, q) + 0
    BY <1>1, <2>1, <2>2 DEF CountedAt
  <2> QED
    BY <1>4, <2>2, <2>3
<1>6. ASSUME NEW f \in Sides
      PROVE  h[w] = h[t[f][w]] + Black(t, w) /\ h[t[f][w]] \in Nat
  <2>1. t[f][w] \in Pointers
    BY <1>1, ChildTypes
  <2>2. Missing(w, f, q, s) = 0 /\ Black(t, w) \in Nat
    BY <1>1 DEF Missing, Black
  <2>3. h[w] = h[t[f][w]] + Black(t, w) + 0
    BY <1>1, <1>2, <2>2 DEF CountedAt
  <2> QED
    BY <1>2, <2>1, <2>2, <2>3
<1>7. ASSUME NEW n \in InTree(t), t.c[n] = "red"
      PROVE  t.c[t.p[n]] = "black"
  BY <1>1, <1>7 DEF Deleting, RedsApart
<1> QED
  BY <1>2, <1>3, <1>4, <1>5, <1>6, <1>7

(* The brother's children are black: x moves up a level. *)
LEMMA BlackFamilyKeeps ==
  ASSUME NEW t, NEW g, Search(t, g), NEW a, NEW h, NEW q0, NEW e, Deleting(t, a, h, q0, e),
         NEW q, NEW s, NEW w, DeleteTurnAt(t, a, q, s, w),
         t.c[w] = "black", \A f \in Sides : t.c[t[f][w]] = "black"
  PROVE  LET u == Redden(t, w) IN
         /\ Search(u, g) /\ InTree(u) = InTree(t)
         /\ \E k, d, f : Deleting(u, q, k, d, f) /\ k[q] = h[a] + Black(t, q)
         /\ u.c[q] = t.c[q]
<1> DEFINE u == Paint(t, w, "red")
           o == Other(s)
<1>1. /\ q \in InTree(t) /\ s \in Sides /\ t[s][q] = a /\ t[o][q] = w /\ t.p[a] = q
      /\ w \in InTree(t) /\ t.p[w] = q /\ w # q /\ w # a /\ a # q /\ w # t.root
      /\ a \in Pointers /\ q \in Pointers /\ w \in Pointers /\ q # NIL_NODE /\ w # NIL_NODE
  BY DeleteNodes
<1>1a. t.c[t.root] = "black" /\ t.root \in InTree(t) /\ Shaped(t) /\ t.root \in Pointers
       /\ \A f \in Sides : f = s \/ f = o
  BY <1>1, DeleteNodes, RootTypes, SideIsField DEF Search
<1>2. /\ h \in [Pointers -> Nat] /\ h[NIL_NODE] = 0
      /\ h[a] \in Nat /\ h[w] = h[a] + 1 /\ h[q] = h[w] + Black(t, q) /\ h[q] \in Nat /\ h[w] \in Nat
  BY DeleteCounts
<1>3. ASSUME NEW n \in InTree(t), NEW f \in Sides
      PROVE  h[n] = h[t[f][n]] + Black(t, n) + (IF n = q /\ f = s THEN 1 ELSE 0)
  <2>1. CountedAt(t, h, q, s, n, f) /\ Missing(n, f, q, s) = IF n = q /\ f = s THEN 1 ELSE 0
    BY DeleteCounts
  <2> QED
    BY <2>1 DEF CountedAt
<1>4. \A n \in InTree(t) : t.c[n] = "red" => t.c[t.p[n]] = "black"
  BY DeleteCounts
<1> HIDE DEF o
<1>5. /\ Shaped(u) /\ SameTree(t, u)
      /\ \A m \in Pointers : u.c[m] = IF m = w THEN "red" ELSE t.c[m]
  BY <1>1, <1>1a, PaintIs
<1>6. Redden(t, w) = u
  BY PaintNames
<1>7. Search(u, g) /\ InTree(u) = InTree(t) /\ u.root = t.root /\ u.p = t.p
  BY <1>5, SameSearch DEF SameTree, Fields
<1>8. \A f \in Sides : u[f] = t[f]
  BY <1>5, SideIsField DEF SameTree
<1> HIDE DEF u
<1> DEFINE k == [h EXCEPT ![w] = h[a], ![q] = h[a] + Black(t, q)]
<1>9. /\ k \in [Pointers -> Nat] /\ k[w] = h[a] /\ k[q] = h[a] + Black(t, q)
      /\ \A n \in Pointers : n # w /\ n # q => k[n] = h[n]
  BY <1>1, <1>2 DEF Black
<1> HIDE DEF k
<1>10. PICK f0 \in Sides :
         /\ t.p[q] # NIL_NODE => t[f0][t.p[q]] = q /\ t[Other(f0)][t.p[q]] # q
         /\ \A n \in Pointers, f \in Sides : t[f][n] = q <=> t.p[q] # NIL_NODE /\ n = t.p[q] /\ f = f0
  BY <1>1, ChildOf
<1> DEFINE d == t.p[q]
<1>11. /\ Black(t, w) = 1 /\ Black(u, w) = 0 /\ Black(t, q) \in Nat
       /\ \A n \in Pointers : n # w => Black(u, n) = Black(t, n)
  BY <1>1, <1>5 DEF Black
<1>12. d # q /\ d # w
  <2>1. CASE q = t.root
    BY <1>1, <2>1, RootTypes
  <2>2. CASE q # t.root
    <3>1. d \in InTree(t) /\ d # q /\ d \notin g[q]
      BY <1>1, <2>2, ParentOf
    <3>2. w \in g[q]
      BY <1>1, ParentOf
    <3> QED
      BY <3>1, <3>2
  <2> QED
    BY <2>1, <2>2
<1>13. ASSUME NEW n \in InTree(t), NEW f \in Sides
       PROVE  k[n] = k[t[f][n]] + Black(u, n) + Missing(n, f, d, f0)
  <2>1. n \in Pointers /\ n # NIL_NODE /\ t[f][n] \in Pointers /\ Black(t, n) \in Nat /\ h[t[f][n]] \in Nat
    BY <1>1a, <1>2, KeyTypes, ChildTypes DEF Black
  <2>2. t[f][n] = w => n = q /\ f = o
    BY <1>1, <1>1a, ChildTypes
  <2>3. t[f][n] = q <=> n = d /\ f = f0
    BY <1>10, <2>1
  <2>4. CASE n = q
    <3>1. Missing(n, f, d, f0) = 0 /\ Black(u, n) = Black(t, q)
      BY <1>1, <1>11, <1>12, <2>4 DEF Missing
    <3>2. k[t[f][n]] = h[a]
      <4>1. CASE f = s
        BY <1>1, <1>9, <2>4, <4>1
      <4>2. CASE f = o
        BY <1>1, <1>9, <2>4, <4>2
      <4> QED
        BY <1>1a, <4>1, <4>2
    <3> QED
      BY <1>2, <1>9, <1>11, <2>4, <3>1, <3>2
  <2>5. CASE n = w
    <3>1. Missing(n, f, d, f0) = 0
      BY <1>12, <2>5 DEF Missing
    <3>2. t[f][n] # w /\ t[f][n] # q
      BY <1>1, <1>12, <2>2, <2>3, <2>5
    <3>3. k[t[f][n]] = h[t[f][n]]
      BY <1>9, <2>1, <3>2
    <3>4. h[w] = h[t[f][w]] + 1
      BY <1>1, <1>3, <1>11, <2>5, <2>1
    <3> QED
      BY <1>2, <1>9, <1>11, <2>1, <2>5, <3>1, <3>3, <3>4
  <2>6. CASE n # q /\ n # w
    <3>1. h[n] = h[t[f][n]] + Black(t, n) /\ Black(u, n) = Black(t, n) /\ k[n] = h[n] /\ t[f][n] # w
      BY <1>3, <1>9, <1>11, <2>1, <2>2, <2>6
    <3>2. CASE t[f][n] = q
      <4>1. Missing(n, f, d, f0) = 1
        BY <2>3, <3>2 DEF Missing
      <4>2. h[q] = k[q] + 1
        BY <1>2, <1>9, <1>11
      <4> QED
        BY <1>2, <1>9, <1>11, <2>1, <3>1, <3>2, <4>1, <4>2
    <3>3. CASE t[f][n] # q
      <4>1. Missing(n, f, d, f0) = 0
        BY <2>3, <3>3 DEF Missing
      <4>2. k[t[f][n]] = h[t[f][n]]
        BY <1>9, <2>1, <3>1, <3>3
      <4> QED
        BY <2>1, <3>1, <4>1, <4>2
    <3> QED
      BY <3>2, <3>3
  <2> QED
    BY <2>4, <2>5, <2>6
<1>14. Counted(u, k, d, f0)
  <2>1. k[NIL_NODE] = 0
    BY <1>1, <1>2, <1>9 DEF Pointers
  <2> QED
    BY <1>7, <1>8, <1>9, <1>13, <2>1 DEF Counted, CountedAt
<1>15. HangsAt(u, q, d, f0)
  <2>1. CASE q = t.root
    BY <1>1, <1>7, <2>1, ChildOf DEF HangsAt
  <2>2. CASE q # t.root
    <3>1. d \in InTree(t) /\ d # NIL_NODE
      BY <1>1, <1>1a, <2>2, ParentOf, KeyTypes
    <3> QED
      BY <1>7, <1>8, <1>10, <2>2, <3>1 DEF HangsAt
  <2> QED
    BY <2>1, <2>2
<1>16. ASSUME NEW n \in InTree(t), u.c[n] = "red"
       PROVE  u.c[t.p[n]] = "black" \/ t.p[n] = q
  <2>1. n \in Pointers /\ t.p[n] \in Pointers
    BY <1>1a, KeyTypes, ChildOf
  <2>2. CASE n = w
    BY <1>1, <2>2
  <2>3. CASE n # w
    <3>1. t.c[n] = "red" /\ t.c[t.p[n]] = "black"
      BY <1>4, <1>5, <1>16, <2>1, <2>3
    <3>2. t.p[n] # w
      <4> SUFFICES ASSUME t.p[n] = w
                   PROVE  FALSE
        OBVIOUS
      <4>1. n # t.root
        BY <1>1, <1>1a, RootTypes
      <4>2. PICK f \in Sides : t[f][t.p[n]] = n
        BY <4>1, ParentOf
      <4> QED
        BY <3>1, <4>2
    <3> QED
      BY <1>5, <2>1, <3>1, <3>2
  <2> QED
    BY <2>2, <2>3
<1>17. RedsApart(u, q, q)
  BY <1>7, <1>16 DEF RedsApart
<1>18. u.c[u.root] # "red"
  BY <1>1, <1>1a, <1>5, <1>7
<1> HIDE DEF d
<1>19. Deleting(u, q, k, d, f0)
  BY <1>1, <1>7, <1>14, <1>15, <1>17, <1>18 DEF Deleting
<1>20. u.c[q] = t.c[q]
  BY <1>1, <1>5
<1> QED
  BY <1>6, <1>7, <1>9, <1>19, <1>20
(* After the turn for a red brother the parent is red and the brother black. *)
RedParent(t, a) ==
    LET q == t.p[a]
    IN t.c[q] = "red" /\ t.c[t[Other(SideOf(t, a))][q]] = "black"

(* The brother is red: it becomes the grandparent. *)
LEMMA RedBrotherKeeps ==
  ASSUME NEW t, NEW g, Search(t, g), NEW a, NEW h, NEW q0, NEW e, Deleting(t, a, h, q0, e),
         NEW q, NEW s, NEW w, DeleteTurnAt(t, a, q, s, w),
         t.c[w] = "red", NEW v, Recoloured(t, v, w, w, q), NEW u, Turned(v, u, q, w, s)
  PROVE  /\ Search(u, RotateBelow(v, g, q, w, s)) /\ InTree(u) = InTree(t)
         /\ \E k : Deleting(u, a, k, q, s) /\ k[a] = h[a]
         /\ RedParent(u, a) /\ u.c[a] = t.c[a]
<1> DEFINE o == Other(s)
           inner == t[s][w]
<1>1. /\ q \in InTree(t) /\ s \in Sides /\ t[s][q] = a /\ t[o][q] = w /\ t.p[a] = q
      /\ w \in InTree(t) /\ t.p[w] = q /\ w # q /\ w # a /\ a # q /\ w # t.root
      /\ a \in Pointers /\ q \in Pointers /\ w \in Pointers /\ q # NIL_NODE /\ w # NIL_NODE
  BY DeleteNodes
<1>1a. /\ t.c[t.root] = "black" /\ t.root \in InTree(t) /\ Shaped(t) /\ t.root \in Pointers
       /\ a \in InTree(t) \/ a = NIL_NODE
       /\ t.c[a] = "black" /\ t.c[NIL_NODE] = "black"
       /\ o \in Sides /\ s # o /\ \A f \in Sides : f = s \/ f = o
  BY <1>1, DeleteNodes, RootTypes, SideIsField DEF Search, DeleteTurnAt, Shaped
<1>2. /\ h \in [Pointers -> Nat] /\ h[NIL_NODE] = 0
      /\ h[a] \in Nat /\ h[w] = h[a] + 1 /\ h[q] = h[w] + Black(t, q) /\ h[q] \in Nat /\ h[w] \in Nat
  BY DeleteCounts
<1>2a. \A f \in Sides : h[w] = h[t[f][w]] + Black(t, w) /\ h[t[f][w]] \in Nat
  BY DeleteCounts
<1>2b. \A n \in InTree(t), f \in Sides : CountedAt(t, h, q, s, n, f)
  BY DeleteCounts
<1>3. \A n \in InTree(t) : t.c[n] = "red" => t.c[t.p[n]] = "black"
  BY DeleteCounts
<1>4. t.c[q] = "black"
  BY <1>1, <1>3
<1>5. Shaped(v) /\ SameTree(t, v)
  BY DEF Recoloured
<1>6. \A m \in Pointers : v.c[m] = IF m = q THEN "red" ELSE IF m = w THEN "black" ELSE t.c[m]
  BY DEF Recoloured
<1>7. Search(v, g) /\ InTree(v) = InTree(t)
  BY <1>5, SameSearch
<1>8. v.root = t.root /\ v.p = t.p /\ \A f \in Sides : v[f] = t[f]
  BY <1>5, SideIsField DEF SameTree, Fields
<1>9. w = v[Other(s)][q] /\ v[s][q] = a /\ v[s][w] = inner /\ v[o][w] = t[o][w]
  BY <1>1, <1>1a, <1>8
<1>10. Search(u, RotateBelow(v, g, q, w, s)) /\ InTree(u) = InTree(t)
  BY <1>1, <1>7, <1>9, RotateSearch
<1>11. inner # w /\ inner # q /\ inner \in Pointers /\ t.p[q] # q /\ t.p[q] # w /\ t.p[q] \in Pointers
  BY <1>1, RotateNodes
<1>12. u.c = v.c /\ u.root = IF t.root = q THEN w ELSE t.root
  BY <1>1, <1>8, <1>9 DEF Turned
<1>13. \A n \in Pointers :
          u.p[n] = IF n = q THEN w ELSE IF n = w THEN t.p[q]
                   ELSE IF n = inner /\ n # NIL_NODE THEN q ELSE t.p[n]
  BY <1>1, <1>8, <1>9 DEF Turned
<1>14. \A n \in Pointers, f \in Sides :
          u[f][n] = IF n = q /\ f = o THEN inner ELSE IF n = w /\ f = s THEN q
                    ELSE IF t[f][n] = q THEN w ELSE t[f][n]
  BY <1>1, <1>8, <1>9 DEF Turned
<1>15. /\ Black(t, q) = 1 /\ Black(t, w) = 0 /\ Black(v, q) = 0 /\ Black(v, w) = 1
       /\ \A n \in Pointers : n # q /\ n # w => Black(v, n) = Black(t, n)
  BY <1>1, <1>4, <1>6 DEF Black
<1>16. /\ Missing(q, s, q, s) = 1 /\ Missing(q, o, q, s) = 0
       /\ Missing(w, s, q, s) = 0 /\ Missing(w, o, q, s) = 0
  BY <1>1, <1>1a DEF Missing
<1>17. /\ h[inner] = h[a] + 1 /\ h[t[o][w]] = h[a] + 1 /\ h[q] = (h[a] + 1) + 1
       /\ h[inner] \in Nat /\ h[t[o][w]] \in Nat
  <2>1. h[w] = h[inner] + 0 /\ h[w] = h[t[o][w]] + 0 /\ h[inner] \in Nat /\ h[t[o][w]] \in Nat
    BY <1>1, <1>1a, <1>2a, <1>15
  <2> HIDE DEF inner, o
  <2> QED
    BY <1>2, <1>15, <2>1
<1> DEFINE k == [h EXCEPT ![w] = h[q], ![q] = h[a] + 1]
<1>18. Counted(u, k, q, s)
  <2>1. /\ h[a] + 1 = h[v[s][q]] + Black(v, q) + Missing(q, s, q, s)
        /\ h[a] + 1 = h[v[s][w]] + Black(v, q) + Missing(q, Other(s), q, s)
        /\ h[q] = (h[a] + 1) + Black(v, w) + Missing(w, s, q, s)
        /\ h[q] = h[v[Other(s)][w]] + Black(v, w) + Missing(w, Other(s), q, s)
    <3>1. h[a] + 1 = h[a] + 0 + 1 /\ h[a] + 1 = h[inner] + 0 + 0
      BY <1>2, <1>17
    <3>2. h[q] = (h[a] + 1) + 1 + 0 /\ h[q] = h[t[o][w]] + 1 + 0
      BY <1>2, <1>17
    <3> HIDE DEF inner
    <3> QED
      BY <1>9, <1>15, <1>16, <3>1, <3>2
  <2>2. ASSUME NEW n \in InTree(v) \ {q, w}, NEW f \in Sides
        PROVE  CountedAt(v, h, q, s, n, f)
    <3>1. n \in InTree(t) /\ n \in Pointers /\ n # q /\ n # w
      BY <1>1a, <1>7, KeyTypes
    <3>2. CountedAt(t, h, q, s, n, f)
      BY <1>2b, <3>1
    <3> QED
      BY <1>8, <1>15, <3>1, <3>2 DEF CountedAt
  <2>3. PICK m \in Nat : m = h[a] + 1
    BY <1>2
  <2>4. /\ m = h[v[s][q]] + Black(v, q) + Missing(q, s, q, s)
        /\ m = h[v[s][w]] + Black(v, q) + Missing(q, Other(s), q, s)
        /\ h[q] = m + Black(v, w) + Missing(w, s, q, s)
        /\ h[q] = h[v[Other(s)][w]] + Black(v, w) + Missing(w, Other(s), q, s)
    BY <2>1, <2>3
  <2>5. Counted(u, [h EXCEPT ![w] = h[q], ![q] = m], q, s)
    <3>1. q \in InTree(v) /\ s \in Sides /\ w = v[Other(s)][q] /\ w # NIL_NODE
      BY <1>1, <1>7, <1>9
    <3> HIDE DEF o, inner
    <3> QED
      BY <1>2, <1>7, <2>2, <2>4, <3>1, RotateCounted
  <2> QED
    BY <2>3, <2>5
<1>19. k[a] = h[a]
  BY <1>1, <1>2
<1> HIDE DEF k
<1>20. u.p[a] = q /\ u[s][q] = a /\ u[o][q] = inner
  <2>1. inner # NIL_NODE => t.p[inner] = w
    BY <1>1, <1>1a, ChildTypes
  <2>2. ~(a = inner /\ a # NIL_NODE)
    BY <1>1, <2>1
  <2> QED
    BY <1>1, <1>1a, <1>11, <1>13, <1>14, <2>2
<1>21. a # u.root
  BY <1>1, <1>12 DEF DeleteTurnAt
<1>22. HangsAt(u, a, q, s)
  BY <1>1, <1>10, <1>20, <1>21 DEF HangsAt
<1>23. t.c[inner] = "black"
  <2>1. inner # NIL_NODE => inner \in InTree(t) /\ t.p[inner] = w
    BY <1>1, <1>1a, ChildTypes
  <2>2. inner # NIL_NODE => t.c[inner] # "red"
    BY <1>3, <2>1
  <2> QED
    BY <1>1a, <1>11, <2>2, Colours
<1>24. ASSUME NEW n \in InTree(t), v.c[n] = "red"
       PROVE  v.c[u.p[n]] = "black"
  <2>1. n \in Pointers /\ n # NIL_NODE /\ t.p[n] \in Pointers
    BY <1>1a, KeyTypes, ChildOf
  <2>2. CASE n = q
    BY <1>1, <1>6, <1>13, <2>1, <2>2
  <2>3. CASE n # q
    <3>1. t.c[n] = "red" /\ n # w
      BY <1>6, <1>24, <2>1, <2>3
    <3>2. n # inner /\ n # a
      BY <1>1a, <1>23, <3>1
    <3>3. u.p[n] = t.p[n] /\ t.c[t.p[n]] = "black"
      BY <1>3, <1>13, <2>1, <2>3, <3>1, <3>2
    <3>4. t.p[n] # q
      <4> SUFFICES ASSUME t.p[n] = q
                   PROVE  FALSE
        OBVIOUS
      <4>1. n # t.root
        BY <1>1a, <3>1
      <4>2. PICK f \in Sides : t[f][t.p[n]] = n
        BY <4>1, ParentOf
      <4> QED
        BY <1>1, <1>1a, <3>1, <3>2, <4>2
    <3> QED
      BY <1>6, <2>1, <3>3, <3>4
  <2> QED
    BY <2>2, <2>3
<1>25. RedsApart(u, a, a)
  BY <1>10, <1>12, <1>24 DEF RedsApart
<1>26. u.c[u.root] # "red"
  BY <1>1, <1>1a, <1>6, <1>12
<1>27. a \in InTree(u) \union {NIL_NODE}
  BY <1>1a, <1>10
<1>28. Deleting(u, a, k, q, s)
  BY <1>18, <1>22, <1>25, <1>26, <1>27 DEF Deleting
<1>29. RedParent(u, a) /\ u.c[a] = t.c[a]
  <2>1. a # inner
    <3>1. h[inner] = h[a] + 1 /\ h[a] \in Nat
      BY <1>2, <1>17
    <3> HIDE DEF inner
    <3> QED
      BY <3>1
  <2>2. SideOf(u, a) = s
    BY <1>1, <1>20, <2>1, SideOfIs
  <2>3. u.c[q] = "red" /\ u.c[inner] = "black" /\ u.c[a] = t.c[a]
    BY <1>1, <1>6, <1>11, <1>12, <1>23
  <2> QED
    BY <1>20, <2>2, <2>3 DEF RedParent
<1> QED
  BY <1>10, <1>19, <1>28, <1>29
(* After the turn for a red inner child the brother is black and its outer child red. *)
RedOuter(t, a) ==
    LET s == SideOf(t, a)
        w == t[Other(s)][t.p[a]]
    IN t.c[w] = "black" /\ t.c[t[Other(s)][w]] = "red"

(* Only the inner child of the brother is red: it becomes the brother. *)
LEMMA InnerRedKeeps ==
  ASSUME NEW t, NEW g, Search(t, g), NEW a, NEW h, NEW q0, NEW e, Deleting(t, a, h, q0, e),
         NEW q, NEW s, NEW w, DeleteTurnAt(t, a, q, s, w),
         t.c[w] = "black", NEW i, i = t[s][w], t.c[i] = "red", t.c[t[Other(s)][w]] = "black",
         NEW v, Recoloured(t, v, i, i, w), NEW u, Turned(v, u, w, i, Other(s))
  PROVE  /\ Search(u, RotateBelow(v, g, w, i, Other(s))) /\ InTree(u) = InTree(t)
         /\ \E k : Deleting(u, a, k, q, s) /\ k[a] = h[a]
         /\ RedOuter(u, a) /\ u.c[a] = t.c[a]
<1> DEFINE o == Other(s)
           r == t[o][i]
<1>1. /\ q \in InTree(t) /\ s \in Sides /\ t[s][q] = a /\ t[o][q] = w /\ t.p[a] = q
      /\ w \in InTree(t) /\ t.p[w] = q /\ w # q /\ w # a /\ a # q /\ w # t.root
      /\ a \in Pointers /\ q \in Pointers /\ w \in Pointers /\ q # NIL_NODE /\ w # NIL_NODE
  BY DeleteNodes
<1>1a. /\ t.c[t.root] = "black" /\ t.root \in InTree(t) /\ Shaped(t) /\ t.root \in Pointers
       /\ a \in InTree(t) \/ a = NIL_NODE
       /\ t.c[a] = "black" /\ t.c[NIL_NODE] = "black"
       /\ o \in Sides /\ s # o /\ Other(o) = s /\ \A f \in Sides : f = s \/ f = o
  <2>1. s \in Sides /\ Shaped(t)
    BY <1>1 DEF Search
  <2>2. Other(o) = s
    BY <2>1, SideTypes
  <2>3. o \in Sides /\ s # o /\ \A f \in Sides : f = s \/ f = o
    BY <2>1, SideIsField
  <2>4. t.c[t.root] = "black" /\ t.root \in InTree(t) /\ (a \in InTree(t) \/ a = NIL_NODE)
    BY DeleteNodes
  <2>5. t.root \in Pointers
    BY RootTypes
  <2>6. t.c[a] = "black" /\ t.c[NIL_NODE] = "black"
    BY <2>1 DEF DeleteTurnAt, Shaped
  <2> QED
    BY <2>1, <2>2, <2>3, <2>4, <2>5, <2>6
<1>1b. /\ i \in InTree(t) /\ t.p[i] = w /\ i # w /\ i # NIL_NODE /\ i \in Pointers /\ i # q /\ i # a
       /\ i # t.root
  <2>1. i # NIL_NODE
    BY <1>1a
  <2>2. i \in InTree(t) /\ t.p[i] = w /\ i # w /\ i \in Pointers /\ i \in g[w]
    BY <1>1, <2>1, ChildTypes, BelowTypes
  <2>3. q \notin g[w]
    BY <1>1, ParentOf
  <2>4. i # t.root
    BY <1>1, <2>2, RootTypes
  <2> QED
    BY <1>1, <2>1, <2>2, <2>3, <2>4
<1>2. h \in [Pointers -> Nat] /\ h[NIL_NODE] = 0 /\ h[w] \in Nat /\ h[a] \in Nat
  BY DeleteCounts
<1>2a. \A f \in Sides : h[w] = h[t[f][w]] + Black(t, w) /\ h[t[f][w]] \in Nat
  BY DeleteCounts
<1>2b. \A n \in InTree(t), f \in Sides : CountedAt(t, h, q, s, n, f)
  BY DeleteCounts
<1>3. \A n \in InTree(t) : t.c[n] = "red" => t.c[t.p[n]] = "black"
  BY DeleteCounts
<1>5. Shaped(v) /\ SameTree(t, v)
  BY DEF Recoloured
<1>6. \A m \in Pointers : v.c[m] = IF m = w THEN "red" ELSE IF m = i THEN "black" ELSE t.c[m]
  BY DEF Recoloured
<1>7. Search(v, g) /\ InTree(v) = InTree(t)
  BY <1>5, SameSearch
<1>8. v.root = t.root /\ v.p = t.p /\ \A f \in Sides : v[f] = t[f]
  BY <1>5, SideIsField DEF SameTree, Fields
<1>9. i = v[Other(o)][w] /\ v[o][w] = t[o][w] /\ v[o][i] = r /\ v[s][i] = t[s][i] /\ v[Other(o)][i] = t[s][i]
  BY <1>1, <1>1a, <1>8
<1>10. Search(u, RotateBelow(v, g, w, i, o)) /\ InTree(u) = InTree(t)
  <2>1. w \in InTree(v) /\ o \in Sides /\ i = v[Other(o)][w] /\ i # NIL_NODE /\ Turned(v, u, w, i, o)
    BY <1>1, <1>1a, <1>1b, <1>7, <1>9
  <2> HIDE DEF o, r
  <2>2. Search(u, RotateBelow(v, g, w, i, o)) /\ InTree(u) = InTree(v)
    BY <1>7, <2>1, RotateSearch
  <2> QED
    BY <1>7, <2>2
<1>11. r # i /\ r # w /\ r \in Pointers /\ (r # NIL_NODE => r \in InTree(t) /\ t.p[r] = i)
  <2>1. r # i /\ r \in Pointers /\ (r # NIL_NODE => r \in InTree(t) /\ t.p[r] = i)
    BY <1>1a, <1>1b, ChildTypes
  <2> QED
    BY <1>1, <1>1b, <2>1
<1>12. u.c = v.c /\ u.root = t.root
  BY <1>1, <1>8 DEF Turned
<1>13. \A n \in Pointers :
          u.p[n] = IF n = w THEN i ELSE IF n = i THEN q
                   ELSE IF n = r /\ n # NIL_NODE THEN w ELSE t.p[n]
  BY <1>1, <1>8, <1>9 DEF Turned
<1>14. \A n \in Pointers, f \in Sides :
          u[f][n] = IF n = w /\ f = s THEN r ELSE IF n = i /\ f = o THEN w
                    ELSE IF t[f][n] = w THEN i ELSE t[f][n]
  BY <1>1a, <1>8, <1>9 DEF Turned
<1> HIDE DEF o, r
<1>15. /\ Black(t, w) = 1 /\ Black(t, i) = 0 /\ Black(v, w) = 0 /\ Black(v, i) = 1
       /\ \A n \in Pointers : n # i /\ n # w => Black(v, n) = Black(t, n)
  BY <1>1, <1>1b, <1>6 DEF Black
<1>16. \A f \in Sides : Missing(i, f, q, s) = 0 /\ Missing(w, f, q, s) = 0
  BY <1>1, <1>1b DEF Missing
<1>17. /\ h[w] = h[i] + 1 /\ h[w] = h[t[o][w]] + 1 /\ h[i] = h[r] + 0 /\ h[i] = h[t[s][i]] + 0
       /\ h[i] \in Nat /\ h[t[o][w]] \in Nat /\ h[r] \in Nat /\ h[t[s][i]] \in Nat
  <2>1. h[w] = h[i] + 1 /\ h[w] = h[t[o][w]] + 1 /\ h[i] \in Nat /\ h[t[o][w]] \in Nat
    BY <1>1, <1>1a, <1>2a, <1>15
  <2>2. t[s][i] \in Pointers
    BY <1>1, <1>1b, ChildTypes
  <2>3. h[r] \in Nat /\ h[t[s][i]] \in Nat
    BY <1>2, <1>11, <2>2
  <2>4. CountedAt(t, h, q, s, i, s) /\ CountedAt(t, h, q, s, i, o)
    BY <1>1, <1>1a, <1>1b, <1>2b
  <2>5. h[i] = h[t[s][i]] + 0 + 0 /\ h[i] = h[r] + 0 + 0
    BY <1>1, <1>1a, <1>15, <1>16, <2>4 DEF CountedAt, r
  <2> QED
    BY <2>1, <2>3, <2>5
<1> DEFINE k == [h EXCEPT ![i] = h[w], ![w] = h[i]]
<1>18. Counted(u, k, q, s)
  <2>1. /\ h[i] = h[v[o][w]] + Black(v, w) + Missing(w, o, q, s)
        /\ h[i] = h[v[o][i]] + Black(v, w) + Missing(w, Other(o), q, s)
        /\ h[w] = h[i] + Black(v, i) + Missing(i, o, q, s)
        /\ h[w] = h[v[Other(o)][i]] + Black(v, i) + Missing(i, Other(o), q, s)
    <3>1. h[i] = h[t[o][w]] + 0 + 0 /\ h[i] = h[r] + 0 + 0
      BY <1>17
    <3>2. h[w] = h[i] + 1 + 0 /\ h[w] = h[t[s][i]] + 1 + 0
      BY <1>17
    <3>3. Missing(i, o, q, s) = 0 /\ Missing(w, o, q, s) = 0 /\ Missing(i, s, q, s) = 0 /\ Missing(w, s, q, s) = 0
      BY <1>1, <1>1a, <1>16
    <3> QED
      BY <1>1a, <1>9, <1>15, <3>1, <3>2, <3>3
  <2>2. ASSUME NEW n \in InTree(v) \ {w, i}, NEW f \in Sides
        PROVE  CountedAt(v, h, q, s, n, f)
    <3>1. n \in InTree(t) /\ n \in Pointers /\ n # i /\ n # w
      BY <1>1a, <1>7, KeyTypes
    <3>2. CountedAt(t, h, q, s, n, f)
      BY <1>2b, <3>1
    <3> QED
      BY <1>8, <1>15, <3>1, <3>2 DEF CountedAt
  <2>3. PICK m \in Nat : m = h[i]
    BY <1>17
  <2>4. /\ m = h[v[o][w]] + Black(v, w) + Missing(w, o, q, s)
        /\ m = h[v[o][i]] + Black(v, w) + Missing(w, Other(o), q, s)
        /\ h[w] = m + Black(v, i) + Missing(i, o, q, s)
        /\ h[w] = h[v[Other(o)][i]] + Black(v, i) + Missing(i, Other(o), q, s)
    BY <2>1, <2>3
  <2>5. Counted(u, [h EXCEPT ![i] = h[w], ![w] = m], q, s)
    <3>1. w \in InTree(v) /\ o \in Sides /\ i = v[Other(o)][w] /\ i # NIL_NODE
      BY <1>1, <1>1a, <1>1b, <1>7, <1>9
    <3>2. Turned(v, u, w, i, o)
      BY DEF o
    <3> QED
      BY <1>2, <1>7, <2>2, <2>4, <3>1, <3>2, RotateCounted
  <2> QED
    BY <2>3, <2>5
<1>19. k[a] = h[a]
  BY <1>1, <1>1b, <1>2
<1> HIDE DEF k
<1>20. u.p[a] = q /\ u[s][q] = a /\ u[o][q] = i /\ u[o][i] = w
  <2>1. ~(a = r /\ a # NIL_NODE)
    BY <1>1, <1>1b, <1>11
  <2> QED
    BY <1>1, <1>1a, <1>1b, <1>13, <1>14, <2>1
<1>21. HangsAt(u, a, q, s)
  <2>1. a # u.root
    BY <1>12 DEF DeleteTurnAt
  <2> QED
    BY <1>1, <1>10, <1>20, <2>1 DEF HangsAt
<1>22. ASSUME NEW n \in InTree(t), v.c[n] = "red"
       PROVE  v.c[u.p[n]] = "black"
  <2>1. n \in Pointers /\ n # NIL_NODE /\ t.p[n] \in Pointers
    BY <1>1a, KeyTypes, ChildOf
  <2>2. CASE n = w
    BY <1>1, <1>1b, <1>6, <1>13, <2>2
  <2>3. CASE n # w
    <3>1. t.c[n] = "red" /\ n # i
      BY <1>6, <1>22, <2>1, <2>3
    <3>2. t.c[t.p[n]] = "black"
      BY <1>3, <3>1
    <3>3. n # r
      BY <1>11, <2>1, <3>2
    <3>4. u.p[n] = t.p[n]
      BY <1>13, <2>1, <2>3, <3>1, <3>3
    <3>5. t.p[n] # w
      <4> SUFFICES ASSUME t.p[n] = w
                   PROVE  FALSE
        OBVIOUS
      <4>1. n # t.root
        BY <1>1a, <3>1
      <4>2. PICK f \in Sides : t[f][t.p[n]] = n
        BY <4>1, ParentOf
      <4>3. n = i \/ n = t[o][w]
        BY <1>1a, <4>2
      <4> QED
        BY <3>1, <4>3 DEF o
    <3> QED
      BY <1>6, <2>1, <3>2, <3>4, <3>5
  <2> QED
    BY <2>2, <2>3
<1>23. RedsApart(u, a, a)
  BY <1>10, <1>12, <1>22 DEF RedsApart
<1>24. u.c[u.root] # "red"
  BY <1>1, <1>1a, <1>6, <1>12
<1>25. a \in InTree(u) \union {NIL_NODE}
  BY <1>1a, <1>10
<1>26. Deleting(u, a, k, q, s)
  BY <1>18, <1>21, <1>23, <1>24, <1>25 DEF Deleting
<1>27. RedOuter(u, a) /\ u.c[a] = t.c[a]
  <2>1. SideOf(u, a) = s
    BY <1>1, <1>1b, <1>20, SideOfIs DEF o
  <2>2. u.c[i] = "black" /\ u.c[w] = "red" /\ u.c[a] = t.c[a]
    BY <1>1, <1>1b, <1>6, <1>12
  <2> QED
    BY <1>20, <2>1, <2>2 DEF RedOuter, o
<1> QED
  BY <1>10, <1>19, <1>26, <1>27 DEF o
(* The brother gets the colour of the parent, which gets black, like the outer child. *)
Repainted(t, v, q, w, i) ==
    /\ Shaped(v) /\ SameTree(t, v)
    /\ \A m \in Pointers :
          v.c[m] = IF m = i \/ m = q THEN "black" ELSE IF m = w THEN t.c[q] ELSE t.c[m]

LEMMA PaintedIs ==
  ASSUME Shaped(rbt), NEW s \in Sides, NEW q \in Nodes, q = above, NEW w \in Nodes, NEW i \in Pointers,
         i = rbt[Other(s)][w], w # q, w # i, i # q
  PROVE  Repainted(rbt, Painted(s, w), q, w, i)
<1>0. PICK c0 \in {"red", "black"} : c0 = rbt.c[q]
  <2>1. q \in Pointers
    BY DEF Pointers
  <2> QED
    BY <2>1, Colours
<1> DEFINE t1 == Paint(rbt, w, c0)
           t2 == Paint(t1, q, "black")
           t3 == Paint(t2, i, "black")
<1>1. w \in Pointers /\ w # NIL_NODE /\ q \in Pointers /\ rbt.c[q] \in {"red", "black"}
  <2>1. w \in Pointers /\ w # NIL_NODE /\ q \in Pointers
    BY NilApart DEF Pointers
  <2> QED
    BY <2>1, Colours
<1>2. Painted(s, w) = t3
  BY <1>0 DEF Painted, Paint
<1>3. Shaped(t1) /\ SameTree(rbt, t1) /\ \A m \in Pointers : t1.c[m] = IF m = w THEN c0 ELSE rbt.c[m]
  <2>1. PICK t : t = rbt
    OBVIOUS
  <2>2. PICK n \in Pointers : n = w
    BY <1>1
  <2>3. PICK v : v = Paint(t, n, c0)
    OBVIOUS
  <2>4. Shaped(t) /\ n # NIL_NODE
    BY <1>1, <2>1, <2>2
  <2>5. Shaped(v)
    BY <2>3, <2>4, PaintIs
  <2>6. SameTree(t, v)
    BY <2>3, <2>4, PaintIs
  <2>7. \A m \in Pointers : v.c[m] = IF m = n THEN c0 ELSE t.c[m]
    BY <2>3, <2>4 DEF Paint, Shaped, Pointers
  <2>8. v = t1
    BY <2>1, <2>2, <2>3
  <2> HIDE DEF t1
  <2> QED
    BY <2>1, <2>2, <2>5, <2>6, <2>7, <2>8
<1> HIDE DEF t1
<1>4. Shaped(t2) /\ SameTree(t1, t2) /\ \A m \in Pointers : t2.c[m] = IF m = q THEN "black" ELSE t1.c[m]
  BY <1>1, <1>3, PaintIs
<1> HIDE DEF t2
<1>5. Shaped(t3) /\ SameTree(t2, t3) /\ \A m \in Pointers : t3.c[m] = IF m = i THEN "black" ELSE t2.c[m]
  BY <1>4, PaintIs
<1> HIDE DEF t3
<1>6. SameTree(rbt, t3)
  BY <1>3, <1>4, <1>5, SameTrans
<1> QED
  BY <1>0, <1>2, <1>3, <1>4, <1>5, <1>6 DEF Repainted

(* The outer child of the brother is red: no black node is missing any more. *)
LEMMA OuterRedKeeps ==
  ASSUME NEW t, NEW g, Search(t, g), NEW a, NEW h, NEW q0, NEW e, Deleting(t, a, h, q0, e),
         NEW q, NEW s, NEW w, DeleteTurnAt(t, a, q, s, w),
         t.c[w] = "black", NEW i, i = t[Other(s)][w], t.c[i] = "red",
         NEW v, Repainted(t, v, q, w, i), NEW u, Turned(v, u, q, w, s)
  PROVE  /\ Search(u, RotateBelow(v, g, q, w, s)) /\ InTree(u) = InTree(t)
         /\ \E k : /\ Deleting(u, u.root, k, NIL_NODE, "l")
                   /\ k[u.root] \in Nat /\ h[a] + 1 <= k[u.root]
<1> DEFINE o == Other(s)
           r == t[s][w]
<1>1. /\ q \in InTree(t) /\ s \in Sides /\ t[s][q] = a /\ t[o][q] = w /\ t.p[a] = q
      /\ w \in InTree(t) /\ t.p[w] = q /\ w # q /\ w # a /\ a # q /\ w # t.root
      /\ a \in Pointers /\ q \in Pointers /\ w \in Pointers /\ q # NIL_NODE /\ w # NIL_NODE
  BY DeleteNodes
<1>1a. /\ t.c[t.root] = "black" /\ t.root \in InTree(t) /\ Shaped(t) /\ t.root \in Pointers
       /\ t.c[a] = "black" /\ t.c[NIL_NODE] = "black"
       /\ o \in Sides /\ s # o /\ \A f \in Sides : f = s \/ f = o
  <2>1. s \in Sides /\ Shaped(t)
    BY <1>1 DEF Search
  <2>3. o \in Sides /\ s # o /\ \A f \in Sides : f = s \/ f = o
    BY <2>1, SideIsField
  <2>4. t.c[t.root] = "black" /\ t.root \in InTree(t)
    BY DeleteNodes
  <2>5. t.root \in Pointers
    BY RootTypes
  <2>6. t.c[a] = "black" /\ t.c[NIL_NODE] = "black"
    BY <2>1 DEF DeleteTurnAt, Shaped
  <2> QED
    BY <2>1, <2>3, <2>4, <2>5, <2>6
<1>1b. i \in InTree(t) /\ t.p[i] = w /\ i # w /\ i # NIL_NODE /\ i \in Pointers /\ i # q /\ i # a /\ i # r
  <2>1. i # NIL_NODE
    BY <1>1a
  <2>2. i \in InTree(t) /\ t.p[i] = w /\ i # w /\ i \in Pointers /\ i \in g[w] /\ i # r
    BY <1>1, <1>1a, <2>1, ChildTypes
  <2>3. q \notin g[w]
    BY <1>1, ParentOf
  <2> QED
    BY <1>1, <2>1, <2>2, <2>3
<1>1c. r # w /\ r # q /\ r \in Pointers /\ t.p[q] # q /\ t.p[q] # w /\ t.p[q] \in Pointers
  BY <1>1, RotateNodes
<1>2. /\ h \in [Pointers -> Nat] /\ h[NIL_NODE] = 0
      /\ h[a] \in Nat /\ h[w] = h[a] + 1 /\ h[q] = h[w] + Black(t, q) /\ h[q] \in Nat /\ h[w] \in Nat
  BY DeleteCounts
<1>2a. \A f \in Sides : h[w] = h[t[f][w]] + Black(t, w) /\ h[t[f][w]] \in Nat
  BY DeleteCounts
<1>2b. /\ \A n \in InTree(t), f \in Sides : CountedAt(t, h, q, s, n, f)
       /\ \A n \in InTree(t), f \in Sides : Missing(n, f, q, s) = IF n = q /\ f = s THEN 1 ELSE 0
  BY DeleteCounts
<1>3. \A n \in InTree(t) : t.c[n] = "red" => t.c[t.p[n]] = "black"
  BY DeleteCounts
<1>5. Shaped(v) /\ SameTree(t, v)
  BY DEF Repainted
<1>6. \A m \in Pointers :
         v.c[m] = IF m = i \/ m = q THEN "black" ELSE IF m = w THEN t.c[q] ELSE t.c[m]
  BY DEF Repainted
<1>7. Search(v, g) /\ InTree(v) = InTree(t)
  BY <1>5, SameSearch
<1>8. v.root = t.root /\ v.p = t.p /\ \A f \in Sides : v[f] = t[f]
  BY <1>5, SideIsField DEF SameTree, Fields
<1>9. w = v[Other(s)][q] /\ v[s][q] = a /\ v[s][w] = r /\ v[o][w] = i
  BY <1>1, <1>1a, <1>8
<1>10. Search(u, RotateBelow(v, g, q, w, s)) /\ InTree(u) = InTree(t)
  BY <1>1, <1>7, <1>9, RotateSearch
<1>12. u.c = v.c /\ u.root = IF t.root = q THEN w ELSE t.root
  BY <1>8 DEF Turned
<1>13. \A n \in Pointers :
          u.p[n] = IF n = q THEN w ELSE IF n = w THEN t.p[q]
                   ELSE IF n = r /\ n # NIL_NODE THEN q ELSE t.p[n]
  BY <1>1, <1>8, <1>9 DEF Turned
<1> HIDE DEF o, r
<1>15. /\ Black(t, w) = 1 /\ Black(t, i) = 0 /\ Black(v, q) = 1 /\ Black(v, i) = 1
       /\ Black(v, w) = Black(t, q) /\ Black(t, q) \in Nat
       /\ \A n \in Pointers : n # q /\ n # w /\ n # i => Black(v, n) = Black(t, n)
  BY <1>1, <1>1b, <1>6 DEF Black
<1>16. \A n \in InTree(t), f \in Sides : Missing(n, f, NIL_NODE, "l") = 0
  BY <1>1a, NoneMissing
<1>17. h[w] = h[a] + 1 /\ h[w] = h[r] + 1 /\ h[w] = h[i] + 1 /\ h[r] \in Nat /\ h[i] \in Nat
  <2>1. t[s][w] = r /\ t[o][w] = i /\ s \in Sides /\ o \in Sides
    BY <1>1, <1>1a DEF r, o
  <2>2. h[w] = h[r] + Black(t, w) /\ h[w] = h[i] + Black(t, w) /\ h[r] \in Nat /\ h[i] \in Nat
    BY <1>2a, <2>1
  <2> QED
    BY <1>2, <1>15, <2>2
<1> DEFINE j == [h EXCEPT ![i] = h[w]]
           k == [j EXCEPT ![w] = h[q], ![q] = h[w]]
<1>18. /\ j \in [Pointers -> Nat] /\ j[i] = h[w] /\ \A n \in Pointers : n # i => j[n] = h[n]
       /\ j[NIL_NODE] = 0 /\ j[q] = h[q] /\ j[w] = h[w] /\ j[a] = h[a] /\ j[r] = h[r]
  BY <1>1, <1>1b, <1>1c, <1>2 DEF Pointers
<1> HIDE DEF j
<1>19. Counted(u, k, NIL_NODE, "l")
  <2>1. /\ h[w] = j[v[s][q]] + Black(v, q) + Missing(q, s, NIL_NODE, "l")
        /\ h[w] = j[v[s][w]] + Black(v, q) + Missing(q, Other(s), NIL_NODE, "l")
        /\ j[q] = h[w] + Black(v, w) + Missing(w, s, NIL_NODE, "l")
        /\ j[q] = j[v[Other(s)][w]] + Black(v, w) + Missing(w, Other(s), NIL_NODE, "l")
    <3>1. h[w] = j[a] + 1 + 0 /\ h[w] = j[r] + 1 + 0
      BY <1>17, <1>18, <1>2
    <3>2. j[q] = h[w] + Black(t, q) + 0 /\ j[q] = j[i] + Black(t, q) + 0
      BY <1>2, <1>15, <1>18
    <3>3. /\ Missing(q, s, NIL_NODE, "l") = 0 /\ Missing(q, Other(s), NIL_NODE, "l") = 0
          /\ Missing(w, s, NIL_NODE, "l") = 0 /\ Missing(w, Other(s), NIL_NODE, "l") = 0
          /\ v[Other(s)][w] = i
      BY <1>1, <1>1a, <1>9, <1>16 DEF o
    <3> QED
      BY <1>9, <1>15, <3>1, <3>2, <3>3
  <2>2. ASSUME NEW n \in InTree(v) \ {q, w}, NEW f \in Sides
        PROVE  CountedAt(v, j, NIL_NODE, "l", n, f)
    <3>1. n \in InTree(t) /\ n \in Pointers /\ n # q /\ n # w /\ t[f][n] \in Pointers
      BY <1>1a, <1>7, KeyTypes, ChildTypes
    <3>2. CountedAt(t, h, q, s, n, f) /\ Missing(n, f, q, s) = 0
      BY <1>2b, <3>1
    <3>3. t[f][n] # i
      BY <1>1b, <3>1, ChildTypes
    <3>4. h[n] = h[t[f][n]] + Black(t, n) + 0 /\ j[t[f][n]] = h[t[f][n]] /\ h[t[f][n]] \in Nat
      BY <1>2, <1>18, <3>1, <3>2, <3>3 DEF CountedAt
    <3>5. j[n] = j[t[f][n]] + Black(v, n) + 0
      <4>1. CASE n = i
        BY <1>15, <1>17, <1>18, <3>4, <4>1
      <4>2. CASE n # i
        BY <1>15, <1>18, <3>1, <3>4, <4>2
      <4> QED
        BY <4>1, <4>2
    <3> QED
      BY <1>8, <1>16, <3>1, <3>5 DEF CountedAt
  <2>3. PICK m \in Nat : m = h[w]
    BY <1>2
  <2>4. /\ m = j[v[s][q]] + Black(v, q) + Missing(q, s, NIL_NODE, "l")
        /\ m = j[v[s][w]] + Black(v, q) + Missing(q, Other(s), NIL_NODE, "l")
        /\ j[q] = m + Black(v, w) + Missing(w, s, NIL_NODE, "l")
        /\ j[q] = j[v[Other(s)][w]] + Black(v, w) + Missing(w, Other(s), NIL_NODE, "l")
    BY <2>1, <2>3
  <2>5. Counted(u, [j EXCEPT ![w] = j[q], ![q] = m], NIL_NODE, "l")
    <3>1. q \in InTree(v) /\ s \in Sides /\ w = v[Other(s)][q] /\ w # NIL_NODE
      BY <1>1, <1>7, <1>9
    <3>2. j \in [Pointers -> Nat] /\ j[NIL_NODE] = 0
      BY <1>18
    <3> QED
      BY <1>7, <2>2, <2>4, <3>1, <3>2, RotateCounted
  <2> QED
    BY <1>18, <2>3, <2>5
<1>20. k[w] = h[q]
  BY <1>1, <1>18
<1> HIDE DEF k
<1>21. ASSUME NEW n \in InTree(t), v.c[n] = "red"
       PROVE  v.c[u.p[n]] = "black"
  <2>1. n \in Pointers /\ n # NIL_NODE /\ t.p[n] \in Pointers
    BY <1>1a, KeyTypes, ChildOf
  <2>2. CASE n = w
    <3>1. t.c[q] = "red" /\ u.p[n] = t.p[q]
      BY <1>1, <1>1b, <1>6, <1>13, <1>21, <2>2
    <3>2. t.c[t.p[q]] = "black"
      BY <1>1, <1>3, <3>1
    <3> QED
      BY <1>1c, <1>6, <3>1, <3>2
  <2>3. CASE n # w
    <3>1. t.c[n] = "red" /\ n # i /\ n # q
      BY <1>6, <1>21, <2>1, <2>3
    <3>2. t.c[t.p[n]] = "black"
      BY <1>3, <3>1
    <3>3. CASE n = r
      BY <1>1, <1>6, <1>13, <2>1, <2>3, <3>1, <3>3
    <3>4. CASE n # r
      <4>1. u.p[n] = t.p[n]
        BY <1>13, <2>1, <2>3, <3>1, <3>4
      <4>2. t.p[n] # w
        <5> SUFFICES ASSUME t.p[n] = w
                     PROVE  FALSE
          OBVIOUS
        <5>1. n # t.root
          BY <1>1a, <3>1
        <5>2. PICK f \in Sides : t[f][t.p[n]] = n
          BY <5>1, ParentOf
        <5>3. f = s \/ f = Other(s)
          BY <1>1, SideIsField
        <5> QED
          BY <3>1, <3>4, <5>2, <5>3 DEF r
      <4> QED
        BY <1>6, <2>1, <3>2, <4>1, <4>2
    <3> QED
      BY <3>3, <3>4
  <2> QED
    BY <2>2, <2>3
<1>22. RedsApart(u, u.root, u.root)
  BY <1>10, <1>12, <1>21 DEF RedsApart
<1>23. u.root \in InTree(u) \union {NIL_NODE}
  BY <1>1, <1>1a, <1>10, <1>12
<1>24. Deleting(u, u.root, k, NIL_NODE, "l")
  BY <1>19, <1>22, <1>23 DEF Deleting, HangsAt
<1>25. k[u.root] \in Nat /\ h[a] + 1 <= k[u.root]
  <2>1. w \in InTree(u) /\ w \in Pointers
    BY <1>1, <1>10
  <2>2. k[u.root] \in Nat /\ k[w] <= k[u.root]
    BY <1>10, <1>19, <2>1, RootHighest
  <2> QED
    BY <1>2, <1>15, <1>20, <2>2
<1> QED
  BY <1>10, <1>24, <1>25
-----------------------------------------------------------------------------
(* The parents of a node, one after the other, are those above it, and the last of
   them is root. *)
LEMMA AboveCount ==
  ASSUME NEW t, NEW g, Search(t, g), NEW n \in InTree(t)
  PROVE  /\ AboveIn(t, g, n) \subseteq Nodes /\ n \in AboveIn(t, g, n)
         /\ Cardinality(AboveIn(t, g, n)) \in 1..Size
         /\ n = t.root <=> Cardinality(AboveIn(t, g, n)) = 1
         /\ n # t.root => t.p[n] \in InTree(t)
              /\ Cardinality(AboveIn(t, g, n)) = Cardinality(AboveIn(t, g, t.p[n])) + 1
<1> DEFINE A == AboveIn(t, g, n)
           q == t.p[n]
           B == AboveIn(t, g, q)
<1>1. A \subseteq Nodes /\ n \in A
  BY BelowTypes DEF AboveIn, InTree
<1>2. Cardinality(A) \in Nat /\ Cardinality(A) <= Size /\ IsFiniteSet(A)
  <2> HIDE DEF A
  <2> QED
    BY <1>1, SizeOf
<1>3. Cardinality(A) # 0
  <2> HIDE DEF A
  <2> QED
    BY <1>1, <1>2, FS_EmptySet
<1>4. n = t.root => Cardinality(A) = 1
  BY AboveParent, FS_Singleton
<1>5. ASSUME n # t.root
      PROVE  q \in InTree(t) /\ Cardinality(A) = Cardinality(B) + 1 /\ Cardinality(B) \in Nat
             /\ Cardinality(B) # 0
  <2>1. q \in InTree(t)
    BY <1>5, ParentOf
  <2>2. A = B \union {n} /\ n \notin B
    BY <1>5, AboveParent
  <2>3. B \subseteq Nodes /\ q \in B
    BY <2>1, BelowTypes DEF AboveIn, InTree
  <2> HIDE DEF A, B, q
  <2>4. IsFiniteSet(B) /\ Cardinality(B) \in Nat
    BY <2>3, SizeOf
  <2>5. Cardinality(B) # 0
    BY <2>3, <2>4, FS_EmptySet
  <2>6. Cardinality(A) = Cardinality(B) + 1
    BY <2>2, <2>4, FS_AddElement
  <2> QED
    BY <2>1, <2>4, <2>5, <2>6
<1> HIDE DEF A, B
<1>6. Cardinality(A) = 1 => n = t.root
  BY <1>5
<1>7. Cardinality(A) \in 1..Size
  BY <1>2, <1>3, SizeNat
<1> QED
  BY <1>1, <1>4, <1>5, <1>6, <1>7 DEF A, B

LEMMA ParentsWalk ==
  ASSUME NEW t, NEW g, Search(t, g), NEW n \in InTree(t), NEW w, Iterates(w, t.p, n, Pointers, Size)
  PROVE  \E d \in 0..Size :
           /\ w[d] = t.root /\ AboveIn(t, g, n) = {w[k] : k \in 0..d}
           /\ \A k \in 0..d : k # d => w[k] # t.root
<1> DEFINE up(m) == AboveIn(t, g, m)
           d == Cardinality(up(n)) - 1
           Holds(k) == /\ w[k] \in InTree(t) /\ Cardinality(up(w[k])) = d + 1 - k
                       /\ up(n) = {w[j] : j \in 0..(k - 1)} \union up(w[k])
           Good == {k \in Nat : k <= d => Holds(k)}
<1>1. w \in [0..Size -> Pointers] /\ w[0] = n /\ \A k \in 1..Size : w[k] = t.p[w[k - 1]]
  BY DEF Iterates
<1>2. d \in Nat /\ d <= Size /\ d + 1 = Cardinality(up(n)) /\ d < Size
  BY AboveCount, SizeNat
<1> HIDE DEF d
<1>3. 0 \in Good
  <2>1. 0..(0 - 1) = {}
    OBVIOUS
  <2> QED
    BY <1>1, <1>2, <2>1
<1>4. ASSUME NEW k \in Nat, k \in Good
      PROVE  k + 1 \in Good
  <2> SUFFICES ASSUME k + 1 <= d
               PROVE  Holds(k + 1)
    OBVIOUS
  <2>1. k <= d
    BY <1>2
  <2>2. Holds(k)
    BY <1>4, <2>1
  <2>3. k + 1 \in 1..Size /\ (k + 1) - 1 = k
    BY <1>2, SizeNat
  <2>4. w[k + 1] = t.p[w[k]]
    BY <1>1, <2>3
  <2>5. Cardinality(up(w[k])) # 1
    BY <1>2, <2>2
  <2>6. w[k] # t.root /\ w[k + 1] \in InTree(t)
        /\ Cardinality(up(w[k])) = Cardinality(up(w[k + 1])) + 1
    BY <2>2, <2>4, <2>5, AboveCount
  <2>7. up(w[k]) = {w[k]} \union up(w[k + 1])
    BY <2>2, <2>4, <2>6, AboveParent
  <2>8. Cardinality(up(w[k + 1])) \in Nat
    BY <2>6, AboveCount
  <2>9. Cardinality(up(w[k + 1])) = d + 1 - (k + 1)
    BY <1>2, <2>2, <2>6, <2>8
  <2>10. 0..((k + 1) - 1) = (0..(k - 1)) \union {k}
    OBVIOUS
  <2>11. {w[j] : j \in 0..((k + 1) - 1)} = {w[j] : j \in 0..(k - 1)} \union {w[k]}
    BY <2>10
  <2>12. up(n) = {w[j] : j \in 0..((k + 1) - 1)} \union up(w[k + 1])
    BY <2>2, <2>7, <2>11
  <2> QED
    BY <2>6, <2>9, <2>12
<1>5. \A k \in Nat : k \in Good
  <2> HIDE DEF Good
  <2> QED
    BY <1>3, <1>4, Induction
<1>6. \A k \in 0..d : Holds(k)
  BY <1>2, <1>5
<1>7. Holds(d)
  BY <1>2, <1>6
<1>8. w[d] = t.root /\ up(w[d]) = {w[d]}
  <2>1. Cardinality(up(w[d])) = 1
    BY <1>2, <1>7
  <2>2. w[d] = t.root
    BY <1>7, <2>1, AboveCount
  <2> QED
    BY <1>7, <2>2, AboveParent
<1>9. ASSUME NEW k \in 0..d, k # d
      PROVE  w[k] # t.root
  <2>1. Cardinality(up(w[k])) # 1
    BY <1>2, <1>6, <1>9
  <2> QED
    BY <1>6, <2>1, AboveCount
<1>10. up(n) = {w[k] : k \in 0..d}
  <2>1. 0..d = (0..(d - 1)) \union {d}
    BY <1>2
  <2>2. {w[k] : k \in 0..d} = {w[k] : k \in 0..(d - 1)} \union {w[d]}
    BY <2>1
  <2> QED
    BY <1>7, <1>8, <2>2
<1>11. d \in 0..Size
  BY <1>2, SizeNat
<1> HIDE DEF Good, Holds
<1> QED
  BY <1>8, <1>9, <1>10, <1>11

LEMMA AncestorsAre ==
  ASSUME NEW g, Search(rbt, g), NEW n \in InTree(rbt)
  PROVE  Ancestors(n) = AboveIn(rbt, g, n)
<1> DEFINE Rec(f) == [k \in 0..Cardinality(Nodes) |-> IF k = 0 THEN n ELSE rbt.p[f[k - 1]]]
<1> DEFINE v == CHOOSE a : a = Rec(a)
<1>1. n \in Pointers /\ rbt.p \in [Pointers -> Pointers]
  BY KeyTypes DEF Search, Shaped
<1>2. PICK w : Iterates(w, rbt.p, n, Pointers, Size)
  BY <1>1, SizeNat, CanIterate
<1>3. w \in [0..Size -> Pointers] /\ w[0] = n /\ \A k \in 1..Size : w[k] = rbt.p[w[k - 1]]
  BY <1>2 DEF Iterates
<1>4. w = Rec(w)
  <2>1. ASSUME NEW k \in 0..Size
        PROVE  w[k] = Rec(w)[k]
    <3>1. CASE k = 0
      BY <1>3, <3>1 DEF Size
    <3>2. CASE k # 0
      <4>1. k \in 1..Size
        BY <3>2, SizeNat
      <4> QED
        BY <1>3, <3>2, <4>1 DEF Size
    <3> QED
      BY <3>1, <3>2
  <2> HIDE DEF Rec
  <2>2. DOMAIN Rec(w) = 0..Size /\ Rec(w) = [k \in 0..Size |-> Rec(w)[k]]
    BY DEF Rec, Size
  <2> QED
    BY <1>3, <2>1, <2>2
<1>5. v = Rec(v)
  <2> HIDE DEF Rec
  <2> QED
    BY <1>4
<1>6. Ancestors(n) = LET top == {k \in 0 .. Cardinality(Nodes) : v[k] = rbt.root}
                     IN IF top = {} THEN {}
                        ELSE {v[k] : k \in {k \in 0 .. Cardinality(Nodes) : \A j \in top : k <= j}}
  BY DEF Ancestors
<1> HIDE DEF v
<1>7. v[0] = n /\ \A k \in 1..Size : v[k] = rbt.p[v[k - 1]]
  <2>1. v[0] = n
    BY <1>5, SizeNat DEF Size
  <2>2. ASSUME NEW k \in 1..Size
        PROVE  v[k] = rbt.p[v[k - 1]]
    <3>1. k \in 0..Cardinality(Nodes) /\ k # 0
      BY SizeNat DEF Size
    <3>2. v[k] = Rec(v)[k]
      BY <1>5
    <3> QED
      BY <3>1, <3>2
  <2> QED
    BY <2>1, <2>2
<1> HIDE DEF Rec
<1>8. \A k \in 0..Size : v[k] = w[k]
  <2> TAKE k \in 0..Size
  <2>1. k \in Nat /\ k <= Size /\ \A j \in 1..k : j \in 1..Size
    BY SizeNat
  <2>2. v[0] = w[0] /\ \A j \in 1..k : v[j - 1] = w[j - 1] => v[j] = w[j]
    BY <1>3, <1>7, <2>1
  <2> QED
    BY <2>1, <2>2, SameWalk
<1>9. PICK d \in 0..Size : /\ w[d] = rbt.root /\ AboveIn(rbt, g, n) = {w[k] : k \in 0..d}
                           /\ \A k \in 0..d : k # d => w[k] # rbt.root
  BY <1>2, ParentsWalk
<1> DEFINE top == {k \in 0..Size : v[k] = rbt.root}
<1>10. Ancestors(n) = IF top = {} THEN {} ELSE {v[k] : k \in {k \in 0..Size : \A j \in top : k <= j}}
  BY <1>6 DEF Size
<1>11. d \in top /\ \A j \in top : d <= j
  <2>1. d \in top
    BY <1>8, <1>9
  <2>2. ASSUME NEW j \in top, ~(d <= j)
        PROVE  FALSE
    <3>1. j \in 0..d /\ j # d
      BY <2>2, SizeNat
    <3> QED
      BY <1>8, <1>9, <3>1
  <2> QED
    BY <2>1, <2>2
<1>12. {k \in 0..Size : \A j \in top : k <= j} = 0..d
  <2> HIDE DEF top
  <2>1. ASSUME NEW k \in 0..Size, \A j \in top : k <= j
        PROVE  k \in 0..d
    BY <1>11, <2>1, SizeNat
  <2>2. top \subseteq 0..Size
    BY DEF top
  <2>3. ASSUME NEW k \in 0..d
        PROVE  k \in 0..Size /\ \A j \in top : k <= j
    BY <1>11, <2>2, SizeNat
  <2> QED
    BY <2>1, <2>3
<1>13. Ancestors(n) = {v[k] : k \in 0..d}
  <2>1. top # {}
    BY <1>11
  <2> HIDE DEF top
  <2> QED
    BY <1>10, <1>12, <2>1
<1>14. \A k \in 0..d : v[k] = w[k]
  BY <1>8, SizeNat
<1> QED
  BY <1>9, <1>13, <1>14
-----------------------------------------------------------------------------
(* What the properties say of a tree that is described so. *)
LEMMA OrderShown ==
  ASSUME NEW g, Search(rbt, g), keys = KeysOf(rbt)
  PROVE  SearchTree
<1>1. {rbt.i[n] : n \in InTree(rbt)} = keys
  BY DEF KeysOf
<1>2. ASSUME NEW n \in InTree(rbt)
      PROVE  n \in Ancestors(n)
  BY AncestorsAre, AboveCount
<1>3. ASSUME NEW n \in InTree(rbt), NEW m \in InTree(rbt), NEW s \in Sides, rbt[s][m] \in Ancestors(n)
      PROVE  Before(s, rbt.i[n], rbt.i[m])
  <2>1. n \in g[rbt[s][m]]
    BY <1>3, AncestorsAre DEF AboveIn
  <2> QED
    BY <2>1 DEF Search, Below
<1>4. ASSUME NEW n \in InTree(rbt), NEW m \in InTree(rbt)
      PROVE  /\ rbt.l[m] \in Ancestors(n) => rbt.i[n] < rbt.i[m]
             /\ rbt.r[m] \in Ancestors(n) => rbt.i[n] > rbt.i[m]
  <2>1. "l" \in Sides /\ "r" \in Sides
    BY DEF Sides
  <2>2. rbt.l[m] \in Ancestors(n) => Before("l", rbt.i[n], rbt.i[m])
    BY <1>3, <2>1
  <2>3. rbt.r[m] \in Ancestors(n) => Before("r", rbt.i[n], rbt.i[m])
    BY <1>3, <2>1
  <2>4. rbt.i[m] \in Nat /\ rbt.i[n] \in Nat
    BY KeyTypes DEF Search
  <2> QED
    BY <2>2, <2>3, <2>4 DEF Before
<1> QED
  BY <1>1, <1>2, <1>4 DEF SearchTree

(* The black nodes at and above a node, and those at and below it, are as many as
   those on the way down from root. *)
BlackIn(t, g, n) == {a \in AboveIn(t, g, n) : t.c[a] # "red"}

LEMMA BlackWay ==
  ASSUME NEW t, NEW g, Search(t, g), NEW h, Counted(t, h, NIL_NODE, "l"), NEW n \in InTree(t)
  PROVE  h[t.root] + Black(t, n) = h[n] + Cardinality(BlackIn(t, g, n))
<1> DEFINE B(m) == Cardinality(BlackIn(t, g, m))
           S == {m \in InTree(t) : ~(h[t.root] + Black(t, m) = h[m] + B(m))}
<1>1. \A m \in InTree(t) : /\ m \in Pointers /\ h[m] \in Nat /\ B(m) \in Nat
                           /\ IsFiniteSet(BlackIn(t, g, m)) /\ Black(t, m) \in {0, 1}
  <2> TAKE m \in InTree(t)
  <2>1. BlackIn(t, g, m) \subseteq Nodes
    BY AboveCount DEF BlackIn
  <2>2. IsFiniteSet(BlackIn(t, g, m)) /\ B(m) \in Nat
    BY <2>1, SizeOf
  <2>3. m \in Pointers /\ h[m] \in Nat
    BY KeyTypes DEF Search, Counted
  <2> QED
    BY <2>2, <2>3 DEF Black
<1>2. ASSUME S # {}
      PROVE  FALSE
  <2>1. S \subseteq InTree(t)
    OBVIOUS
  <2>2. PICK m \in S : \A b \in S : g[m] \subseteq g[b] => g[b] = g[m]
    <3> HIDE DEF S
    <3> QED
      BY <1>2, <2>1, Highest
  <2>3. m \in InTree(t) /\ ~(h[t.root] + Black(t, m) = h[m] + B(m))
    BY <2>2
  <2>4. Shaped(t) /\ t.c[m] \in {"red", "black"}
    BY <1>1, <2>3, Colours DEF Search
  <2>5. CASE m = t.root
    <3>1. AboveIn(t, g, m) = {m}
      BY <2>3, <2>5, AboveParent
    <3>2. BlackIn(t, g, m) = IF t.c[m] = "red" THEN {} ELSE {m}
      BY <3>1 DEF BlackIn
    <3>3. B(m) = Black(t, m)
      BY <2>4, <3>2, FS_EmptySet, FS_Singleton DEF Black
    <3> QED
      BY <2>3, <2>5, <3>3
  <2>6. CASE m # t.root
    <3> DEFINE b == t.p[m]
    <3>1. b \in InTree(t) /\ b \notin g[m] /\ g[m] \subseteq g[b] /\ b \in g[b]
      BY <2>3, <2>6, ParentOf, BelowTypes
    <3>2. PICK s \in Sides : t[s][b] = m
      BY <2>3, <2>6, ParentOf
    <3>3. h[b] = h[m] + Black(t, b)
      <4>1. CountedAt(t, h, NIL_NODE, "l", b, s)
        BY <3>1 DEF Counted
      <4>2. Missing(b, s, NIL_NODE, "l") = 0
        BY <2>4, <3>1, NoneMissing
      <4> HIDE DEF b
      <4>3. h[b] = h[m] + Black(t, b) + 0
        BY <3>2, <4>1, <4>2 DEF CountedAt
      <4> QED
        BY <1>1, <2>3, <3>1, <4>3
    <3>4. h[t.root] + Black(t, b) = h[b] + B(b)
      <4>1. b \notin S
        BY <2>2, <3>1
      <4> QED
        BY <3>1, <4>1
    <3>5. BlackIn(t, g, m) = IF t.c[m] = "red" THEN BlackIn(t, g, b) ELSE BlackIn(t, g, b) \union {m}
      <4>1. AboveIn(t, g, m) = {m} \union AboveIn(t, g, b)
        BY <2>3, <2>6, AboveParent
      <4>2. \A a : a \in AboveIn(t, g, m) <=> a = m \/ a \in AboveIn(t, g, b)
        BY <4>1
      <4> QED
        BY <4>2 DEF BlackIn
    <3>6. m \notin BlackIn(t, g, b)
      BY <2>3, <2>6, AboveParent DEF BlackIn
    <3> HIDE DEF b
    <3>7. B(m) = B(b) + Black(t, m)
      <4>1. CASE t.c[m] = "red"
        BY <1>1, <3>1, <3>5, <4>1 DEF Black
      <4>2. CASE t.c[m] = "black"
        <5>1. BlackIn(t, g, m) = BlackIn(t, g, b) \union {m}
          BY <3>5, <4>2
        <5>2. B(m) = B(b) + 1
          BY <1>1, <3>1, <3>6, <5>1, FS_AddElement
        <5> QED
          BY <4>2, <5>2 DEF Black
      <4> QED
        BY <2>4, <4>1, <4>2
    <3>8. h[t.root] \in Nat
      BY RootTypes DEF Counted
    <3> HIDE DEF S, B
    <3>9. PICK i \in Nat, j \in Nat, c \in Nat, d \in Nat, x \in {0, 1}, y \in {0, 1} :
            i = h[b] /\ j = h[m] /\ c = B(b) /\ d = B(m) /\ x = Black(t, b) /\ y = Black(t, m)
      BY <1>1, <2>3, <3>1
    <3>10. PICK k \in Nat : k = h[t.root]
      BY <3>8
    <3>11. i = j + x /\ k + x = i + c /\ d = c + y /\ ~(k + y = j + d)
      BY <2>3, <3>3, <3>4, <3>7, <3>9, <3>10
    <3>12. x \in Nat /\ y \in Nat
      OBVIOUS
    <3>13. k = j + c
      BY <3>11, <3>12
    <3> QED
      BY <3>11, <3>12, <3>13
  <2> QED
    BY <2>5, <2>6
<1> QED
  BY <1>2

LEMMA BalanceShown ==
  ASSUME NEW g, Search(rbt, g), NEW h, Balanced(rbt, h)
  PROVE  RedBlack
<1>1. Shaped(rbt) /\ Counted(rbt, h, NIL_NODE, "l")
  BY DEF Search, Balanced
<1>2. ~IsRed(rbt, rbt.root)
  BY DEF Balanced, IsRed
<1>3. ASSUME NEW n \in InTree(rbt), IsRed(rbt, n)
      PROVE  ~IsRed(rbt, rbt.p[n])
  <2>1. rbt.c[n] = "red" /\ n # NIL_NODE
    BY <1>1, <1>3, KeyTypes DEF IsRed
  <2>2. rbt.c[rbt.p[n]] = "black" \/ rbt.p[n] = NIL_NODE
    BY <2>1 DEF Balanced, RedsApart
  <2> QED
    BY <1>1, <2>2 DEF Shaped, IsRed
<1>4. ASSUME NEW n \in InTree(rbt), HasNoChild(n)
      PROVE  BlackAbove(n) = h[rbt.root]
  <2>1. BlackAbove(n) = Cardinality(BlackIn(rbt, g, n))
    <3>1. {a \in Ancestors(n) : ~IsRed(rbt, a)} = BlackIn(rbt, g, n)
      BY AncestorsAre DEF BlackIn, IsRed
    <3> QED
      BY <3>1 DEF BlackAbove
  <2>2. PICK s \in Sides : rbt[s][n] = NIL_NODE
    BY <1>4 DEF HasNoChild, Sides
  <2>3. h[n] = Black(rbt, n)
    <3>1. CountedAt(rbt, h, NIL_NODE, "l", n, s) /\ h[NIL_NODE] = 0
      BY <1>1 DEF Counted
    <3>2. Missing(n, s, NIL_NODE, "l") = 0
      BY <1>1, NoneMissing
    <3>3. h[n] = 0 + Black(rbt, n) + 0
      BY <2>2, <3>1, <3>2 DEF CountedAt
    <3> QED
      BY <3>3 DEF Black
  <2>4. h[rbt.root] + Black(rbt, n) = h[n] + Cardinality(BlackIn(rbt, g, n))
    BY <1>1, BlackWay
  <2>5. h[rbt.root] \in Nat /\ Cardinality(BlackIn(rbt, g, n)) \in Nat /\ Black(rbt, n) \in {0, 1}
    <3>1. BlackIn(rbt, g, n) \subseteq Nodes
      BY AboveCount DEF BlackIn
    <3>2. Cardinality(BlackIn(rbt, g, n)) \in Nat
      BY <3>1, SizeOf
    <3> QED
      BY <1>1, <3>2, RootTypes DEF Counted, Black
  <2> QED
    BY <2>1, <2>3, <2>4, <2>5
<1> QED
  BY <1>2, <1>3, <1>4 DEF RedBlack

LEMMA NeighboursShown ==
  ASSUME NEW g, Search(rbt, g), keys = KeysOf(rbt)
  PROVE  NeighboursFound
<1>1. ASSUME NEW n \in InTree(rbt), NEW s \in Sides, NEW e, e = NextOf(rbt, n, s)
      PROVE  LET K == {k \in keys : Before(Other(s), rbt.i[n], k)} IN
             IF K = {} THEN e = NIL_NODE
             ELSE rbt.i[e] \in K /\ \A k \in K : k = rbt.i[e] \/ Before(Other(s), rbt.i[e], k)
  <2> DEFINE K == {k \in keys : Before(Other(s), rbt.i[n], k)}
             F == {m \in InTree(rbt) : Before(Other(s), rbt.i[n], rbt.i[m])}
  <2>1. IF F = {} THEN e = NIL_NODE
        ELSE e \in F /\ \A m \in F : m = e \/ Before(Other(s), rbt.i[e], rbt.i[m])
    BY <1>1, NextIs DEF NextTo
  <2>2. \A k : k \in K <=> \E m \in F : k = rbt.i[m]
    BY DEF KeysOf
  <2> HIDE DEF K, F
  <2>3. F = {} <=> K = {}
    BY <2>2
  <2>4. F # {} => rbt.i[e] \in K /\ \A k \in K : k = rbt.i[e] \/ Before(Other(s), rbt.i[e], k)
    BY <2>1, <2>2
  <2> QED
    BY <2>1, <2>3, <2>4 DEF K
<1>2. \A k \in keys : k \in Nat
  BY KeyTypes DEF KeysOf, Search
<1>3. ASSUME NEW n \in InTree(rbt)
      PROVE  LET larger == {k \in keys : k > rbt.i[n]}
                 suc == NextOf(rbt, n, "r")
             IN IF larger = {} THEN suc = NIL_NODE
                ELSE rbt.i[suc] \in larger /\ \A k \in larger : rbt.i[suc] <= k
  <2> DEFINE K == {k \in keys : Before("l", rbt.i[n], k)}
             larger == {k \in keys : k > rbt.i[n]}
             suc == NextOf(rbt, n, "r")
  <2>1. "r" \in Sides /\ Other("r") = "l"
    BY DEF Sides, Other
  <2>2. IF K = {} THEN suc = NIL_NODE
        ELSE rbt.i[suc] \in K /\ \A k \in K : k = rbt.i[suc] \/ Before("l", rbt.i[suc], k)
    <3> HIDE DEF suc
    <3>1. suc = NextOf(rbt, n, "r")
      BY DEF suc
    <3> QED
      BY <1>1, <2>1, <3>1
  <2>3. rbt.i[n] \in Nat
    BY KeyTypes DEF Search
  <2>4. \A k \in keys : k > rbt.i[n] <=> Before("l", rbt.i[n], k)
    BY <1>2, <2>3 DEF Before
  <2>5. larger = K
    BY <2>4
  <2> HIDE DEF suc
  <2>7. K \subseteq Nat
    BY <1>2
  <2> HIDE DEF K, larger
  <2>8. ASSUME K # {}
        PROVE  rbt.i[suc] \in K /\ \A k \in K : rbt.i[suc] <= k
    <3>1. rbt.i[suc] \in K /\ \A k \in K : k = rbt.i[suc] \/ rbt.i[suc] < k
      BY <2>2, <2>8 DEF Before
    <3>2. PICK i \in Nat : i = rbt.i[suc]
      BY <2>7, <3>1
    <3>3. \A k \in K : k \in Nat /\ (k = i \/ i < k)
      BY <2>7, <3>1, <3>2
    <3>4. \A k \in K : i <= k
      BY <3>3
    <3> QED
      BY <3>1, <3>2, <3>4
  <2>9. IF larger = {} THEN suc = NIL_NODE
        ELSE rbt.i[suc] \in larger /\ \A k \in larger : rbt.i[suc] <= k
    BY <2>2, <2>5, <2>8
  <2> QED
    BY <2>9 DEF suc, larger
<1>4. ASSUME NEW n \in InTree(rbt)
      PROVE  LET smaller == {k \in keys : k < rbt.i[n]}
                 pre == NextOf(rbt, n, "l")
             IN IF smaller = {} THEN pre = NIL_NODE
                ELSE rbt.i[pre] \in smaller /\ \A k \in smaller : rbt.i[pre] >= k
  <2> DEFINE K == {k \in keys : Before("r", rbt.i[n], k)}
             smaller == {k \in keys : k < rbt.i[n]}
             pre == NextOf(rbt, n, "l")
  <2>1. "l" \in Sides /\ Other("l") = "r"
    BY DEF Sides, Other
  <2>2. IF K = {} THEN pre = NIL_NODE
        ELSE rbt.i[pre] \in K /\ \A k \in K : k = rbt.i[pre] \/ Before("r", rbt.i[pre], k)
    <3> HIDE DEF pre
    <3>1. pre = NextOf(rbt, n, "l")
      BY DEF pre
    <3> QED
      BY <1>1, <2>1, <3>1
  <2>3. rbt.i[n] \in Nat
    BY KeyTypes DEF Search
  <2>4. \A k \in keys : k < rbt.i[n] <=> Before("r", rbt.i[n], k)
    BY <1>2, <2>3 DEF Before
  <2>5. smaller = K
    BY <2>4
  <2> HIDE DEF pre
  <2>7. K \subseteq Nat
    BY <1>2
  <2> HIDE DEF K, smaller
  <2>8. ASSUME K # {}
        PROVE  rbt.i[pre] \in K /\ \A k \in K : rbt.i[pre] >= k
    <3>1. rbt.i[pre] \in K /\ \A k \in K : k = rbt.i[pre] \/ k < rbt.i[pre]
      BY <2>2, <2>8 DEF Before
    <3>2. PICK i \in Nat : i = rbt.i[pre]
      BY <2>7, <3>1
    <3>3. \A k \in K : k \in Nat /\ (k = i \/ k < i)
      BY <2>7, <3>1, <3>2
    <3>4. \A k \in K : i >= k
      BY <3>3
    <3> QED
      BY <3>1, <3>2, <3>4
  <2>9. IF smaller = {} THEN pre = NIL_NODE
        ELSE rbt.i[pre] \in smaller /\ \A k \in smaller : rbt.i[pre] >= k
    BY <2>2, <2>5, <2>8
  <2> QED
    BY <2>9 DEF pre, smaller
<1> QED
  BY <1>3, <1>4 DEF NeighboursFound
-----------------------------------------------------------------------------
(* A way down from root that passes as many nodes as h counts black ones there. *)
LEMMA LongWay ==
  ASSUME NEW t, NEW g, Search(t, g), NEW h, NEW q, NEW e, Counted(t, h, q, e), NEW n \in InTree(t)
  PROVE  \E m \in g[n] : h[n] + Cardinality(AboveIn(t, g, n)) <= Cardinality(AboveIn(t, g, m)) + 1
<1> DEFINE A(m) == Cardinality(AboveIn(t, g, m))
           Holds(a) == \E m \in g[a] : h[a] + A(a) <= A(m) + 1
           S == {a \in InTree(t) : ~Holds(a)}
<1>1. \A m \in InTree(t) : m \in Pointers /\ h[m] \in Nat /\ A(m) \in Nat
  BY KeyTypes, AboveCount, SizeNat DEF Search, Counted
<1>2. ASSUME S # {}
      PROVE  FALSE
  <2>1. S \subseteq InTree(t)
    OBVIOUS
  <2>2. PICK a \in S : \A b \in S : g[b] \subseteq g[a] => g[b] = g[a]
    <3> HIDE DEF S
    <3> QED
      BY <1>2, <2>1, Lowest
  <2>3. a \in InTree(t) /\ ~Holds(a) /\ a \in g[a]
    BY <2>2, BelowTypes
  <2>4. PICK s \in Sides : Missing(a, s, q, e) = 0
    <3>1. "l" \in Sides /\ "r" \in Sides
      BY DEF Sides
    <3> QED
      BY <3>1 DEF Missing
  <2> DEFINE c == t[s][a]
  <2>5. h[a] = h[c] + Black(t, a)
    <3>1. CountedAt(t, h, q, e, a, s)
      BY <2>3 DEF Counted
    <3>2. c \in Pointers /\ h[c] \in Nat
      BY <2>3, ChildTypes DEF Counted
    <3> HIDE DEF c
    <3>3. h[a] = h[c] + Black(t, a) + 0
      BY <2>4, <3>1 DEF CountedAt, c
    <3> QED
      BY <3>2, <3>3 DEF Black
  <2>6. CASE c = NIL_NODE
    <3>1. h[a] <= 1
      BY <2>5, <2>6 DEF Counted, Black
    <3>2. h[a] + A(a) <= A(a) + 1
      <4> HIDE DEF A
      <4> QED
        BY <1>1, <2>3, <3>1
    <3> QED
      BY <2>3, <3>2
  <2>7. CASE c # NIL_NODE
    <3>1. c \in InTree(t) /\ t.p[c] = a /\ g[c] \subseteq g[a] /\ a \notin g[c]
      BY <2>3, <2>7, ChildTypes
    <3>2. Holds(c)
      <4>1. c \notin S
        BY <2>2, <2>3, <3>1
      <4> QED
        BY <3>1, <4>1
    <3>3. PICK m \in g[c] : h[c] + A(c) <= A(m) + 1
      BY <3>2
    <3>4. A(c) = A(a) + 1
      <4>1. c # t.root
        <5>1. t.p[c] # NIL_NODE
          BY <2>3, <3>1, KeyTypes DEF Search
        <5> QED
          BY <3>1, <5>1, RootTypes
      <4> QED
        BY <3>1, <4>1, AboveCount
    <3>5. m \in InTree(t) /\ m \in g[a]
      BY <3>1, <3>3, Nested
    <3> HIDE DEF A, c
    <3>6. h[a] <= h[c] + 1
      BY <1>1, <2>5, <3>1 DEF Black
    <3>7. h[a] + A(a) <= A(m) + 1
      BY <1>1, <2>3, <3>1, <3>3, <3>4, <3>5, <3>6
    <3> QED
      BY <2>3, <3>5, <3>7
  <2> QED
    BY <2>6, <2>7
<1> QED
  BY <1>2

(* So many turns are not too many. *)
Bounded(t, g, k) == k <= 2 \/ \E m \in InTree(t) : k <= Cardinality(AboveIn(t, g, m)) + 2

LEMMA CountBounds ==
  ASSUME NEW t, NEW g, Search(t, g), NEW h, NEW q, NEW e, Counted(t, h, q, e), NEW a,
         a \in InTree(t) \/ a = NIL_NODE, NEW k \in Nat, k <= h[a] + 2
  PROVE  Bounded(t, g, k)
<1>1. a \in Pointers
  BY KeyTypes DEF Search, Pointers
<1>2. h[a] \in Nat /\ h[t.root] \in Nat /\ h[a] <= h[t.root]
  BY <1>1, RootHighest
<1>3. CASE t.root = NIL_NODE
  BY <1>2, <1>3 DEF Counted, Bounded
<1>4. CASE t.root # NIL_NODE
  <2>1. t.root \in InTree(t) /\ g[t.root] = InTree(t)
    BY <1>4, RootTypes DEF Search, Below
  <2>2. Cardinality(AboveIn(t, g, t.root)) = 1
    BY <2>1, AboveCount
  <2>3. PICK m \in InTree(t) : h[t.root] + 1 <= Cardinality(AboveIn(t, g, m)) + 1
    BY <2>1, <2>2, LongWay
  <2>4. Cardinality(AboveIn(t, g, m)) \in Nat
    BY AboveCount, SizeNat
  <2>5. k <= Cardinality(AboveIn(t, g, m)) + 2
    BY <1>2, <2>3, <2>4
  <2> QED
    BY <2>5 DEF Bounded
<1> QED
  BY <1>3, <1>4

(* Levels is the number of nodes on the longest way down. *)
LEMMA LevelsIs ==
  ASSUME NEW g, Search(rbt, g)
  PROVE  Levels \in Nat /\ \A n \in InTree(rbt) : Cardinality(AboveIn(rbt, g, n)) <= Levels
<1> DEFINE A(n) == Cardinality(Ancestors(n))
           C == {Size - A(n) : n \in InTree(rbt)}
           IsLevels(h) == /\ \A n \in InTree(rbt) : A(n) <= h
                          /\ h = 0 \/ \E n \in InTree(rbt) : A(n) = h
<1>1. \A n \in InTree(rbt) : A(n) \in 1..Size /\ A(n) = Cardinality(AboveIn(rbt, g, n))
  BY AncestorsAre, AboveCount
<1>2. \E h \in 0..Size : IsLevels(h)
  <2>1. CASE InTree(rbt) = {}
    BY <2>1, SizeNat
  <2>2. CASE InTree(rbt) # {}
    <3> HIDE DEF A
    <3>1. C \subseteq Nat /\ C # {}
      BY <1>1, <2>2, SizeNat
    <3>2. PICK x \in C : \A y \in C : x <= y
      <4> HIDE DEF C
      <4> QED
        BY <3>1, LeastNat
    <3>3. PICK n \in InTree(rbt) : x = Size - A(n)
      BY <3>2
    <3>4. ASSUME NEW m \in InTree(rbt)
          PROVE  A(m) <= A(n)
      <4>1. Size - A(n) <= Size - A(m)
        BY <3>2, <3>3
      <4> QED
        BY <1>1, <4>1, SizeNat
    <3>5. A(n) \in 0..Size
      BY <1>1, SizeNat
    <3> QED
      BY <3>4, <3>5
  <2> QED
    BY <2>1, <2>2
<1>3. Levels = CHOOSE h \in 0..Size : IsLevels(h)
  BY DEF Levels, Size
<1> HIDE DEF IsLevels
<1>4. Levels \in 0..Size /\ IsLevels(Levels)
  BY <1>2, <1>3
<1> QED
  BY <1>1, <1>4, SizeNat DEF IsLevels

LEMMA EndShown ==
  ASSUME NEW g, Search(rbt, g), turns \in Nat, Bounded(rbt, g, turns)
  PROVE  FixupsEnd
<1>1. Levels \in Nat /\ \A n \in InTree(rbt) : Cardinality(AboveIn(rbt, g, n)) <= Levels
  BY LevelsIs
<1>2. \A n \in InTree(rbt) : Cardinality(AboveIn(rbt, g, n)) \in Nat
  BY AboveCount, SizeNat
<1>3. turns <= Levels + 2
  BY <1>1, <1>2 DEF Bounded
<1> QED
  BY <1>3 DEF FixupsEnd
-----------------------------------------------------------------------------
(* How many turns a fixup may have made: as many as there are black nodes on the
   way down from the node it has come to, and two more on the way out of it. *)
InsertPhase(t, a, h, k) ==
    \/ k <= h[a]
    \/ k <= h[a] + 1 /\ OuterNext(t, a)
    \/ k <= h[a] + 2 /\ t.c[t.p[a]] = "black"

DeletePhase(t, a, h, k) ==
    \/ k + Black(t, a) <= h[a] + 1
    \/ k <= h[a] + 1 /\ t.c[a] = "black" /\ RedParent(t, a)
    \/ k <= h[a] + 2 /\ RedOuter(t, a)
    \/ k <= h[a] + 2 /\ (a = t.root \/ t.c[a] = "red")

InsertAt(t, a, k) == \E h : Inserting(t, a, h) /\ InsertPhase(t, a, h, k)
DeleteAt(t, a, k) == \E h, q, e : Deleting(t, a, h, q, e) /\ DeletePhase(t, a, h, k)

(* What a turn keeps. *)
Kept(t, u) == (\E g : Search(u, g)) /\ KeysOf(u) = KeysOf(t)

LEMMA KeysKept ==
  ASSUME NEW t, NEW v, NEW u, NEW g, Search(u, g), InTree(u) = InTree(t), v.i = t.i, u.i = v.i
  PROVE  Kept(t, u)
BY DEF Kept, KeysOf

LEMMA InsertPhases ==
  ASSUME NEW t, NEW a, NEW b, NEW d, NEW s, NEW y, InsertTurnAt(t, a, b, d, s, y)
  PROVE  /\ t.c[t.p[a]] = "red"
         /\ OuterNext(t, a) => t.c[y] = "black" /\ a # t[Other(s)][b]
BY DEF InsertTurnAt, OuterNext

LEMMA DeletePhases ==
  ASSUME NEW t, NEW a, NEW q, NEW s, NEW w, DeleteTurnAt(t, a, q, s, w)
  PROVE  /\ t.c[a] = "black" /\ a # t.root
         /\ RedOuter(t, a) => t.c[t[Other(s)][w]] = "red"
BY DEF DeleteTurnAt, RedOuter

LEMMA RecolourTurn ==
  ASSUME NEW t, NEW g, Search(t, g), NEW a, NEW h, Inserting(t, a, h), NEW n \in Nat,
         InsertPhase(t, a, h, n), NEW b, NEW d, NEW s, NEW y, InsertTurnAt(t, a, b, d, s, y),
         t.c[y] = "red", NEW u, Recoloured(t, u, y, b, d)
  PROVE  Kept(t, u) /\ InsertAt(u, d, n + 1)
<1>1. Search(u, g) /\ InTree(u) = InTree(t) /\ \E k : Inserting(u, d, k) /\ k[d] = h[a] + 1
  BY RecolourKeeps
<1>2. PICK k : Inserting(u, d, k) /\ k[d] = h[a] + 1
  BY <1>1
<1>3. n <= h[a]
  <2>1. ~OuterNext(t, a)
    BY InsertPhases
  <2>2. t.c[t.p[a]] # "black"
    BY InsertPhases
  <2> QED
    BY <2>1, <2>2 DEF InsertPhase
<1>4. h[a] \in Nat
  BY KeyTypes DEF Inserting, Counted, Search
<1>5. n + 1 <= k[d]
  BY <1>2, <1>3, <1>4
<1>6. InsertAt(u, d, n + 1)
  BY <1>2, <1>5 DEF InsertAt, InsertPhase
<1>7. u.i = t.i
  BY DEF Recoloured, SameTree
<1> QED
  BY <1>1, <1>6, <1>7, KeysKept

LEMMA InnerTurn ==
  ASSUME NEW t, NEW g, Search(t, g), NEW a, NEW h, Inserting(t, a, h), NEW n \in Nat,
         InsertPhase(t, a, h, n), NEW b, NEW d, NEW s, NEW y, InsertTurnAt(t, a, b, d, s, y),
         t.c[y] = "black", a = t[Other(s)][b], NEW u, Turned(t, u, b, a, s)
  PROVE  Kept(t, u) /\ InsertAt(u, b, n + 1)
<1>1. /\ Search(u, RotateBelow(t, g, b, a, s)) /\ InTree(u) = InTree(t)
      /\ \E k : Inserting(u, b, k) /\ k[b] = h[a]
      /\ OuterNext(u, b)
  BY InnerKeeps
<1>2. PICK k : Inserting(u, b, k) /\ k[b] = h[a]
  BY <1>1
<1>3. n <= h[a]
  <2>1. ~OuterNext(t, a)
    BY InsertPhases
  <2>2. t.c[t.p[a]] # "black"
    BY InsertPhases
  <2> QED
    BY <2>1, <2>2 DEF InsertPhase
<1>4. h[a] \in Nat
  BY KeyTypes DEF Inserting, Counted, Search
<1>5. n + 1 <= k[b] + 1
  BY <1>2, <1>3, <1>4
<1>6. InsertAt(u, b, n + 1)
  BY <1>1, <1>2, <1>5 DEF InsertAt, InsertPhase
<1>7. u.i = t.i
  BY DEF Turned
<1> QED
  BY <1>1, <1>6, <1>7, KeysKept

LEMMA OuterTurn ==
  ASSUME NEW t, NEW g, Search(t, g), NEW a, NEW h, Inserting(t, a, h), NEW n \in Nat,
         InsertPhase(t, a, h, n), NEW b, NEW d, NEW s, NEW y, InsertTurnAt(t, a, b, d, s, y),
         t.c[y] = "black", a # t[Other(s)][b], NEW v, Recoloured(t, v, b, b, d),
         NEW u, Turned(v, u, d, b, Other(s))
  PROVE  Kept(t, u) /\ InsertAt(u, a, n + 1)
<1>1. /\ Search(u, RotateBelow(v, g, d, b, Other(s))) /\ InTree(u) = InTree(t)
      /\ \E k : Inserting(u, a, k) /\ k[a] = h[a]
      /\ u.c[u.p[a]] = "black"
  BY OuterKeeps
<1>2. PICK k : Inserting(u, a, k) /\ k[a] = h[a]
  BY <1>1
<1>3. h[a] \in Nat
  BY KeyTypes DEF Inserting, Counted, Search
<1>4. n <= h[a] + 1
  BY <1>3 DEF InsertPhase, InsertTurnAt
<1>5. n + 1 <= k[a] + 2
  BY <1>2, <1>3, <1>4
<1>6. InsertAt(u, a, n + 1)
  BY <1>1, <1>2, <1>5 DEF InsertAt, InsertPhase
<1>7. u.i = v.i /\ v.i = t.i
  BY DEF Turned, Recoloured, SameTree
<1> QED
  BY <1>1, <1>6, <1>7, KeysKept
-----------------------------------------------------------------------------
LEMMA BlackFamilyTurn ==
  ASSUME NEW t, NEW g, Search(t, g), NEW a, NEW h, NEW q0, NEW e, Deleting(t, a, h, q0, e),
         NEW n \in Nat, DeletePhase(t, a, h, n),
         NEW q, NEW s, NEW w, DeleteTurnAt(t, a, q, s, w),
         t.c[w] = "black", \A f \in Sides : t.c[t[f][w]] = "black"
  PROVE  Kept(t, Redden(t, w)) /\ DeleteAt(Redden(t, w), q, n + 1)
<1> DEFINE u == Redden(t, w)
<1>1. /\ Search(u, g) /\ InTree(u) = InTree(t)
      /\ \E k, d, f : Deleting(u, q, k, d, f) /\ k[q] = h[a] + Black(t, q)
      /\ u.c[q] = t.c[q]
  BY BlackFamilyKeeps
<1>2. u.i = t.i
  BY DEF Redden
<1> HIDE DEF u
<1>3. PICK k, d, f : Deleting(u, q, k, d, f) /\ k[q] = h[a] + Black(t, q)
  BY <1>1
<1>4. h[a] \in Nat /\ s \in Sides
  BY DeleteCounts, DeleteNodes
<1>5. ~RedOuter(t, a)
  <2>1. Other(s) \in Sides
    BY <1>4, SideIsField
  <2> QED
    BY <2>1 DEF RedOuter, DeleteTurnAt
<1>6. n <= h[a] \/ (n <= h[a] + 1 /\ t.c[q] = "red")
  BY <1>4, <1>5 DEF DeletePhase, DeleteTurnAt, Black, RedParent
<1>7. Black(t, q) \in {0, 1} /\ Black(u, q) = Black(t, q)
  BY <1>1 DEF Black
<1>8. CASE n <= h[a]
  <2>1. (n + 1) + Black(u, q) <= k[q] + 1
    BY <1>3, <1>4, <1>7, <1>8
  <2> QED
    BY <1>1, <1>2, <1>3, <2>1, KeysKept DEF DeleteAt, DeletePhase, u
<1>9. CASE n <= h[a] + 1 /\ t.c[q] = "red"
  <2>1. n + 1 <= k[q] + 2 /\ u.c[q] = "red"
    BY <1>1, <1>3, <1>4, <1>7, <1>9
  <2> QED
    BY <1>1, <1>2, <1>3, <2>1, KeysKept DEF DeleteAt, DeletePhase, u
<1> QED
  BY <1>6, <1>8, <1>9

LEMMA RedBrotherTurn ==
  ASSUME NEW t, NEW g, Search(t, g), NEW a, NEW h, NEW q0, NEW e, Deleting(t, a, h, q0, e),
         NEW n \in Nat, DeletePhase(t, a, h, n),
         NEW q, NEW s, NEW w, DeleteTurnAt(t, a, q, s, w),
         t.c[w] = "red", NEW v, Recoloured(t, v, w, w, q), NEW u, Turned(v, u, q, w, s)
  PROVE  Kept(t, u) /\ DeleteAt(u, a, n + 1)
<1>1. /\ Search(u, RotateBelow(v, g, q, w, s)) /\ InTree(u) = InTree(t)
      /\ \E k : Deleting(u, a, k, q, s) /\ k[a] = h[a]
      /\ RedParent(u, a) /\ u.c[a] = t.c[a]
  BY RedBrotherKeeps
<1>2. u.i = v.i /\ v.i = t.i
  BY DEF Turned, Recoloured, SameTree
<1>3. PICK k : Deleting(u, a, k, q, s) /\ k[a] = h[a]
  BY <1>1
<1>4. h[a] \in Nat
  BY DeleteCounts
<1>5. n <= h[a] /\ t.c[a] = "black"
  BY <1>4 DEF DeletePhase, DeleteTurnAt, Black, RedParent, RedOuter
<1>6. n + 1 <= k[a] + 1
  BY <1>3, <1>4, <1>5
<1>7. DeleteAt(u, a, n + 1)
  BY <1>1, <1>3, <1>5, <1>6 DEF DeleteAt, DeletePhase
<1> QED
  BY <1>1, <1>2, <1>7, KeysKept

LEMMA InnerRedTurn ==
  ASSUME NEW t, NEW g, Search(t, g), NEW a, NEW h, NEW q0, NEW e, Deleting(t, a, h, q0, e),
         NEW n \in Nat, DeletePhase(t, a, h, n),
         NEW q, NEW s, NEW w, DeleteTurnAt(t, a, q, s, w),
         t.c[w] = "black", NEW i, i = t[s][w], t.c[i] = "red", t.c[t[Other(s)][w]] = "black",
         NEW v, Recoloured(t, v, i, i, w), NEW u, Turned(v, u, w, i, Other(s))
  PROVE  Kept(t, u) /\ DeleteAt(u, a, n + 1)
<1>1. /\ Search(u, RotateBelow(v, g, w, i, Other(s))) /\ InTree(u) = InTree(t)
      /\ \E k : Deleting(u, a, k, q, s) /\ k[a] = h[a]
      /\ RedOuter(u, a) /\ u.c[a] = t.c[a]
  BY InnerRedKeeps
<1>2. u.i = v.i /\ v.i = t.i
  BY DEF Turned, Recoloured, SameTree
<1>3. PICK k : Deleting(u, a, k, q, s) /\ k[a] = h[a]
  BY <1>1
<1>4. h[a] \in Nat
  BY DeleteCounts
<1>5. n <= h[a] + 1
  <2>1. ~RedOuter(t, a)
    BY DeletePhases
  <2>2. t.c[a] = "black" /\ a # t.root
    BY DeletePhases
  <2> QED
    BY <1>4, <2>1, <2>2 DEF DeletePhase, Black
<1>6. n + 1 <= k[a] + 2
  BY <1>3, <1>4, <1>5
<1>7. DeleteAt(u, a, n + 1)
  BY <1>1, <1>3, <1>6 DEF DeleteAt, DeletePhase
<1> QED
  BY <1>1, <1>2, <1>7, KeysKept

LEMMA OuterRedTurn ==
  ASSUME NEW t, NEW g, Search(t, g), NEW a, NEW h, NEW q0, NEW e, Deleting(t, a, h, q0, e),
         NEW n \in Nat, DeletePhase(t, a, h, n),
         NEW q, NEW s, NEW w, DeleteTurnAt(t, a, q, s, w),
         t.c[w] = "black", NEW i, i = t[Other(s)][w], t.c[i] = "red",
         NEW v, Repainted(t, v, q, w, i), NEW u, Turned(v, u, q, w, s)
  PROVE  Kept(t, u) /\ DeleteAt(u, u.root, n + 1)
<1>1. /\ Search(u, RotateBelow(v, g, q, w, s)) /\ InTree(u) = InTree(t)
      /\ \E k : /\ Deleting(u, u.root, k, NIL_NODE, "l")
                /\ k[u.root] \in Nat /\ h[a] + 1 <= k[u.root]
  BY OuterRedKeeps
<1>2. u.i = v.i /\ v.i = t.i
  BY DEF Turned, Repainted, SameTree
<1>3. PICK k : /\ Deleting(u, u.root, k, NIL_NODE, "l")
               /\ k[u.root] \in Nat /\ h[a] + 1 <= k[u.root]
  BY <1>1
<1>4. h[a] \in Nat
  BY DeleteCounts
<1>5. n <= h[a] + 2
  BY <1>4 DEF DeletePhase, DeleteTurnAt, Black
<1>6. n + 1 <= k[u.root] + 2
  BY <1>3, <1>4, <1>5
<1>7. DeleteAt(u, u.root, n + 1)
  BY <1>3, <1>6 DEF DeleteAt, DeletePhase
<1> QED
  BY <1>1, <1>2, <1>7, KeysKept
-----------------------------------------------------------------------------
(* The code of a turn does what the lemmas say of it. *)
LEMMA RotateAfter ==
  ASSUME NEW t, NEW g, Search(t, g), NEW v, Shaped(v), SameTree(t, v), NEW x \in InTree(t),
         NEW s \in Sides, NEW y, y = t[Other(s)][x], y # NIL_NODE, NEW u, u = Rotate(v, x, s)
  PROVE  Turned(v, u, x, y, s)
<1>1. Search(v, g) /\ InTree(v) = InTree(t)
  BY SameSearch
<1>2. Other(s) \in Sides /\ \A f \in Sides : v[f] = t[f]
  BY SideIsField DEF SameTree
<1>3. y = v[Other(s)][x]
  BY <1>2
<1> QED
  BY <1>1, <1>3, RotateIs

LEMMA RecolourCode ==
  ASSUME NEW t, NEW g, Search(t, g), NEW a, NEW h, Inserting(t, a, h), NEW n \in Nat,
         InsertPhase(t, a, h, n), NEW b, NEW d, NEW s, NEW y, InsertTurnAt(t, a, b, d, s, y),
         t.c[y] = "red", NEW u, u = Redden(Blacken(Blacken(t, y), b), d)
  PROVE  Kept(t, u) /\ InsertAt(u, d, n + 1)
<1>1. y \in Pointers /\ b \in Pointers /\ d \in Nodes /\ d # b /\ d # y /\ Shaped(t)
  BY InsertNodes, KeyTypes DEF Search
<1>2. Recoloured(t, u, y, b, d)
  BY <1>1, RecolourIs
<1> QED
  BY <1>2, RecolourTurn

LEMMA InnerCode ==
  ASSUME NEW t, NEW g, Search(t, g), NEW a, NEW h, Inserting(t, a, h), NEW n \in Nat,
         InsertPhase(t, a, h, n), NEW b, NEW d, NEW s, NEW y, InsertTurnAt(t, a, b, d, s, y),
         t.c[y] = "black", a = t[Other(s)][b], NEW u, u = Rotate(t, b, s)
  PROVE  Kept(t, u) /\ InsertAt(u, b, n + 1)
<1>1. b \in InTree(t) /\ s \in Sides /\ a # NIL_NODE
  BY InsertNodes
<1>2. Turned(t, u, b, a, s)
  BY <1>1, RotateIs
<1> QED
  BY <1>2, InnerTurn

LEMMA OuterCode ==
  ASSUME NEW t, NEW g, Search(t, g), NEW a, NEW h, Inserting(t, a, h), NEW n \in Nat,
         InsertPhase(t, a, h, n), NEW b, NEW d, NEW s, NEW y, InsertTurnAt(t, a, b, d, s, y),
         t.c[y] = "black", a # t[Other(s)][b],
         NEW u, u = Rotate(Redden(Blacken(t, b), d), d, Other(s))
  PROVE  Kept(t, u) /\ InsertAt(u, a, n + 1)
<1>1. /\ b \in Pointers /\ d \in InTree(t) /\ d \in Nodes /\ d # b /\ Shaped(t) /\ s \in Sides
      /\ t[s][d] = b /\ b # NIL_NODE
  BY InsertNodes, KeyTypes DEF Search
<1>2. Other(s) \in Sides /\ Other(Other(s)) = s
  BY <1>1, SideTypes
<1>3. PICK v : v = Redden(Blacken(t, b), d)
  OBVIOUS
<1>4. Recoloured(t, v, b, b, d)
  BY <1>1, <1>3, RecolourTwo
<1>5. Shaped(v) /\ SameTree(t, v)
  BY <1>4 DEF Recoloured
<1>6. Turned(v, u, d, b, Other(s))
  BY <1>1, <1>2, <1>3, <1>5, RotateAfter
<1> QED
  BY <1>4, <1>6, OuterTurn

LEMMA RedBrotherCode ==
  ASSUME NEW t, NEW g, Search(t, g), NEW a, NEW h, NEW q0, NEW e, Deleting(t, a, h, q0, e),
         NEW n \in Nat, DeletePhase(t, a, h, n),
         NEW q, NEW s, NEW w, DeleteTurnAt(t, a, q, s, w),
         t.c[w] = "red", NEW u, u = Rotate(Redden(Blacken(t, w), q), q, s)
  PROVE  Kept(t, u) /\ DeleteAt(u, a, n + 1)
<1>1. /\ q \in InTree(t) /\ q \in Nodes /\ w \in Pointers /\ w # NIL_NODE /\ w # q /\ Shaped(t)
      /\ s \in Sides /\ t[Other(s)][q] = w
  BY DeleteNodes, KeyTypes DEF Search
<1>2. PICK v : v = Redden(Blacken(t, w), q)
  OBVIOUS
<1>3. Recoloured(t, v, w, w, q)
  BY <1>1, <1>2, RecolourTwo
<1>4. Shaped(v) /\ SameTree(t, v)
  BY <1>3 DEF Recoloured
<1>5. Turned(v, u, q, w, s)
  BY <1>1, <1>2, <1>4, RotateAfter
<1> QED
  BY <1>3, <1>5, RedBrotherTurn

LEMMA InnerRedCode ==
  ASSUME NEW t, NEW g, Search(t, g), NEW a, NEW h, NEW q0, NEW e, Deleting(t, a, h, q0, e),
         NEW n \in Nat, DeletePhase(t, a, h, n),
         NEW q, NEW s, NEW w, DeleteTurnAt(t, a, q, s, w),
         t.c[w] = "black", NEW i, i = t[s][w], t.c[i] = "red", t.c[t[Other(s)][w]] = "black",
         NEW u, u = Rotate(Redden(Blacken(t, i), w), w, Other(s))
  PROVE  Kept(t, u) /\ DeleteAt(u, a, n + 1)
<1>1. w \in InTree(t) /\ w \in Nodes /\ Shaped(t) /\ s \in Sides
  BY DeleteNodes, KeyTypes DEF Search
<1>2. Other(s) \in Sides /\ Other(Other(s)) = s
  BY <1>1, SideTypes
<1>3. i \in Pointers /\ i # NIL_NODE /\ i # w
  BY <1>1, ChildTypes, Colours
<1>4. PICK v : v = Redden(Blacken(t, i), w)
  OBVIOUS
<1>5. Recoloured(t, v, i, i, w)
  BY <1>1, <1>3, <1>4, RecolourTwo
<1>6. Shaped(v) /\ SameTree(t, v)
  BY <1>5 DEF Recoloured
<1>7. Turned(v, u, w, i, Other(s))
  BY <1>1, <1>2, <1>3, <1>4, <1>6, RotateAfter
<1> QED
  BY <1>5, <1>7, InnerRedTurn

LEMMA OuterRedCode ==
  ASSUME NEW g, Search(rbt, g), NEW h, NEW q0, NEW e, Deleting(rbt, at, h, q0, e),
         NEW n \in Nat, DeletePhase(rbt, at, h, n),
         NEW q, NEW s, NEW w, DeleteTurnAt(rbt, at, q, s, w),
         rbt.c[w] = "black", rbt.c[rbt[Other(s)][w]] = "red",
         NEW u, u = Rotate(Painted(s, w), above, s)
  PROVE  Kept(rbt, u) /\ DeleteAt(u, u.root, n + 1)
<1>1. PICK t, a : t = rbt /\ a = at
  OBVIOUS
<1>2. PICK i : i = t[Other(s)][w]
  OBVIOUS
<1>3. Search(t, g) /\ Deleting(t, a, h, q0, e) /\ DeletePhase(t, a, h, n) /\ DeleteTurnAt(t, a, q, s, w)
  BY <1>1
<1>4. t.c[w] = "black" /\ t.c[i] = "red" /\ q = above
  BY <1>1, <1>2 DEF above, DeleteTurnAt
<1>5. /\ q \in InTree(t) /\ q \in Nodes /\ w \in InTree(t) /\ w \in Nodes /\ w # NIL_NODE /\ w # q
      /\ t.p[w] = q /\ w # t.root
      /\ Shaped(t) /\ s \in Sides /\ t[Other(s)][q] = w
  BY <1>3, DeleteNodes, KeyTypes DEF Search
<1>6. Other(s) \in Sides
  BY <1>5, SideTypes
<1>7. i \in Pointers /\ i # NIL_NODE /\ i # w /\ i # q
  <2>1. i \in Pointers /\ i # NIL_NODE
    BY <1>2, <1>3, <1>4, <1>5, <1>6, ChildTypes, Colours
  <2>2. i # w /\ i \in g[w]
    BY <1>2, <1>3, <1>5, <1>6, <2>1, ChildTypes, BelowTypes
  <2>3. q \notin g[w]
    BY <1>3, <1>5, ParentOf
  <2> QED
    BY <2>1, <2>2, <2>3
<1>8. PICK v : v = Painted(s, w)
  OBVIOUS
<1>9. Repainted(t, v, q, w, i)
  BY <1>1, <1>2, <1>4, <1>5, <1>7, <1>8, PaintedIs
<1>10. Shaped(v) /\ SameTree(t, v)
  BY <1>9 DEF Repainted
<1>11. u = Rotate(v, q, s)
  BY <1>4, <1>8
<1>12. Turned(v, u, q, w, s)
  BY <1>3, <1>5, <1>10, <1>11, RotateAfter
<1>13. Kept(t, u) /\ DeleteAt(u, u.root, n + 1)
  BY <1>2, <1>3, <1>4, <1>9, <1>12, OuterRedTurn
<1> QED
  BY <1>1, <1>13
-----------------------------------------------------------------------------
(* The invariant. *)
Sound(t, a, st, ks, k) ==
    /\ a \in Pointers /\ k \in Nat /\ ks = KeysOf(t) /\ st \in {"idle", "insert", "delete"}
    /\ \E g : Search(t, g) /\ (st = "idle" => (\E h : Balanced(t, h)) /\ Bounded(t, g, k))
    /\ st = "insert" => InsertAt(t, a, k)
    /\ st = "delete" => DeleteAt(t, a, k)

IInv == Sound(rbt, at, step, keys, turns)

LEMMA InitSound ==
  ASSUME Init
  PROVE  IInv
<1> DEFINE g == [n \in Pointers |-> {}]
           h == [n \in Pointers |-> 0]
<1>1. PICK t : t = rbt
  OBVIOUS
<1>2. /\ t = [i |-> [n \in Nodes |-> NoKey], c |-> [n \in Pointers |-> "black"],
              l |-> [n \in Pointers |-> NIL_NODE], r |-> [n \in Pointers |-> NIL_NODE],
              p |-> [n \in Pointers |-> NIL_NODE], root |-> NIL_NODE]
      /\ NIL_NODE \in Pointers
  BY <1>1 DEF Init, Pointers
<1>3. Shaped(t)
  BY <1>2 DEF Shaped
<1>4. InTree(t) = {}
  BY <1>2 DEF InTree
<1>5. Linked(t)
  <2>1. \A n \in Pointers, s \in Sides : t[s][n] = NIL_NODE
    BY <1>2 DEF Sides
  <2> QED
    BY <1>2, <1>4, <2>1 DEF Linked
<1>6. Search(t, g)
  BY <1>2, <1>3, <1>4, <1>5 DEF Search, Below, Distinct
<1>7. Balanced(t, h)
  BY <1>2, <1>4 DEF Balanced, Counted, RedsApart
<1>8. Bounded(t, g, 0)
  BY DEF Bounded
<1>9. KeysOf(t) = {}
  BY <1>4 DEF KeysOf
<1> HIDE DEF g, h
<1>10. Sound(t, NIL_NODE, "idle", {}, 0)
  BY <1>2, <1>6, <1>7, <1>8, <1>9 DEF Sound
<1>11. at = NIL_NODE /\ step = "idle" /\ keys = {} /\ turns = 0
  BY DEF Init
<1> QED
  BY <1>1, <1>10, <1>11 DEF IInv

LEMMA InsertSound ==
  ASSUME IInv, NEW key \in Keys, NEW z \in Nodes \ InTree(rbt), rb_insert(z, key)
  PROVE  IInv'
<1>1. PICK t, u, e : t = rbt /\ u = rbt' /\ e = get_node_by_key(rbt, key)
  OBVIOUS
<1>2. PICK g : Search(t, g) /\ \E h : Balanced(t, h)
  BY <1>1 DEF IInv, Sound, rb_insert
<1>3. PICK h : Balanced(t, h)
  BY <1>2
<1>4. key \in Nat
  BY NilApart
<1>5. NewLeaf(t, g, key, e, z)
  <2>1. Located(t, g, key, e)
    BY <1>1, <1>2, <1>4, GetNode
  <2> QED
    BY <1>1, <2>1 DEF NewLeaf, rb_insert
<1>6. e \in Pointers /\ z \in Pointers /\ Shaped(t)
  BY <1>2, <1>5, LeafNodes DEF Search
<1>7. Hung(t, u, e, z, key)
  <2>1. u = LinkUnder(e, z, key)
    BY <1>1 DEF rb_insert
  <2> QED
    BY <1>1, <1>6, <2>1, LinkIs
<1>8. Search(u, HungBelow(g, e, z)) /\ InTree(u) = InTree(t) \union {z}
  BY <1>2, <1>5, <1>7, HungSearch
<1>9. PICK k : Inserting(u, z, k)
  BY <1>2, <1>3, <1>5, <1>7, HungInserting
<1>10. InsertAt(u, z, 0)
  <2>1. 0 <= k[z]
    BY <1>6, <1>9 DEF Inserting, Counted
  <2> QED
    BY <1>9, <2>1 DEF InsertAt, InsertPhase
<1>11. KeysOf(u) = KeysOf(t) \union {key}
  <2>1. z \notin InTree(t) /\ \A n \in InTree(t) : n \in Nodes
    BY <1>1, <1>2, KeyTypes DEF Search
  <2>2. u.i[z] = key /\ \A n \in InTree(t) : u.i[n] = t.i[n]
    BY <1>7, <2>1 DEF Hung
  <2> QED
    BY <1>8, <2>2 DEF KeysOf
<1>12. keys = KeysOf(t)
  BY <1>1 DEF IInv, Sound
<1>13. Sound(u, z, "insert", KeysOf(t) \union {key}, 0)
  BY <1>6, <1>8, <1>10, <1>11 DEF Sound
<1>14. at' = z /\ step' = "insert" /\ keys' = KeysOf(t) \union {key} /\ turns' = 0
  BY <1>12 DEF rb_insert
<1> QED
  BY <1>1, <1>13, <1>14 DEF IInv

LEMMA DeleteSound ==
  ASSUME IInv, NEW key \in Keys, rb_delete(key)
  PROVE  IInv'
<1>1. PICK t, u, z : t = rbt /\ u = rbt' /\ z = get_node_by_key(rbt, key)
  OBVIOUS
<1>2. PICK g : Search(t, g) /\ \E h : Balanced(t, h)
  BY <1>1 DEF IInv, Sound, rb_delete
<1>3. PICK h : Balanced(t, h)
  BY <1>2
<1>4. key \in Nat
  BY NilApart
<1>5. z # NIL_NODE /\ t.i[z] = key
  BY <1>1 DEF rb_delete
<1>6. z \in InTree(t)
  <2>1. Located(t, g, key, z)
    BY <1>1, <1>2, <1>4, GetNode
  <2> QED
    BY <1>5, <2>1 DEF Located, WayTo
<1>7. PICK y : y = IF t.l[z] = NIL_NODE \/ t.r[z] = NIL_NODE THEN z ELSE NextOf(t, z, "r")
  OBVIOUS
<1>8. /\ u = Freed(Unlinked(z, y), y)
      /\ at' = IF ~Fixes(y) THEN NIL_NODE ELSE OnlyChild(t, y)
      /\ step' = IF Fixes(y) THEN "delete" ELSE "idle"
      /\ keys' = keys \ {key} /\ turns' = 0
  BY <1>1, <1>7 DEF rb_delete, OnlyChild
<1>9. PICK x : x = OnlyChild(t, y)
  OBVIOUS
<1>10. PICK s \in Sides : TakenAt(t, g, z, y, x, s)
  BY <1>2, <1>6, <1>7, <1>9, TakenNodes
<1>11. Taken(t, u, z, y, x)
  BY <1>1, <1>2, <1>8, <1>9, <1>10, TakeIs
<1>12. Search(u, TakenBelow(g, y)) /\ KeysOf(u) = KeysOf(t) \ {key}
  BY <1>2, <1>5, <1>10, <1>11, TakenSearch, TakenKeys
<1>13. x \in Pointers /\ NIL_NODE \in Pointers
  BY <1>2, <1>10, TakenFacts DEF Pointers
<1>14. keys' = KeysOf(u)
  BY <1>1, <1>8, <1>12 DEF IInv, Sound
<1>15. CASE Fixes(y)
  <2>1. t.c[y] # "red"
    BY <1>1, <1>15 DEF Fixes, IsRed
  <2>2. PICK q, e : Deleting(u, x, h, q, e)
    BY <1>2, <1>3, <1>10, <1>11, <2>1, TakenBlack
  <2>3. 0 + Black(u, x) <= h[x] + 1
    BY <1>13, <2>2 DEF Deleting, Counted, Black
  <2>4. DeleteAt(u, x, 0)
    BY <2>2, <2>3 DEF DeleteAt, DeletePhase
  <2>5. Sound(u, x, "delete", KeysOf(u), 0)
    BY <1>12, <1>13, <2>4 DEF Sound
  <2>6. at' = x /\ step' = "delete" /\ turns' = 0
    BY <1>8, <1>9, <1>15
  <2> QED
    BY <1>1, <1>14, <2>5, <2>6 DEF IInv
<1>16. CASE ~Fixes(y)
  <2>1. t.c[y] = "red"
    BY <1>1, <1>16 DEF Fixes, IsRed
  <2>2. Balanced(u, h)
    BY <1>2, <1>3, <1>10, <1>11, <2>1, TakenRed
  <2>3. Bounded(u, TakenBelow(g, y), 0)
    BY DEF Bounded
  <2>4. Sound(u, NIL_NODE, "idle", KeysOf(u), 0)
    BY <1>12, <1>13, <2>2, <2>3 DEF Sound
  <2>5. at' = NIL_NODE /\ step' = "idle" /\ turns' = 0
    BY <1>8, <1>16
  <2> QED
    BY <1>1, <1>14, <2>4, <2>5 DEF IInv
<1> QED
  BY <1>15, <1>16

(* A turn of rb_insert_fixup(). *)
LEMMA InsertTurnSound ==
  ASSUME IInv, InsertTurn
  PROVE  IInv'
<1>1. PICK t, u, a, n, b, d : t = rbt /\ u = rbt' /\ a = at /\ n = turns /\ b = above /\ d = high
  OBVIOUS
<1>2. PICK s, y : s = SideOf(t, b) /\ y = t[Other(s)][d]
  OBVIOUS
<1>3. PICK g : Search(t, g)
  BY <1>1 DEF IInv, Sound
<1>4. PICK h : Inserting(t, a, h) /\ InsertPhase(t, a, h, n)
  BY <1>1 DEF IInv, Sound, InsertTurn, InsertAt
<1>5. n \in Nat /\ keys = KeysOf(t)
  BY <1>1 DEF IInv, Sound
<1>6. InsertTurnAt(t, a, b, d, s, y)
  BY <1>1, <1>2 DEF InsertTurn, InsertTurnAt, above, high, IsRed
<1>7. y \in Pointers /\ Shaped(t) /\ a \in Pointers /\ b \in Pointers /\ d \in Pointers
  BY <1>3, <1>4, <1>6, InsertNodes DEF Search
<1>8. /\ \/ IsRed(t, y) /\ Recolour
         \/ ~IsRed(t, y) /\ a = t[Other(s)][b] /\ TurnInner
         \/ ~IsRed(t, y) /\ a # t[Other(s)][b] /\ TurnOuter
      /\ turns' = n + 1 /\ step' = "insert" /\ keys' = KeysOf(t)
  BY <1>1, <1>2, <1>5 DEF InsertTurn
<1>9. Kept(t, u) /\ InsertAt(u, at', n + 1) /\ at' \in Pointers
  <2>1. CASE IsRed(t, y) /\ Recolour
    <3>1. t.c[y] = "red"
      BY <2>1 DEF IsRed
    <3>2. u = Redden(Blacken(Blacken(t, y), b), d) /\ at' = d
      BY <1>1, <1>2, <2>1 DEF Recolour
    <3> QED
      BY <1>3, <1>4, <1>5, <1>6, <1>7, <3>1, <3>2, RecolourCode
  <2>2. CASE ~IsRed(t, y) /\ a = t[Other(s)][b] /\ TurnInner
    <3>1. t.c[y] = "black"
      BY <1>7, <2>2, Colours
    <3>2. u = Rotate(t, b, s) /\ at' = b
      BY <1>1, <1>2, <2>2 DEF TurnInner
    <3> QED
      BY <1>3, <1>4, <1>5, <1>6, <1>7, <2>2, <3>1, <3>2, InnerCode
  <2>3. CASE ~IsRed(t, y) /\ a # t[Other(s)][b] /\ TurnOuter
    <3>1. t.c[y] = "black"
      BY <1>7, <2>3, Colours
    <3>2. u = Rotate(Redden(Blacken(t, b), d), d, Other(s)) /\ at' = a
      BY <1>1, <1>2, <2>3 DEF TurnOuter
    <3> QED
      BY <1>3, <1>4, <1>5, <1>6, <1>7, <2>3, <3>1, <3>2, OuterCode
  <2> QED
    BY <1>8, <2>1, <2>2, <2>3
<1>10. Sound(u, at', "insert", KeysOf(t), n + 1)
  BY <1>5, <1>9 DEF Sound, Kept
<1> QED
  BY <1>1, <1>8, <1>10 DEF IInv

(* The end of rb_insert_fixup(). *)
LEMMA BlackenedAlike ==
  ASSUME NEW t, NEW g, NEW n, NEW u, NEW k, u = Blacken(t, n), InTree(u) = InTree(t), Bounded(t, g, k)
  PROVE  Bounded(u, g, k) /\ KeysOf(u) = KeysOf(t)
<1>1. u.i = t.i
  BY DEF Blacken
<1> QED
  BY <1>1 DEF Bounded, AboveIn, KeysOf

LEMMA InsertDoneSound ==
  ASSUME IInv, InsertDone
  PROVE  IInv'
<1>1. PICK t, u, a, n : t = rbt /\ u = rbt' /\ a = at /\ n = turns
  OBVIOUS
<1>2. PICK g : Search(t, g)
  BY <1>1 DEF IInv, Sound
<1>3. PICK h : Inserting(t, a, h) /\ InsertPhase(t, a, h, n)
  BY <1>1 DEF IInv, Sound, InsertDone, InsertAt
<1>4. n \in Nat /\ keys = KeysOf(t)
  BY <1>1 DEF IInv, Sound
<1>5. t.c[t.p[a]] = "black"
  <2>1. a \in InTree(t) /\ Shaped(t)
    BY <1>2, <1>3 DEF Inserting, Search
  <2>2. t.p[a] \in Pointers
    BY <2>1, KeyTypes DEF Shaped
  <2>3. ~IsRed(t, t.p[a])
    BY <1>1 DEF InsertDone, above
  <2> QED
    BY <2>1, <2>2, <2>3, Colours
<1>6. u = Blacken(t, t.root) /\ at' = NIL_NODE /\ step' = "idle" /\ keys' = KeysOf(t) /\ turns' = n
  BY <1>1, <1>4 DEF InsertDone
<1>7. Search(u, g) /\ InTree(u) = InTree(t) /\ \E k : Balanced(u, k)
  BY <1>2, <1>3, <1>5, <1>6, InsertEnds
<1>8. Bounded(t, g, n)
  <2>1. n <= h[a] + 2
    <3>1. h[a] \in Nat
      BY <1>2, <1>3, KeyTypes DEF Inserting, Counted, Search
    <3> QED
      BY <1>3, <1>4, <3>1 DEF InsertPhase
  <2> QED
    BY <1>2, <1>3, <1>4, <2>1, CountBounds DEF Inserting
<1>9. Bounded(u, g, n) /\ KeysOf(u) = KeysOf(t)
  BY <1>6, <1>7, <1>8, BlackenedAlike
<1>10. Sound(u, NIL_NODE, "idle", KeysOf(t), n)
  BY <1>4, <1>7, <1>9 DEF Sound, Pointers
<1> QED
  BY <1>1, <1>6, <1>10 DEF IInv

(* A turn of rb_delete_fixup(), *)
LEMMA DeleteTurnSound ==
  ASSUME IInv, DeleteTurn
  PROVE  IInv'
<1>1. PICK t, u, a, n, q : t = rbt /\ u = rbt' /\ a = at /\ n = turns /\ q = above
  OBVIOUS
<1>2. PICK s, w : s = SideOf(t, a) /\ w = t[Other(s)][q]
  OBVIOUS
<1>3. PICK g : Search(t, g)
  BY <1>1 DEF IInv, Sound
<1>4. PICK h, q0, e : Deleting(t, a, h, q0, e) /\ DeletePhase(t, a, h, n)
  BY <1>1 DEF IInv, Sound, DeleteTurn, DeleteAt
<1>5. n \in Nat /\ keys = KeysOf(t) /\ a \in Pointers
  BY <1>1 DEF IInv, Sound
<1>6. DeleteTurnAt(t, a, q, s, w)
  <2>1. a # t.root /\ ~IsRed(t, a)
    BY <1>1 DEF DeleteTurn, More
  <2>2. t.c[a] = "black"
    BY <1>3, <1>5, <2>1, Colours DEF Search
  <2> QED
    BY <1>1, <1>2, <2>1, <2>2 DEF DeleteTurnAt, above
<1>7. /\ Shaped(t) /\ w \in InTree(t) /\ w \in Pointers /\ q \in Pointers /\ s \in Sides
      /\ \A f \in Sides : t[f][w] \in Pointers
  BY <1>3, <1>4, <1>6, DeleteNodes, ChildTypes DEF Search
<1>8. Other(s) \in Sides /\ s \in Sides /\ \A f \in Sides : f = s \/ f = Other(s)
  BY <1>7, SideIsField
<1> DEFINE inner == IsRed(t, t[s][w])
           outer == IsRed(t, t[Other(s)][w])
<1>9. /\ \/ IsRed(t, w) /\ RedBrother(s, w)
         \/ ~IsRed(t, w) /\ ~inner /\ ~outer /\ BlackFamily(w)
         \/ ~IsRed(t, w) /\ inner /\ ~outer /\ InnerRed(s, w)
         \/ ~IsRed(t, w) /\ outer /\ OuterRed(s, w)
      /\ turns' = n + 1 /\ step' = "delete" /\ keys' = KeysOf(t)
  BY <1>1, <1>2, <1>5 DEF DeleteTurn
<1>10. Kept(t, u) /\ DeleteAt(u, at', n + 1) /\ at' \in Pointers
  <2>1. CASE IsRed(t, w) /\ RedBrother(s, w)
    <3>1. t.c[w] = "red"
      BY <2>1 DEF IsRed
    <3>2. u = Rotate(Redden(Blacken(t, w), q), q, s) /\ at' = a
      BY <1>1, <2>1 DEF RedBrother
    <3> QED
      BY <1>3, <1>4, <1>5, <1>6, <3>1, <3>2, RedBrotherCode
  <2>2. CASE ~IsRed(t, w) /\ ~inner /\ ~outer /\ BlackFamily(w)
    <3>1. t.c[w] = "black" /\ \A f \in Sides : t.c[t[f][w]] = "black"
      BY <1>7, <1>8, <2>2, Colours
    <3>2. u = Redden(t, w) /\ at' = q
      BY <1>1, <2>2 DEF BlackFamily
    <3> HIDE DEF inner, outer
    <3>3. Kept(t, Redden(t, w)) /\ DeleteAt(Redden(t, w), q, n + 1)
      BY <1>3, <1>4, <1>5, <1>6, <3>1, BlackFamilyTurn
    <3> QED
      BY <1>7, <3>2, <3>3
  <2>3. CASE ~IsRed(t, w) /\ inner /\ ~outer /\ InnerRed(s, w)
    <3>1. PICK i : i = t[s][w]
      OBVIOUS
    <3>2. t.c[w] = "black" /\ t.c[i] = "red" /\ t.c[t[Other(s)][w]] = "black"
      BY <1>7, <1>8, <2>3, <3>1, Colours
    <3>3. u = Rotate(Redden(Blacken(t, i), w), w, Other(s)) /\ at' = a
      BY <1>1, <2>3, <3>1 DEF InnerRed
    <3> HIDE DEF inner, outer
    <3> QED
      BY <1>3, <1>4, <1>5, <1>6, <3>1, <3>2, <3>3, InnerRedCode
  <2>4. CASE ~IsRed(t, w) /\ outer /\ OuterRed(s, w)
    <3>1. t.c[w] = "black" /\ t.c[t[Other(s)][w]] = "red"
      BY <1>7, <1>8, <2>4, Colours
    <3>2. u = Rotate(Painted(s, w), above, s) /\ at' = u.root
      BY <1>1, <2>4 DEF OuterRed
    <3> HIDE DEF inner, outer
    <3>3. Kept(rbt, u) /\ DeleteAt(u, u.root, n + 1)
      <4>1. Search(rbt, g) /\ Deleting(rbt, at, h, q0, e) /\ DeletePhase(rbt, at, h, n)
        BY <1>1, <1>3, <1>4
      <4>2. DeleteTurnAt(rbt, at, q, s, w) /\ rbt.c[w] = "black" /\ rbt.c[rbt[Other(s)][w]] = "red"
        BY <1>1, <1>6, <3>1
      <4> QED
        BY <1>5, <3>2, <4>1, <4>2, OuterRedCode
    <3>4. u.root \in Pointers
      BY <3>3, RootTypes DEF Kept
    <3> QED
      BY <1>1, <3>2, <3>3, <3>4
  <2> QED
    BY <1>9, <2>1, <2>2, <2>3, <2>4
<1> HIDE DEF inner, outer
<1>11. Sound(u, at', "delete", KeysOf(t), n + 1)
  BY <1>5, <1>10 DEF Sound, Kept
<1> QED
  BY <1>1, <1>9, <1>11 DEF IInv

(* ... and its end. *)
LEMMA DeleteDoneSound ==
  ASSUME IInv, DeleteDone
  PROVE  IInv'
<1>1. PICK t, u, a, n : t = rbt /\ u = rbt' /\ a = at /\ n = turns
  OBVIOUS
<1>2. PICK g : Search(t, g)
  BY <1>1 DEF IInv, Sound
<1>3. PICK h, q, e : Deleting(t, a, h, q, e) /\ DeletePhase(t, a, h, n)
  BY <1>1 DEF IInv, Sound, DeleteDone, DeleteAt
<1>4. n \in Nat /\ keys = KeysOf(t) /\ a \in Pointers
  BY <1>1 DEF IInv, Sound
<1>5. a = t.root \/ t.c[a] = "red"
  BY <1>1 DEF DeleteDone, More, IsRed
<1>6. u = Blacken(t, a) /\ at' = NIL_NODE /\ step' = "idle" /\ keys' = KeysOf(t) /\ turns' = n
  BY <1>1, <1>4 DEF DeleteDone
<1>7. Search(u, g) /\ InTree(u) = InTree(t) /\ \E k : Balanced(u, k)
  BY <1>2, <1>3, <1>5, <1>6, DeleteEnds
<1>8. Bounded(t, g, n)
  <2>1. h[a] \in Nat
    BY <1>3, <1>4 DEF Deleting, Counted
  <2>2. n <= h[a] + 2
    BY <1>3, <1>4, <2>1 DEF DeletePhase, Black
  <2>3. a \in InTree(t) \/ a = NIL_NODE
    BY <1>3 DEF Deleting
  <2>4. Counted(t, h, q, e)
    BY <1>3 DEF Deleting
  <2> QED
    BY <1>2, <1>4, <2>2, <2>3, <2>4, CountBounds
<1>9. Bounded(u, g, n) /\ KeysOf(u) = KeysOf(t)
  BY <1>6, <1>7, <1>8, BlackenedAlike
<1>10. Sound(u, NIL_NODE, "idle", KeysOf(t), n)
  BY <1>4, <1>7, <1>9 DEF Sound, Pointers
<1> QED
  BY <1>1, <1>6, <1>10 DEF IInv
-----------------------------------------------------------------------------
(* Every reachable state can be described so. *)
LEMMA Invariance == Spec => []IInv
<1>1. ASSUME IInv, [Next]_vars
      PROVE  IInv'
  <2>1. ASSUME NEW key \in Keys, NEW z \in Nodes \ InTree(rbt), rb_insert(z, key)
        PROVE  IInv'
    BY <1>1, <2>1, InsertSound
  <2>2. ASSUME NEW key \in Keys, rb_delete(key)
        PROVE  IInv'
    BY <1>1, <2>2, DeleteSound
  <2>3. CASE InsertTurn
    BY <1>1, <2>3, InsertTurnSound
  <2>4. CASE InsertDone
    BY <1>1, <2>4, InsertDoneSound
  <2>5. CASE DeleteTurn
    BY <1>1, <2>5, DeleteTurnSound
  <2>6. CASE DeleteDone
    BY <1>1, <2>6, DeleteDoneSound
  <2>7. CASE UNCHANGED vars
    <3>1. rbt' = rbt /\ at' = at /\ step' = step /\ keys' = keys /\ turns' = turns
      BY <2>7 DEF vars
    <3> QED
      BY <1>1, <3>1 DEF IInv
  <2> QED
    BY <1>1, <2>1, <2>2, <2>3, <2>4, <2>5, <2>6, <2>7 DEF Next
<1>2. Init => IInv
  BY InitSound
<1> QED
  BY <1>1, <1>2, PTL DEF Spec

LEMMA FixingBounded ==
  ASSUME IInv
  PROVE  \E g : Search(rbt, g) /\ Bounded(rbt, g, turns)
<1>1. PICK t, a, n : t = rbt /\ a = at /\ n = turns
  OBVIOUS
<1>2. PICK g : Search(t, g) /\ (step = "idle" => Bounded(t, g, n))
  BY <1>1 DEF IInv, Sound
<1>3. n \in Nat /\ a \in Pointers /\ step \in {"idle", "insert", "delete"}
  BY <1>1 DEF IInv, Sound
<1>4. CASE step = "insert"
  <2>1. PICK h : Inserting(t, a, h) /\ InsertPhase(t, a, h, n)
    BY <1>1, <1>4 DEF IInv, Sound, InsertAt
  <2>2. h[a] \in Nat
    BY <1>3, <2>1 DEF Inserting, Counted
  <2>3. n <= h[a] + 2
    BY <1>3, <2>1, <2>2 DEF InsertPhase
  <2>4. Bounded(t, g, n)
    BY <1>2, <1>3, <2>1, <2>3, CountBounds DEF Inserting
  <2> QED
    BY <1>1, <1>2, <2>4
<1>5. CASE step = "delete"
  <2>1. PICK h, q, e : Deleting(t, a, h, q, e) /\ DeletePhase(t, a, h, n)
    BY <1>1, <1>5 DEF IInv, Sound, DeleteAt
  <2>2. h[a] \in Nat
    BY <1>3, <2>1 DEF Deleting, Counted
  <2>3. n <= h[a] + 2
    BY <1>3, <2>1, <2>2 DEF DeletePhase, Black
  <2>4. Counted(t, h, q, e) /\ (a \in InTree(t) \/ a = NIL_NODE)
    BY <2>1 DEF Deleting
  <2>5. Bounded(t, g, n)
    BY <1>2, <1>3, <2>3, <2>4, CountBounds
  <2> QED
    BY <1>1, <1>2, <2>5
<1> QED
  BY <1>1, <1>2, <1>3, <1>4, <1>5

(* The pointers of the nodes point to nodes or to the sentinel, which stays black
   whatever the fixups paint. *)
THEOREM TypeCorrect == Spec => []TypeOK
<1>1. IInv => TypeOK
  <2> SUFFICES ASSUME IInv
               PROVE  TypeOK
    OBVIOUS
  <2>1. PICK g : Search(rbt, g)
    BY DEF IInv, Sound
  <2>2. keys \subseteq Keys
    BY <2>1, KeyTypes DEF IInv, Sound, KeysOf, Search
  <2>3. Shaped(rbt)
    BY <2>1 DEF Search
  <2>4. at \in Pointers /\ turns \in Nat /\ step \in {"idle", "insert", "delete"}
    BY DEF IInv, Sound
  <2> QED
    BY <2>2, <2>3, <2>4 DEF TypeOK, Shaped
<1> QED
  BY <1>1, Invariance, PTL

(* rb_insert(), rb_delete() and every turn of their fixups leave a search tree of
   the keys inserted and not deleted, for any number of nodes. *)
THEOREM OrderKept == Spec => []SearchTree
<1>1. IInv => SearchTree
  BY OrderShown DEF IInv, Sound
<1> QED
  BY <1>1, Invariance, PTL

(* When rb_insert() or rb_delete() returns, the tree is red-black again, however
   deep it is. *)
THEOREM BalanceRestored == Spec => []RedBlack
<1>1. IInv => RedBlack
  <2> SUFFICES ASSUME IInv, step = "idle"
               PROVE  RedBlack
    BY DEF RedBlack
  <2>1. PICK g, h : Search(rbt, g) /\ Balanced(rbt, h)
    BY DEF IInv, Sound
  <2> QED
    BY <2>1, BalanceShown
<1> QED
  BY <1>1, Invariance, PTL

(* rb_suc() and rb_pre() find the neighbours of every node. *)
THEOREM NeighboursAreNext == Spec => []NeighboursFound
<1>1. IInv => NeighboursFound
  BY NeighboursShown DEF IInv, Sound
<1> QED
  BY <1>1, Invariance, PTL

(* Neither fixup goes on for more turns than the tree has levels, and two. *)
THEOREM TurnsBounded == Spec => []FixupsEnd
<1>1. IInv => FixupsEnd
  <2> SUFFICES ASSUME IInv
               PROVE  FixupsEnd
    OBVIOUS
  <2>1. PICK g : Search(rbt, g) /\ Bounded(rbt, g, turns)
    BY FixingBounded
  <2>2. turns \in Nat
    BY DEF IInv, Sound
  <2> QED
    BY <2>1, <2>2, EndShown
<1> QED
  BY <1>1, Invariance, PTL
=============================================================================
