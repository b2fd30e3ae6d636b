-------------------------- MODULE NameSpaceProofs --------------------------
(***************************************************************************)
(* Proofs about NameSpace, for any number of nodes, names, users and       *)
(* paths.  A lookup is followed turn by turn, mkfile() and rmfile() are    *)
(* shown to keep the arrays, and the history to be what the arrays show.   *)
(* What can be reached is a set A that has Root and, with a node, its      *)
(* parent and what is in its array: while rmfile() has not cut off the     *)
(* current or home directory there is one whose nodes are all there and    *)
(* all hang from Root.                                                     *)
(***************************************************************************)
EXTENDS NameSpace, FiniteSetTheorems, WellFoundedInduction, TLAPS
-----------------------------------------------------------------------------
(* Induction over the numbers.  The induction theorems of the library take an
   operator, which the provers cannot instantiate; over a set they follow from the
   strict subset relation on finite sets being well-founded. *)

(* Every set of numbers has a least one. *)
LEMMA LeastNat ==
  ASSUME NEW T, T \subseteq Nat, T # {}
  PROVE  \E x \in T : \A y \in T : x <= y
<1> DEFINE F == {0..n : n \in T}
<1>1. F \subseteq FiniteSubsetsOf(Nat) /\ F # {}
  <2>1. \A n \in Nat : IsFiniteSet(0..n)
    BY FS_Interval
  <2>2. \A n \in Nat : (0..n) \subseteq Nat
    OBVIOUS
  <2>3. \A n \in T : 0..n \in FiniteSubsetsOf(Nat)
    BY <2>1, <2>2 DEF FiniteSubsetsOf
  <2> QED
    BY <2>3
<1>2. \E S \in F : \A R \in F : <<R, S>> \notin StrictSubsetOrdering(Nat)
  BY <1>1, FS_StrictSubsetOrderingWellFounded, WFMin
<1>3. PICK x \in T : \A y \in T : <<0..y, 0..x>> \notin StrictSubsetOrdering(Nat)
  BY <1>2
<1>4. ASSUME NEW y \in T, (0..y) \subseteq (0..x), 0..y # 0..x PROVE FALSE
  <2>1. 0..y \in SUBSET Nat /\ 0..x \in SUBSET Nat
    OBVIOUS
  <2>2. <<0..y, 0..x>> \in (SUBSET Nat) \X (SUBSET Nat)
    BY <2>1
  <2> QED
    BY <1>3, <1>4, <2>2 DEF StrictSubsetOrdering
<1>5. ASSUME NEW y \in T, ~(x <= y) PROVE FALSE
  <2>1. x \in 0..x /\ x \notin 0..y /\ (0..y) \subseteq (0..x)
    BY <1>5
  <2> QED
    BY <1>4, <2>1
<1> QED
  BY <1>5

(* Induction over the set of the numbers for which a fact holds. *)
LEMMA Induction ==
  ASSUME NEW S, 0 \in S, \A n \in Nat : n \in S => n + 1 \in S
  PROVE  \A n \in Nat : n \in S
<1> DEFINE T == {n \in Nat : n \notin S}
<1> SUFFICES ASSUME T # {} PROVE FALSE
  OBVIOUS
<1>1. PICK x \in T : \A y \in T : x <= y
  BY LeastNat
<1>2. x # 0 /\ x - 1 \in Nat /\ x - 1 \notin S
  OBVIOUS
<1> QED
  BY <1>1, <1>2

(* g lists p and the first n values that iterating s gives. *)
Iterates(g, s, p, S, n) ==
    /\ g \in [0..n -> S]
    /\ g[0] = p /\ \A k \in 1..n : g[k] = s[g[k - 1]]

LEMMA CanIterate ==
  ASSUME NEW S, NEW s \in [S -> S], NEW p \in S, NEW N \in Nat
  PROVE  \E g : Iterates(g, s, p, S, N)
<1> DEFINE Good == {n \in Nat : \E g : Iterates(g, s, p, S, n)}
<1>1. 0 \in Good
  <2> DEFINE g == [k \in 0..0 |-> p]
  <2>1. Iterates(g, s, p, S, 0)
    BY DEF Iterates
  <2> QED
    BY <2>1
<1>2. ASSUME NEW n \in Nat, n \in Good PROVE n + 1 \in Good
  <2>1. PICK g : Iterates(g, s, p, S, n)
    BY <1>2
  <2> DEFINE h == [k \in 0..(n + 1) |-> IF k = n + 1 THEN s[g[n]] ELSE g[k]]
  <2>2. Iterates(h, s, p, S, n + 1)
    BY <2>1 DEF Iterates
  <2> QED
    BY <2>2
<1>3. N \in Good
  <2> HIDE DEF Good
  <2> QED
    BY <1>1, <1>2, Induction
<1> QED
  BY <1>3

-----------------------------------------------------------------------------
(* The search that only goes right, over 1..n: stop says where it ends before n. *)
Searches(w, stop, from, n) ==
    /\ w \in [from..n -> 1..n]
    /\ \A low \in from..n :
          w[low] = IF low = n THEN low
                   ELSE IF stop[(low + n) \div 2] THEN (low + n) \div 2
                   ELSE w[(low + n) \div 2 + 1]

LEMMA Middle ==
  ASSUME NEW n \in Nat, NEW low \in Nat, low < n
  PROVE  (low + n) \div 2 \in low..(n - 1)
OBVIOUS

LEMMA SearchExists ==
  ASSUME NEW n \in Nat \ {0}, NEW stop \in [1..n -> BOOLEAN]
  PROVE  \E w : Searches(w, stop, 1, n)
<1> DEFINE Good == {m \in Nat : m < n => \E w : Searches(w, stop, n - m, n)}
<1>1. 0 \in Good
  <2> DEFINE w == [low \in n..n |-> n]
  <2>1. Searches(w, stop, n, n)
    BY DEF Searches
  <2>2. n - 0 = n
    OBVIOUS
  <2> QED
    BY <2>1, <2>2
<1>2. ASSUME NEW m \in Nat, m \in Good PROVE m + 1 \in Good
  <2> SUFFICES ASSUME m + 1 < n
               PROVE  \E w : Searches(w, stop, n - (m + 1), n)
    OBVIOUS
  <2>1. PICK v : Searches(v, stop, n - m, n)
    BY <1>2
  <2>2. PICK a \in Nat : a = n - (m + 1) /\ a > 0 /\ a < n /\ n - m = a + 1
    OBVIOUS
  <2>3. PICK b \in Nat : b = (a + n) \div 2 /\ b \in a..(n - 1)
    BY <2>2, Middle
  <2> DEFINE x == IF stop[b] THEN b ELSE v[b + 1]
             w == [low \in a..n |-> IF low = a THEN x ELSE v[low]]
  <2>4. x \in 1..n
    BY <2>1, <2>2, <2>3 DEF Searches
  <2>5. w \in [a..n -> 1..n]
    BY <2>1, <2>2, <2>4 DEF Searches
  <2>6. ASSUME NEW low \in a..n
        PROVE  w[low] = IF low = n THEN low
                   ELSE IF stop[(low + n) \div 2] THEN (low + n) \div 2
                   ELSE w[(low + n) \div 2 + 1]
    <3>1. CASE low = a
      BY <2>2, <2>3, <3>1
    <3>2. CASE low # a
      <4>1. low \in (a + 1)..n
        BY <2>2, <3>2
      <4>2. v[low] = IF low = n THEN low
                   ELSE IF stop[(low + n) \div 2] THEN (low + n) \div 2
                   ELSE v[(low + n) \div 2 + 1]
        BY <2>1, <2>2, <4>1 DEF Searches
      <4>3. low < n => (low + n) \div 2 \in low..(n - 1)
        BY <4>1, <2>2, Middle
      <4> QED
        BY <3>2, <4>1, <4>2, <4>3, <2>2
    <3> QED
      BY <3>1, <3>2
  <2>7. Searches(w, stop, a, n)
    <3> HIDE DEF w
    <3> QED
      BY <2>5, <2>6 DEF Searches
  <2> QED
    BY <2>2, <2>7
<1>3. n - 1 \in Good
  <2> HIDE DEF Good
  <2>1. n - 1 \in Nat
    OBVIOUS
  <2> QED
    BY <1>1, <1>2, <2>1, Induction
<1>4. n - (n - 1) = 1 /\ n - 1 < n /\ n - 1 \in Nat
  OBVIOUS
<1> QED
  BY <1>3, <1>4

(* Before it ends at n it has been at n - 1. *)
LEMMA SearchSees ==
  ASSUME NEW n \in Nat \ {0}, NEW stop \in [1..n -> BOOLEAN], NEW w, Searches(w, stop, 1, n)
  PROVE  /\ w[1] \in 1..n
         /\ w[1] < n => stop[w[1]]
         /\ n > 1 /\ stop[n - 1] => w[1] < n
<1> DEFINE Right(low) == /\ w[low] \in low..n
                         /\ w[low] < n => stop[w[low]]
                         /\ low < n /\ stop[n - 1] => w[low] < n
           Good == {m \in Nat : \A low \in 1..n : n - low <= m => Right(low)}
<1>1. 0 \in Good
  <2>1. ASSUME NEW low \in 1..n, n - low <= 0 PROVE Right(low)
    <3>1. low = n /\ w[low] = n
      BY <2>1 DEF Searches
    <3> QED
      BY <3>1
  <2> QED
    BY <2>1
<1>2. ASSUME NEW m \in Nat, m \in Good PROVE m + 1 \in Good
  <2> SUFFICES ASSUME NEW low \in 1..n, n - low <= m + 1, low # n
               PROVE  Right(low)
    <3>1. ASSUME NEW low \in 1..n, low = n PROVE Right(low)
      BY <3>1 DEF Searches
    <3> QED
      BY <3>1
  <2>1. PICK b \in Nat : b = (low + n) \div 2 /\ b \in low..(n - 1)
    BY Middle
  <2>2. w[low] = IF stop[b] THEN b ELSE w[b + 1]
    BY <2>1 DEF Searches
  <2>3. CASE stop[b]
    BY <2>1, <2>2, <2>3
  <2>4. CASE ~stop[b]
    <3>1. b + 1 \in 1..n /\ n - (b + 1) <= m
      BY <2>1
    <3>2. Right(b + 1)
      BY <1>2, <3>1
    <3>3. stop[n - 1] => b + 1 < n
      BY <2>1, <2>4
    <3> QED
      BY <2>1, <2>2, <2>4, <3>2, <3>3
  <2> QED
    BY <2>3, <2>4
<1>3. n \in Good
  <2> HIDE DEF Good
  <2> QED
    BY <1>1, <1>2, Induction
<1>4. Right(1)
  BY <1>3
<1> QED
  BY <1>4

LEMMA SearchOf ==
  ASSUME NEW n \in Nat \ {0}, NEW stop \in [1..n -> BOOLEAN], NEW v,
         v = CHOOSE g : g = [low \in 1..n |->
                               IF low = n THEN low
                               ELSE IF stop[(low + n) \div 2] THEN (low + n) \div 2
                               ELSE g[(low + n) \div 2 + 1]]
  PROVE  Searches(v, stop, 1, n)
<1> DEFINE Rec(g) == [low \in 1..n |->
                        IF low = n THEN low
                        ELSE IF stop[(low + n) \div 2] THEN (low + n) \div 2
                        ELSE g[(low + n) \div 2 + 1]]
<1>1. PICK w : Searches(w, stop, 1, n)
  BY SearchExists
<1>2. w = Rec(w)
  BY <1>1 DEF Searches
<1>3. v = Rec(v)
  <2>1. v = CHOOSE g : g = Rec(g)
    OBVIOUS
  <2> HIDE DEF Rec
  <2> QED
    BY <1>2, <2>1
<1>4. ASSUME NEW a, NEW b, Searches(a, stop, 1, n), b = Rec(b) PROVE b = a
  <2> DEFINE Good == {m \in Nat : \A low \in 1..n : n - low <= m => a[low] = b[low]}
  <2>1. 0 \in Good
    <3>1. ASSUME NEW low \in 1..n, n - low <= 0 PROVE a[low] = b[low]
      <4>1. low = n
        BY <3>1
      <4>2. a[low] = n
        BY <1>4, <4>1 DEF Searches
      <4>3. b[low] = n
        BY <1>4, <4>1
      <4> QED
        BY <4>2, <4>3
    <3> QED
      BY <3>1
  <2>2. ASSUME NEW m \in Nat, m \in Good PROVE m + 1 \in Good
    <3>1. ASSUME NEW low \in 1..n, n - low <= m + 1 PROVE a[low] = b[low]
      <4>1. CASE low = n
        <5>1. a[low] = n
          BY <1>4, <4>1 DEF Searches
        <5>2. b[low] = n
          BY <1>4, <4>1
        <5> QED
          BY <5>1, <5>2
      <4>2. CASE low # n
        <5>1. low \in Nat /\ low < n
          BY <4>2
        <5>2. PICK c \in Nat : c = (low + n) \div 2 /\ c \in low..(n - 1)
          BY <5>1, Middle
        <5>3. a[low] = IF stop[c] THEN c ELSE a[c + 1]
          BY <1>4, <4>2, <5>2 DEF Searches
        <5>4. b[low] = IF stop[c] THEN c ELSE b[c + 1]
          BY <1>4, <4>2, <5>2
        <5>5. a[c + 1] = b[c + 1]
          <6>1. c + 1 \in 1..n /\ n - (c + 1) <= m
            BY <3>1, <5>2
          <6> QED
            BY <2>2, <6>1
        <5> QED
          BY <5>3, <5>4, <5>5
      <4> QED
        BY <4>1, <4>2
    <3> QED
      BY <3>1
  <2>3. n \in Good
    <3> HIDE DEF Good
    <3> QED
      BY <2>1, <2>2, Induction
  <2>4. \A low \in 1..n : a[low] = b[low]
    BY <2>3
  <2>5. DOMAIN a = 1..n /\ a = [low \in 1..n |-> a[low]]
    BY <1>4 DEF Searches
  <2>6. DOMAIN b = 1..n /\ b = [low \in 1..n |-> b[low]]
    BY <1>4
  <2> QED
    BY <2>4, <2>5, <2>6
<1>5. v = w
  <2> HIDE DEF Rec
  <2> QED
    BY <1>1, <1>3, <1>4
<1> QED
  BY <1>1, <1>5

LEMMA MiddleOf ==
  \A n \in Nat : \A low \in 1..n : low # n => (low + n) \div 2 \in 1..(n - 1)
<1> SUFFICES ASSUME NEW n \in Nat, NEW low \in 1..n, low # n
             PROVE  (low + n) \div 2 \in 1..(n - 1)
  OBVIOUS
<1>1. low \in Nat /\ low < n
  OBVIOUS
<1>2. PICK b \in Int : b = (low + n) \div 2 /\ b \in low..(n - 1)
  BY <1>1, Middle
<1> QED
  BY <1>2

(* binary_seach_file() ends at a file of that name, at a bad pointer, or at the last
   file; and it has seen the last but one. *)
Stops(t, d, name, i) == t.child[d][i] \notin t.live \/ t.name[t.child[d][i]] = name

LEMMA BinaryIs ==
  ASSUME NEW t, NEW d, NEW name, NEW n \in Nat \ {0}, n = Len(t.child[d])
  PROVE  /\ Binary(t, d, name) \in 1..n
         /\ Binary(t, d, name) < n => Stops(t, d, name, Binary(t, d, name))
         /\ n > 1 /\ Stops(t, d, name, n - 1) => Binary(t, d, name) < n
<1>1. PICK stop : stop = [i \in 1..n |-> Stops(t, d, name, i)]
  OBVIOUS
<1>2. stop \in [1..n -> BOOLEAN]
  BY <1>1 DEF Stops
<1> DEFINE A(g, low) == IF low = n THEN low
                        ELSE IF Stops(t, d, name, (low + n) \div 2) THEN (low + n) \div 2
                        ELSE g[(low + n) \div 2 + 1]
           B(g, low) == IF low = n THEN low
                        ELSE IF stop[(low + n) \div 2] THEN (low + n) \div 2
                        ELSE g[(low + n) \div 2 + 1]
           v == CHOOSE g : g = [low \in 1..n |-> B(g, low)]
<1>3. ASSUME NEW g, NEW low \in 1..n PROVE A(g, low) = B(g, low)
  <2>1. CASE low = n
    BY <2>1
  <2>2. CASE low # n
    <3>1. PICK c : c = (low + n) \div 2
      OBVIOUS
    <3>2. n \in Nat
      OBVIOUS
    <3>3. c \in 1..(n - 1)
      BY <2>2, <3>1, <3>2, MiddleOf, Zenon
    <3>4. c \in 1..n
      <4>1. \A m \in Nat : \A k \in 1..(m - 1) : k \in 1..m
        OBVIOUS
      <4> QED
        BY <3>2, <3>3, <4>1, Zenon
    <3>5. stop[c] = Stops(t, d, name, c)
      BY <1>1, <3>4
    <3>6. A(g, low) = IF Stops(t, d, name, c) THEN c ELSE g[c + 1]
      BY <2>2, <3>1
    <3>7. B(g, low) = IF stop[c] THEN c ELSE g[c + 1]
      BY <2>2, <3>1
    <3> QED
      BY <3>5, <3>6, <3>7
  <2> QED
    BY <2>1, <2>2
<1>4. Binary(t, d, name) = (CHOOSE g : g = [low \in 1..n |-> A(g, low)])[1]
  BY DEF Binary, Stops
<1>5. \A g : [low \in 1..n |-> A(g, low)] = [low \in 1..n |-> B(g, low)]
  <2> HIDE DEF A, B
  <2> QED
    BY <1>3
<1>6. (CHOOSE g : g = [low \in 1..n |-> A(g, low)]) = v
  <2> DEFINE F(g) == [low \in 1..n |-> A(g, low)]
             G(g) == [low \in 1..n |-> B(g, low)]
  <2>1. \A g : F(g) = G(g)
    BY <1>5
  <2>2. (CHOOSE g : g = F(g)) = (CHOOSE g : g = G(g))
    <3> HIDE DEF F, G
    <3> QED
      BY <2>1
  <2> QED
    BY <2>2
<1>7. PICK w : w = v
  OBVIOUS
<1>8. Searches(w, stop, 1, n)
  <2>1. w = CHOOSE g : g = [low \in 1..n |->
                               IF low = n THEN low
                               ELSE IF stop[(low + n) \div 2] THEN (low + n) \div 2
                               ELSE g[(low + n) \div 2 + 1]]
    BY <1>7
  <2> QED
    BY <1>2, <2>1, SearchOf
<1>9. PICK b : b = w[1]
  OBVIOUS
<1>10. b \in 1..n /\ (b < n => stop[b]) /\ (n > 1 /\ stop[n - 1] => b < n)
  BY <1>2, <1>8, <1>9, SearchSees
<1>11. \A i \in 1..n : stop[i] = Stops(t, d, name, i)
  BY <1>1
<1>12. n > 1 => n - 1 \in 1..n
  OBVIOUS
<1>13. Binary(t, d, name) = b
  <2> HIDE DEF A, B
  <2> QED
    BY <1>4, <1>6, <1>7, <1>9
<1> QED
  BY <1>10, <1>11, <1>12, <1>13
-----------------------------------------------------------------------------
(* The tree, and what current_working_dir and home_dir have to do with it. *)
Types == {"dir", "reg", "shared", "flag"}
Names == {SU, Shared, Upper} \union Users \union UNION {ToSet(p.comps) : p \in Paths}

Trees == [live : SUBSET Dirs, name : [Dirs -> Names], type : [Dirs -> SUBSET Types],
          parent : [Dirs -> Dirs], child : [Dirs -> Seq(Nodes \union {Junk})]]

(* The arrays of the nodes that are not there are empty, and the files in any
   other have that directory for parent. *)
Housed(t) ==
    /\ \A d \in Dirs \ t.live : t.child[d] = <<>>
    /\ \A d \in Dirs : \A i \in DOMAIN t.child[d] :
          t.child[d][i] \in t.live => t.parent[t.child[d][i]] = d

(* A directory with a flag is nobody's parent, and neither cwd nor home. *)
Flags(t, c, h) ==
    \A n \in Dirs : "flag" \in t.type[n] =>
        /\ "dir" \in t.type[n]
        /\ n \in t.live \ {Root} /\ n # c /\ n # h /\ t.parent[n] # Root
        /\ \A m \in t.live : t.parent[m] # n

Shape(t, c, h) ==
    /\ t \in Trees /\ c \in Dirs /\ h \in Dirs \union {NULL}
    /\ Root \in t.live /\ t.parent[Root] = Root /\ "dir" \in t.type[Root]
    /\ Housed(t) /\ Flags(t, c, h)
    /\ \A n \in t.live \ {Root} : t.name[n] # Upper

FlagThere(t) == \E n \in t.live : "flag" \in t.type[n]
JunkThere(t) == \E d \in Dirs : Junk \in ToSet(t.child[d])

(* n is in the array of its directory, at i. *)
Placed(t, n, i) ==
    /\ n \in t.live \ {Root} /\ i \in DOMAIN t.child[t.parent[n]] /\ t.child[t.parent[n]][i] = n

(* A file of that name can be made in d, and i is where: not at the end. *)
MayMake(t, d, i, name) ==
    /\ d \in t.live /\ "dir" \in t.type[d] /\ name # Upper
    /\ IF t.child[d] = <<>> THEN i = 1
       ELSE /\ i = Len(t.child[d])
            /\ \A j \in DOMAIN t.child[d] :
                  j >= i - 1 => t.child[d][j] \in t.live /\ t.name[t.child[d][j]] # name
-----------------------------------------------------------------------------
(* get_ns_node(), a turn at a time. *)
IsPath(p) == p.comps \in Seq(Names) /\ p.abs \in BOOLEAN /\ p.slash \in BOOLEAN

StartOf(t, p) ==
    LET start == IF p.abs THEN Root ELSE cwd
    IN [ret |-> 0, node |-> start, name |-> Upper, index |-> IF p.abs THEN 2 ELSE 1,
        fault |-> IF start \in t.live THEN "none" ELSE "freed"]

Turns(a, t, p) ==
    /\ a[0] = StartOf(t, p)
    /\ \A k \in 1..Len(p.comps) : a[k] = Turn(t, a[k - 1], p.comps[k])

EndOf(e, slash) == IF e.ret = 3 /\ slash THEN [e EXCEPT !.ret = 4] ELSE e

Unfolds(w, t, s, c, N) == w = [k \in 0..N |-> IF k = 0 THEN s ELSE Turn(t, w[k - 1], c[k])]

LEMMA TurnsExist ==
  ASSUME NEW t, NEW s, NEW c, NEW N \in Nat
  PROVE  \E w : Unfolds(w, t, s, c, N)
<1> DEFINE F(w, n) == [k \in 0..n |-> IF k = 0 THEN s ELSE Turn(t, w[k - 1], c[k])]
           Good == {n \in Nat : \E w : w = F(w, n)}
<1>1. 0 \in Good
  <2> DEFINE w == [k \in 0..0 |-> s]
  <2>1. w = F(w, 0)
    OBVIOUS
  <2> QED
    BY <2>1
<1>2. ASSUME NEW n \in Nat, n \in Good PROVE n + 1 \in Good
  <2>1. PICK v : v = F(v, n)
    BY <1>2
  <2> DEFINE w == [k \in 0..(n + 1) |-> IF k = n + 1 THEN Turn(t, v[n], c[n + 1]) ELSE v[k]]
  <2>2. ASSUME NEW k \in 0..(n + 1)
        PROVE  w[k] = IF k = 0 THEN s ELSE Turn(t, w[k - 1], c[k])
    <3>1. CASE k = 0
      BY <2>1, <3>1
    <3>2. CASE k = n + 1
      <4>1. w[k] = Turn(t, v[n], c[n + 1])
        BY <3>2
      <4>2. w[k - 1] = v[n]
        BY <3>2
      <4> QED
        BY <3>2, <4>1, <4>2
    <3>3. CASE k # 0 /\ k # n + 1
      <4>1. k \in 0..n /\ k - 1 \in 0..n /\ k - 1 # n + 1 /\ k - 1 \in 0..(n + 1)
        BY <3>3
      <4>2. w[k] = v[k] /\ w[k - 1] = v[k - 1]
        BY <3>3, <4>1
      <4>3. v[k] = Turn(t, v[k - 1], c[k])
        BY <2>1, <3>3, <4>1
      <4> QED
        BY <3>3, <4>2, <4>3
    <3> QED
      BY <3>1, <3>2, <3>3
  <2>3. w = F(w, n + 1)
    <3>1. w = [k \in 0..(n + 1) |-> w[k]]
      OBVIOUS
    <3> HIDE DEF w
    <3> QED
      BY <2>2, <3>1
  <2> HIDE DEF w, F
  <2> QED
    BY <2>3
<1>3. N \in Good
  <2> HIDE DEF Good
  <2> QED
    BY <1>1, <1>2, Induction
<1> QED
  BY <1>3 DEF Unfolds

LEMMA LookupTurns ==
  ASSUME NEW t, NEW p, IsPath(p)
  PROVE  \E a : Turns(a, t, p) /\ get_ns_node(t, p) = EndOf(a[Len(p.comps)], p.slash)
<1>1. PICK N : N = Len(p.comps) /\ N \in Nat
  BY DEF IsPath
<1> DEFINE F(w) == [k \in 0..N |-> IF k = 0 THEN StartOf(t, p) ELSE Turn(t, w[k - 1], p.comps[k])]
<1>2. PICK a : a = CHOOSE w : w = F(w)
  OBVIOUS
<1>3. a = F(a)
  <2>1. \E w : w = F(w)
    <3>1. \E w : Unfolds(w, t, StartOf(t, p), p.comps, N)
      BY <1>1, TurnsExist
    <3> QED
      BY <3>1 DEF Unfolds
  <2> HIDE DEF F
  <2> QED
    BY <1>2, <2>1
<1>4. Turns(a, t, p)
  <2>1. a[0] = StartOf(t, p)
    BY <1>1, <1>3
  <2>2. ASSUME NEW k \in 1..N PROVE a[k] = Turn(t, a[k - 1], p.comps[k])
    <3>1. k \in 0..N /\ k # 0
      BY <1>1
    <3> QED
      BY <1>3, <3>1
  <2> QED
    BY <1>1, <2>1, <2>2 DEF Turns
<1>5. get_ns_node(t, p) = EndOf(a[N], p.slash)
  BY <1>1, <1>2 DEF get_ns_node, EndOf, StartOf
<1> QED
  BY <1>1, <1>4, <1>5
-----------------------------------------------------------------------------
(* What the walk knows after k turns. *)
LookStates == [ret : 0..4, node : Dirs \union {NULL}, name : Names, index : Nat,
               fault : {"none", "null", "junk", "freed"}]

Standing(t, s, k) ==
    /\ s.node \in t.live \/ (s.node = NULL /\ s.ret = 0 /\ FlagThere(t))
    /\ s.node # NULL => "flag" \notin t.type[s.node]
    /\ k > 0 /\ s.ret = 0 /\ s.node # NULL => Placed(t, s.node, s.index)
    /\ s.ret = 3 => MayMake(t, s.node, s.index, s.name)

OnWay(t, h, s, k) ==
    /\ s \in LookStates
    /\ s.fault = "null" => h = NULL \/ FlagThere(t)
    /\ s.fault = "junk" => JunkThere(t)
    /\ s.fault = "none" => Standing(t, s, k)

LEMMA NullIsNoNode == NULL \notin Dirs /\ Junk \notin Dirs /\ NULL # Junk /\ Root \notin Nodes
BY NameSpaceAssumption DEF Dirs

LEMMA Faults ==
  ASSUME NEW t, t \in Trees, NEW h, NEW s, NEW k \in Nat,
         OnWay(t, h, s, k), NEW n, n \notin t.live, n \in Dirs \union {NULL, Junk},
         n = NULL => h = NULL \/ FlagThere(t),
         n = Junk => JunkThere(t)
  PROVE  OnWay(t, h, [s EXCEPT !.fault = FaultAt(n)], k + 1)
<1>1. FaultAt(n) \in {"null", "junk", "freed"}
  BY DEF FaultAt
<1>2. /\ FaultAt(n) = "null" => n = NULL
      /\ FaultAt(n) = "junk" => n = Junk
  BY DEF FaultAt
<1>3. PICK e : e = [s EXCEPT !.fault = FaultAt(n)]
  OBVIOUS
<1>4. e \in LookStates /\ e.fault = FaultAt(n)
  BY <1>1, <1>3 DEF OnWay, LookStates
<1> QED
  BY <1>1, <1>2, <1>3, <1>4 DEF OnWay

GoTo(s, r, n) == [s EXCEPT !.ret = r, !.node = n]
Miss(s, r, i, name) == [s EXCEPT !.ret = r, !.index = i, !.name = name]
Enter(s, i, r, n) == [s EXCEPT !.index = i, !.ret = r, !.node = n]

LEMMA Updated ==
  ASSUME NEW s \in LookStates, NEW r \in 0..4, NEW n \in Dirs \union {NULL}, NEW i \in Nat,
         NEW name \in Names
  PROVE  /\ GoTo(s, r, n) =
               [ret |-> r, node |-> n, name |-> s.name, index |-> s.index, fault |-> s.fault]
         /\ Miss(s, r, i, name) =
               [ret |-> r, node |-> s.node, name |-> name, index |-> i, fault |-> s.fault]
         /\ Enter(s, i, r, n) =
               [ret |-> r, node |-> n, name |-> s.name, index |-> i, fault |-> s.fault]
<1>1. PICK f : f = [s EXCEPT !.ret = r]
  OBVIOUS
<1>2. f = [ret |-> r, node |-> s.node, name |-> s.name, index |-> s.index, fault |-> s.fault]
  BY <1>1 DEF LookStates
<1>3. [f EXCEPT !.node = n] =
               [ret |-> r, node |-> n, name |-> s.name, index |-> s.index, fault |-> s.fault]
  BY <1>2
<1>4. PICK g : g = [f EXCEPT !.index = i]
  OBVIOUS
<1>5. g = [ret |-> r, node |-> s.node, name |-> s.name, index |-> i, fault |-> s.fault]
  BY <1>2, <1>4
<1>6. [g EXCEPT !.name = name] =
               [ret |-> r, node |-> s.node, name |-> name, index |-> i, fault |-> s.fault]
  BY <1>5
<1>7. PICK j : j = [s EXCEPT !.index = i]
  OBVIOUS
<1>8. j = [ret |-> s.ret, node |-> s.node, name |-> s.name, index |-> i, fault |-> s.fault]
  BY <1>7 DEF LookStates
<1>9. PICK k : k = [j EXCEPT !.ret = r]
  OBVIOUS
<1>10. k = [ret |-> r, node |-> s.node, name |-> s.name, index |-> i, fault |-> s.fault]
  BY <1>8, <1>9
<1>11. [k EXCEPT !.node = n] =
               [ret |-> r, node |-> n, name |-> s.name, index |-> i, fault |-> s.fault]
  BY <1>10
<1>12. GoTo(s, r, n) = [f EXCEPT !.node = n]
  BY <1>1 DEF GoTo
<1>13. Miss(s, r, i, name) = [g EXCEPT !.name = name]
  BY <1>1, <1>4 DEF Miss
<1>14. Enter(s, i, r, n) = [k EXCEPT !.node = n]
  BY <1>7, <1>9 DEF Enter
<1> QED
  BY <1>3, <1>6, <1>11, <1>12, <1>13, <1>14

LEMMA Missed ==
  ASSUME NEW s \in LookStates, NEW r \in 0..4, NEW i \in Nat, NEW name \in Names
  PROVE  Miss(s, r, i, name) =
           [ret |-> r, node |-> s.node, name |-> name, index |-> i, fault |-> s.fault]
<1>1. PICK n : n = NULL /\ n \in Dirs \union {NULL}
  OBVIOUS
<1> QED
  BY <1>1, Updated

LEMMA TurnOnWay ==
  ASSUME NEW t, NEW c, NEW h, Shape(t, c, h), h = home, NEW s, NEW k \in Nat, OnWay(t, h, s, k),
         NEW name \in Names
  PROVE  OnWay(t, h, Turn(t, s, name), k + 1)
<1>1. s \in LookStates /\ t \in Trees
  BY DEF OnWay, Shape
<1>2. s.ret \in 0..4 /\ s.node \in Dirs \union {NULL} /\ s.index \in Nat /\ s.name \in Names
  BY <1>1 DEF LookStates
<1>3. CASE s.fault # "none" \/ s.ret \in {1, 4}
  <2>1. Turn(t, s, name) = s
    BY <1>3 DEF Turn
  <2>2. s.fault = "none" => Standing(t, s, k + 1)
    BY <1>3 DEF OnWay, Standing
  <2> QED
    BY <2>1, <2>2 DEF OnWay
<1>4. CASE s.fault = "none" /\ s.ret = 3
  <2>1. PICK e : e = [s EXCEPT !.ret = 4]
    OBVIOUS
  <2>2. Turn(t, s, name) = e
    BY <1>4, <2>1 DEF Turn
  <2>3. e \in LookStates /\ e.ret = 4 /\ e.node = s.node /\ e.fault = "none"
    BY <1>1, <1>4, <2>1 DEF LookStates
  <2>4. Standing(t, s, k)
    BY <1>4 DEF OnWay
  <2>5. Standing(t, e, k + 1)
    BY <1>4, <2>3, <2>4 DEF Standing
  <2> QED
    BY <2>2, <2>3, <2>5 DEF OnWay
<1>5. CASE s.fault = "none" /\ s.ret \in {0, 2} /\ s.node \notin t.live
  <2>1. Turn(t, s, name) = [s EXCEPT !.fault = FaultAt(s.node)]
    BY <1>5 DEF Turn
  <2>2. s.node = NULL /\ FlagThere(t)
    BY <1>5 DEF OnWay, Standing
  <2>3. NULL # Junk
    BY NullIsNoNode
  <2> QED
    BY <1>1, <1>5, <2>1, <2>2, <2>3, Faults
<1>6. CASE s.fault = "none" /\ s.ret \in {0, 2} /\ s.node \in t.live
  <2>1. s.node \in Dirs /\ s.node # NULL /\ "flag" \notin t.type[s.node]
    BY <1>1, <1>6, NullIsNoNode DEF OnWay, Standing, Trees
  <2>2. CASE "dir" \notin t.type[s.node]
    <3>1. PICK e : e = [s EXCEPT !.ret = 1]
      OBVIOUS
    <3>2. Turn(t, s, name) = e
      BY <1>6, <2>2, <3>1 DEF Turn
    <3>3. e \in LookStates /\ e.ret = 1 /\ e.node = s.node /\ e.fault = "none"
      BY <1>1, <1>6, <3>1 DEF LookStates
    <3>4. Standing(t, e, k + 1)
      BY <1>6, <2>1, <3>3 DEF Standing
    <3> QED
      BY <3>2, <3>3, <3>4 DEF OnWay
  <2>3. CASE "dir" \in t.type[s.node] /\ name = Upper
    <3>1. PICK n : n = IF "shared" \in t.type[s.node] THEN home ELSE t.parent[s.node]
      OBVIOUS
    <3>2. Turn(t, s, name) = Arrive(t, s, 2, n)
      BY <1>6, <2>3, <3>1 DEF Turn
    <3>3. n \in Dirs \union {NULL} /\ (n = NULL => h = NULL)
      <4>1. home \in Dirs \union {NULL} /\ t.parent[s.node] \in Dirs
        BY <1>1, <2>1 DEF Shape, Trees
      <4> QED
        BY <3>1, <4>1, NullIsNoNode
    <3>4. CASE n \notin t.live
      <4>1. Arrive(t, s, 2, n) = [s EXCEPT !.fault = FaultAt(n)]
        BY <3>4 DEF Arrive
      <4>2. n # Junk
        BY <3>3, NullIsNoNode
      <4> QED
        BY <1>1, <3>2, <3>3, <3>4, <4>1, <4>2, Faults
    <3>5. CASE n \in t.live
      <4>1. "flag" \notin t.type[n]
        <5>1. n = home \/ n = t.parent[s.node]
          BY <3>1
        <5>2. n \in Dirs
          BY <1>1, <3>5 DEF Trees
        <5> QED
          BY <1>6, <5>1, <5>2 DEF Shape, Flags
      <4>2. PICK e : e = [s EXCEPT !.ret = 2, !.node = n]
        OBVIOUS
      <4>3. Arrive(t, s, 2, n) = e
        <5>1. ~({"dir", "flag"} \subseteq t.type[n])
          BY <4>1
        <5> QED
          BY <3>5, <4>2, <5>1 DEF Arrive
      <4>4. e \in LookStates /\ e.ret = 2 /\ e.node = n /\ e.fault = "none"
        <5>1. 2 \in 0..4 /\ 0 \in Nat
          OBVIOUS
        <5>2. e = [ret |-> 2, node |-> n, name |-> s.name, index |-> s.index, fault |-> "none"]
          <6>1. e = GoTo(s, 2, n)
            BY <4>2 DEF GoTo
          <6> QED
            BY <1>1, <1>2, <1>6, <3>3, <5>1, <6>1, Updated
        <5> QED
          BY <1>2, <3>3, <5>2 DEF LookStates
      <4>5. Standing(t, e, k + 1)
        BY <3>5, <4>1, <4>4 DEF Standing
      <4> QED
        BY <3>2, <4>3, <4>4, <4>5 DEF OnWay
    <3> QED
      BY <3>4, <3>5
  <2>4. CASE "dir" \in t.type[s.node] /\ name # Upper /\ t.child[s.node] = <<>>
    <3>1. PICK e : e = [s EXCEPT !.ret = 3, !.index = 1, !.name = name]
      OBVIOUS
    <3>2. Turn(t, s, name) = e
      BY <1>6, <2>4, <3>1 DEF Turn
    <3>3. e \in LookStates /\ e.ret = 3 /\ e.node = s.node /\ e.fault = "none" /\ e.index = 1 /\ e.name = name
      <4>1. 3 \in 0..4 /\ 1 \in Nat
        OBVIOUS
      <4>2. e = [ret |-> 3, node |-> s.node, name |-> name, index |-> 1, fault |-> "none"]
        <5>1. PICK r, i : r = 3 /\ i = 1
          OBVIOUS
        <5>2. r \in 0..4 /\ i \in Nat /\ name \in Names
          BY <4>1, <5>1
        <5>3. e = Miss(s, r, i, name)
          BY <3>1, <5>1 DEF Miss
        <5>4. e = [ret |-> r, node |-> s.node, name |-> name, index |-> i, fault |-> s.fault]
          BY <1>1, <5>2, <5>3, Missed
        <5> QED
          BY <1>6, <5>1, <5>4
      <4> QED
        BY <1>2, <4>2 DEF LookStates
    <3>4. MayMake(t, e.node, e.index, e.name)
      BY <1>6, <2>4, <3>3 DEF MayMake
    <3>5. Standing(t, e, k + 1)
      BY <1>6, <2>1, <3>3, <3>4 DEF Standing
    <3> QED
      BY <3>2, <3>3, <3>5 DEF OnWay
  <2>5. CASE "dir" \in t.type[s.node] /\ name # Upper /\ t.child[s.node] # <<>>
    <3>1. PICK d, len, i, n : d = s.node /\ len = Len(t.child[d]) /\ i = Binary(t, d, name) /\ n = t.child[d][i]
      OBVIOUS
    <3>2. t.child[d] \in Seq(Nodes \union {Junk})
      BY <1>1, <2>1, <3>1 DEF Trees
    <3>3. len \in Nat \ {0} /\ DOMAIN t.child[d] = 1..len
      BY <2>5, <3>1, <3>2
    <3>4. /\ i \in 1..len
          /\ i < len => Stops(t, d, name, i)
          /\ len > 1 /\ Stops(t, d, name, len - 1) => i < len
      BY <3>1, <3>3, BinaryIs
    <3>5. n \in Nodes \union {Junk}
      BY <3>1, <3>2, <3>3, <3>4
    <3>6. CASE n \notin t.live
      <4>1. Turn(t, s, name) = [s EXCEPT !.fault = FaultAt(n)]
        BY <1>6, <2>5, <3>1, <3>6 DEF Turn
      <4>2. n = Junk => JunkThere(t)
        BY <2>1, <3>1, <3>3, <3>4 DEF JunkThere, ToSet
      <4>3. n # NULL /\ n \in Dirs \union {NULL, Junk}
        BY <3>5, NullIsNoNode DEF Dirs
      <4>4. OnWay(t, h, [s EXCEPT !.fault = FaultAt(n)], k + 1)
        <5>1. n = NULL => h = NULL \/ FlagThere(t)
          BY <4>3
        <5>2. t \in Trees /\ n \in Dirs \union {NULL, Junk}
          BY <1>1, <4>3
        <5> QED
          BY <3>6, <4>2, <5>1, <5>2, Faults
      <4> QED
        BY <4>1, <4>4
    <3>7. CASE n \in t.live /\ t.name[n] # name
      <4>1. PICK e : e = [s EXCEPT !.ret = 3, !.index = i, !.name = name]
        OBVIOUS
      <4>2. Turn(t, s, name) = e
        BY <1>6, <2>5, <3>1, <3>7, <4>1 DEF Turn
      <4>3. e \in LookStates /\ e.ret = 3 /\ e.node = d /\ e.fault = "none" /\ e.index = i /\ e.name = name
        <5>1. 3 \in 0..4 /\ i \in Nat
          BY <3>3, <3>4
        <5>2. e = [ret |-> 3, node |-> s.node, name |-> name, index |-> i, fault |-> "none"]
          <6>1. e = Miss(s, 3, i, name)
            BY <4>1 DEF Miss
          <6> QED
            BY <1>1, <1>2, <1>6, <5>1, <6>1, Missed
        <5> QED
          BY <1>2, <3>1, <5>1, <5>2 DEF LookStates
      <4>4. ~Stops(t, d, name, i)
        BY <3>1, <3>7 DEF Stops
      <4>5. i = len
        BY <3>3, <3>4, <4>4
      <4>6. ASSUME NEW j \in 1..len, j >= i - 1
            PROVE  ~Stops(t, d, name, j)
        BY <3>3, <3>4, <4>4, <4>5, <4>6
      <4>7. MayMake(t, d, i, name)
        <5>1. \A j \in DOMAIN t.child[d] :
                  j >= i - 1 => t.child[d][j] \in t.live /\ t.name[t.child[d][j]] # name
          BY <3>3, <4>6 DEF Stops
        <5> QED
          BY <1>6, <2>5, <3>1, <4>5, <5>1 DEF MayMake
      <4>8. Standing(t, e, k + 1)
        BY <1>6, <2>1, <3>1, <4>3, <4>7 DEF Standing
      <4> QED
        BY <4>2, <4>3, <4>8 DEF OnWay
    <3>8. CASE n \in t.live /\ t.name[n] = name
      <4>1. PICK e : e = [s EXCEPT !.index = i, !.ret = 0,
                             !.node = IF {"dir", "flag"} \subseteq t.type[n] THEN NULL ELSE n]
        OBVIOUS
      <4>2. Turn(t, s, name) = e
        <5>1. Turn(t, s, name) = Arrive(t, [s EXCEPT !.index = i], 0, n)
          BY <1>6, <2>5, <3>1, <3>8 DEF Turn
        <5> QED
          BY <1>1, <3>8, <4>1, <5>1 DEF Arrive, shared_dir, LookStates
      <4>3. n \in Dirs /\ n # Root
        BY <3>5, <3>8, NullIsNoNode, <1>1 DEF Dirs, Trees
      <4>4. /\ e \in LookStates /\ e.ret = 0 /\ e.fault = "none" /\ e.index = i
            /\ e.node = IF {"dir", "flag"} \subseteq t.type[n] THEN NULL ELSE n
        <5>1. PICK m : m = IF {"dir", "flag"} \subseteq t.type[n] THEN NULL ELSE n
          OBVIOUS
        <5>2. 0 \in 0..4 /\ i \in Nat /\ m \in Dirs \union {NULL}
          BY <3>3, <3>4, <4>3, <5>1
        <5>3. e = [s EXCEPT !.index = i, !.ret = 0, !.node = m]
          BY <4>1, <5>1
        <5>4. e = [ret |-> 0, node |-> m, name |-> s.name, index |-> i, fault |-> "none"]
          <6>1. e = Enter(s, i, 0, m)
            BY <5>3 DEF Enter
          <6> QED
            BY <1>1, <1>2, <1>6, <5>2, <6>1, Updated
        <5> QED
          BY <1>2, <5>1, <5>2, <5>4 DEF LookStates
      <4>5. Placed(t, n, i)
        <5>1. t.parent[n] = d
          BY <2>1, <3>1, <3>3, <3>4, <3>8 DEF Shape, Housed
        <5> QED
          BY <3>1, <3>3, <3>4, <3>8, <4>3, <5>1 DEF Placed
      <4>6. CASE {"dir", "flag"} \subseteq t.type[n]
        <5>1. e.node = NULL /\ FlagThere(t)
          BY <3>8, <4>4, <4>6 DEF FlagThere
        <5> QED
          BY <4>2, <4>4, <5>1 DEF OnWay, Standing
      <4>7. CASE ~({"dir", "flag"} \subseteq t.type[n])
        <5>1. "flag" \notin t.type[n]
          BY <4>3, <4>7 DEF Shape, Flags
        <5>2. e.node = n
          BY <4>4, <4>7
        <5>3. Standing(t, e, k + 1)
          BY <3>8, <4>4, <4>5, <5>1, <5>2 DEF Standing
        <5> QED
          BY <4>2, <4>4, <5>3 DEF OnWay
      <4> QED
        BY <4>6, <4>7
    <3> QED
      BY <3>6, <3>7, <3>8
  <2> QED
    BY <2>2, <2>3, <2>4, <2>5
<1> QED
  BY <1>2, <1>3, <1>4, <1>5, <1>6
(* The files in the arrays are there. *)
Whole(t) ==
    \A d \in t.live : ToSet(t.child[d]) \subseteq t.live \union {Junk}

(* A holds what can be reached, downward and upward. *)
Encloses(A, t, c, h) ==
    /\ A \subseteq t.live /\ Root \in A /\ c \in A /\ h \in A \union {NULL}
    /\ \A n \in A : t.parent[n] \in A
    /\ \A n \in A : ToSet(t.child[n]) \cap t.live \subseteq A

Inside(A, s) == s.fault # "freed" /\ s.node \in A \union {NULL}

LEMMA ArriveInside ==
  ASSUME NEW A, NEW t, A \subseteq t.live, t.live \subseteq Dirs, NEW s \in LookStates, Inside(A, s), NEW ret \in 0..4,
         NEW n \in A \union {NULL, Junk}
  PROVE  Inside(A, Arrive(t, s, ret, n))
<1>1. CASE n \notin t.live
  <2>1. FaultAt(n) # "freed"
    BY <1>1 DEF FaultAt
  <2>2. PICK e : e = [s EXCEPT !.fault = FaultAt(n)]
    OBVIOUS
  <2>3. e.fault = FaultAt(n) /\ e.node = s.node
    BY <2>2 DEF LookStates
  <2> QED
    BY <1>1, <2>1, <2>2, <2>3 DEF Arrive, Inside
<1>2. CASE n \in t.live
  <2>1. PICK m : m = IF {"dir", "flag"} \subseteq t.type[n] THEN shared_dir ELSE n
    OBVIOUS
  <2>2. m \in A \union {NULL}
    <3>1. n \in A \/ n = NULL \/ n = Junk
      OBVIOUS
    <3>2. NULL \notin Dirs /\ Junk \notin Dirs
      BY NullIsNoNode
    <3>3. n = Junk => Junk \in t.live
      BY <1>2
    <3> QED
      BY <2>1, <3>1, <3>2, <3>3, <1>2 DEF shared_dir
  <2>3. PICK f : f = [s EXCEPT !.ret = ret]
    OBVIOUS
  <2>4. f = [ret |-> ret, node |-> s.node, name |-> s.name, index |-> s.index, fault |-> s.fault]
    BY <2>3 DEF LookStates
  <2>5. PICK e : e = [f EXCEPT !.node = m]
    OBVIOUS
  <2>6. e.node = m /\ e.fault = s.fault
    BY <2>4, <2>5
  <2>7. Arrive(t, s, ret, n) = e
    BY <1>2, <2>1, <2>3, <2>5 DEF Arrive
  <2> QED
    BY <2>2, <2>6, <2>7 DEF Inside
<1> QED
  BY <1>1, <1>2

LEMMA TurnInside ==
  ASSUME NEW A, NEW t, NEW c, NEW h, Shape(t, c, h), h = home, Whole(t), Encloses(A, t, c, h),
         NEW s \in LookStates, Inside(A, s), NEW name \in Names
  PROVE  Inside(A, Turn(t, s, name))
<1>1. t \in Trees /\ A \subseteq t.live /\ t.live \subseteq Dirs
  BY DEF Shape, Encloses, Trees
<1>2. s.ret \in 0..4 /\ s.node \in Dirs \union {NULL} /\ s.index \in Nat /\ s.name \in Names
  BY DEF LookStates
<1>3. CASE s.fault # "none" \/ s.ret \in {1, 4}
  BY <1>3 DEF Turn
<1>4. CASE s.fault = "none" /\ s.ret = 3
  <2>1. PICK e : e = [s EXCEPT !.ret = 4]
    OBVIOUS
  <2>2. Turn(t, s, name) = e
    BY <1>4, <2>1 DEF Turn
  <2>3. e.node = s.node /\ e.fault = s.fault
    BY <2>1 DEF LookStates
  <2> QED
    BY <2>2, <2>3 DEF Inside
<1>5. CASE s.fault = "none" /\ s.ret \in {0, 2} /\ s.node \notin t.live
  <2>1. PICK e : e = [s EXCEPT !.fault = FaultAt(s.node)]
    OBVIOUS
  <2>2. Turn(t, s, name) = e
    BY <1>5, <2>1 DEF Turn
  <2>3. e.node = s.node /\ e.fault = FaultAt(s.node)
    BY <2>1 DEF LookStates
  <2>4. s.node = NULL
    BY <1>1, <1>5 DEF Inside
  <2> QED
    BY <2>2, <2>3, <2>4 DEF Inside, FaultAt
<1>6. CASE s.fault = "none" /\ s.ret \in {0, 2} /\ s.node \in t.live
  <2>1. s.node \in A /\ s.node \in Dirs
    <3>1. s.node # NULL
      BY <1>1, <1>6, NullIsNoNode
    <3> QED
      BY <1>1, <1>6, <3>1 DEF Inside
  <2>2. CASE "dir" \notin t.type[s.node]
    <3>1. PICK e : e = [s EXCEPT !.ret = 1]
      OBVIOUS
    <3>2. Turn(t, s, name) = e
      BY <1>6, <2>2, <3>1 DEF Turn
    <3>3. e.node = s.node /\ e.fault = s.fault
      BY <3>1 DEF LookStates
    <3> QED
      BY <3>2, <3>3 DEF Inside
  <2>3. CASE "dir" \in t.type[s.node] /\ name = Upper
    <3>1. PICK n : n = IF "shared" \in t.type[s.node] THEN home ELSE t.parent[s.node]
      OBVIOUS
    <3>2. Turn(t, s, name) = Arrive(t, s, 2, n)
      BY <1>6, <2>3, <3>1 DEF Turn
    <3>3. n \in A \union {NULL, Junk}
      BY <2>1, <3>1 DEF Encloses
    <3>4. 2 \in 0..4
      OBVIOUS
    <3> QED
      BY <1>1, <3>2, <3>3, <3>4, ArriveInside
  <2>4. CASE "dir" \in t.type[s.node] /\ name # Upper /\ t.child[s.node] = <<>>
    <3>1. PICK e : e = [s EXCEPT !.ret = 3, !.index = 1, !.name = name]
      OBVIOUS
    <3>2. Turn(t, s, name) = e
      BY <1>6, <2>4, <3>1 DEF Turn
    <3>3. PICK r, i : r = 3 /\ i = 1
      OBVIOUS
    <3>4. r \in 0..4 /\ i \in Nat /\ e = Miss(s, r, i, name)
      BY <3>1, <3>3 DEF Miss
    <3>5. e = [ret |-> r, node |-> s.node, name |-> name, index |-> i, fault |-> s.fault]
      BY <3>4, Missed
    <3> QED
      BY <3>2, <3>5 DEF Inside
  <2>5. CASE "dir" \in t.type[s.node] /\ name # Upper /\ t.child[s.node] # <<>>
    <3>1. PICK d, len, i, n : d = s.node /\ len = Len(t.child[d]) /\ i = Binary(t, d, name) /\ n = t.child[d][i]
      OBVIOUS
    <3>2. t.child[d] \in Seq(Nodes \union {Junk})
      BY <1>1, <2>1, <3>1 DEF Trees
    <3>3. len \in Nat \ {0} /\ DOMAIN t.child[d] = 1..len
      BY <2>5, <3>1, <3>2
    <3>4. i \in 1..len
      BY <3>1, <3>3, BinaryIs
    <3>5. n \in A \union {Junk}
      <4>1. n \in ToSet(t.child[d])
        BY <3>1, <3>3, <3>4 DEF ToSet
      <4>2. n \in t.live \union {Junk}
        BY <1>6, <3>1, <4>1 DEF Whole
      <4>3. n \in t.live => n \in A
        BY <2>1, <3>1, <4>1 DEF Encloses
      <4> QED
        BY <4>2, <4>3
    <3>6. CASE n \notin t.live
      <4>1. PICK e : e = [s EXCEPT !.fault = FaultAt(n)]
        OBVIOUS
      <4>2. Turn(t, s, name) = e
        BY <1>6, <2>5, <3>1, <3>6, <4>1 DEF Turn
      <4>3. e.node = s.node /\ e.fault = FaultAt(n)
        BY <4>1 DEF LookStates
      <4>4. n = Junk
        BY <1>1, <3>5, <3>6
      <4> QED
        BY <4>2, <4>3, <4>4 DEF Inside, FaultAt
    <3>7. CASE n \in t.live /\ t.name[n] # name
      <4>1. PICK e : e = [s EXCEPT !.ret = 3, !.index = i, !.name = name]
        OBVIOUS
      <4>2. Turn(t, s, name) = e
        BY <1>6, <2>5, <3>1, <3>7, <4>1 DEF Turn
      <4>3. PICK r : r = 3
        OBVIOUS
      <4>4. r \in 0..4 /\ i \in Nat /\ e = Miss(s, r, i, name)
        BY <3>3, <3>4, <4>1, <4>3 DEF Miss
      <4>5. e = [ret |-> r, node |-> s.node, name |-> name, index |-> i, fault |-> s.fault]
        BY <4>4, Missed
      <4> QED
        BY <4>2, <4>5 DEF Inside
    <3>8. CASE n \in t.live /\ t.name[n] = name
      <4>1. PICK e : e = [s EXCEPT !.index = i]
        OBVIOUS
      <4>2. Turn(t, s, name) = Arrive(t, e, 0, n)
        BY <1>6, <2>5, <3>1, <3>8, <4>1 DEF Turn
      <4>3. e = [ret |-> s.ret, node |-> s.node, name |-> s.name, index |-> i, fault |-> s.fault]
        BY <4>1 DEF LookStates
      <4>4. e \in LookStates
        BY <1>2, <1>6, <3>3, <3>4, <4>3 DEF LookStates
      <4>5. Inside(A, e)
        BY <4>3 DEF Inside
      <4>6. n \in A \union {NULL, Junk} /\ 0 \in 0..4
        BY <3>5
      <4> QED
        BY <1>1, <4>2, <4>4, <4>5, <4>6, ArriveInside
    <3> QED
      BY <3>6, <3>7, <3>8
  <2> QED
    BY <2>2, <2>3, <2>4, <2>5
<1> QED
  BY <1>2, <1>3, <1>4, <1>5, <1>6
-----------------------------------------------------------------------------
(* What get_ns_node() returns. *)
LEMMA StartOnWay ==
  ASSUME NEW t, NEW h, Shape(t, cwd, h), NEW p, IsPath(p)
  PROVE  /\ OnWay(t, h, StartOf(t, p), 0)
         /\ \A A : Encloses(A, t, cwd, h) => Inside(A, StartOf(t, p))
<1>1. PICK s, n : s = StartOf(t, p) /\ n = IF p.abs THEN Root ELSE cwd
  OBVIOUS
<1>2. s = [ret |-> 0, node |-> n, name |-> Upper, index |-> IF p.abs THEN 2 ELSE 1,
           fault |-> IF n \in t.live THEN "none" ELSE "freed"]
  BY <1>1 DEF StartOf
<1>3. n \in Dirs /\ n \in {Root, cwd} /\ t.live \subseteq Dirs
  BY <1>1 DEF Shape, Dirs, Trees
<1>4. s \in LookStates
  <2>1. Upper \in Names
    BY DEF Names
  <2>2. (IF p.abs THEN 2 ELSE 1) \in Nat
    OBVIOUS
  <2>3. 0 \in 0..4
    OBVIOUS
  <2> QED
    BY <1>2, <1>3, <2>1, <2>2, <2>3 DEF LookStates
<1>5. s.fault \in {"none", "freed"} /\ (s.fault = "none" => n \in t.live)
  BY <1>2
<1>6. "flag" \notin t.type[n]
  <2>1. Root \in Dirs /\ cwd \in Dirs
    BY DEF Shape, Dirs
  <2> QED
    BY <1>3, <2>1 DEF Shape, Flags
<1>7. s.node = n /\ s.ret = 0
  BY <1>2
<1>8. s.fault = "none" => Standing(t, s, 0)
  BY <1>5, <1>6, <1>7 DEF Standing
<1>9. OnWay(t, h, s, 0)
  BY <1>4, <1>5, <1>8 DEF OnWay
<1>10. ASSUME NEW A, Encloses(A, t, cwd, h) PROVE Inside(A, s)
  <2>1. n \in A /\ n \in t.live
    BY <1>3, <1>10 DEF Encloses
  <2> QED
    BY <1>2, <2>1 DEF Inside
<1> QED
  BY <1>1, <1>9, <1>10

LEMMA LookupFinds ==
  ASSUME NEW t, Shape(t, cwd, home), NEW p, IsPath(p)
  PROVE  /\ OnWay(t, home, get_ns_node(t, p), Len(p.comps))
         /\ \A A : Whole(t) /\ Encloses(A, t, cwd, home) => Inside(A, get_ns_node(t, p))
<1>1. PICK a : Turns(a, t, p) /\ get_ns_node(t, p) = EndOf(a[Len(p.comps)], p.slash)
  BY LookupTurns
<1>2. PICK N \in Nat : N = Len(p.comps)
  BY DEF IsPath
<1>3. ASSUME NEW k \in 1..N PROVE p.comps[k] \in Names /\ a[k] = Turn(t, a[k - 1], p.comps[k])
  BY <1>1, <1>2 DEF IsPath, Turns
<1> DEFINE Good == {k \in Nat : k <= N =>
                      /\ OnWay(t, home, a[k], k)
                      /\ \A A : Whole(t) /\ Encloses(A, t, cwd, home) => Inside(A, a[k])}
<1>4. 0 \in Good
  <2>1. a[0] = StartOf(t, p)
    BY <1>1 DEF Turns
  <2>2. /\ OnWay(t, home, a[0], 0)
        /\ \A A : Encloses(A, t, cwd, home) => Inside(A, a[0])
    BY <2>1, StartOnWay
  <2> QED
    BY <2>2
<1>5. ASSUME NEW k \in Nat, k \in Good PROVE k + 1 \in Good
  <2> SUFFICES ASSUME k + 1 <= N
               PROVE  /\ OnWay(t, home, a[k + 1], k + 1)
                      /\ \A A : Whole(t) /\ Encloses(A, t, cwd, home) => Inside(A, a[k + 1])
    OBVIOUS
  <2>1. PICK m, name, s : m = k + 1 /\ name = p.comps[m] /\ s = a[k]
    OBVIOUS
  <2>2. m \in 1..N /\ m - 1 = k
    BY <1>2, <2>1
  <2>3. a[m] = Turn(t, s, name) /\ name \in Names
    BY <1>3, <2>1, <2>2
  <2>4. OnWay(t, home, s, k)
    BY <1>2, <1>5, <2>1
  <2>5. OnWay(t, home, a[m], k + 1)
    BY <2>3, <2>4, TurnOnWay
  <2>6. ASSUME NEW A, Whole(t), Encloses(A, t, cwd, home) PROVE Inside(A, a[m])
    <3>1. Inside(A, s)
      BY <1>2, <1>5, <2>1, <2>6
    <3>2. s \in LookStates
      BY <2>4 DEF OnWay
    <3> QED
      BY <2>3, <2>6, <3>1, <3>2, TurnInside
  <2> QED
    BY <2>1, <2>5, <2>6
<1>6. N \in Good
  <2> HIDE DEF Good
  <2> QED
    BY <1>4, <1>5, Induction
<1>7. PICK s, r : s = a[N] /\ r = get_ns_node(t, p)
  OBVIOUS
<1>8. /\ OnWay(t, home, s, N)
      /\ \A A : Whole(t) /\ Encloses(A, t, cwd, home) => Inside(A, s)
  BY <1>6, <1>7
<1>9. r = EndOf(s, p.slash)
  BY <1>1, <1>2, <1>7
<1>10. CASE ~(s.ret = 3 /\ p.slash)
  BY <1>2, <1>7, <1>8, <1>9, <1>10 DEF EndOf
<1>11. CASE s.ret = 3 /\ p.slash
  <2>1. r = [s EXCEPT !.ret = 4] /\ s \in LookStates
    BY <1>8, <1>9, <1>11 DEF EndOf, OnWay
  <2>2. r \in LookStates /\ r.ret = 4 /\ r.node = s.node /\ r.fault = s.fault
    BY <2>1 DEF LookStates
  <2>3. OnWay(t, home, r, N)
    <3>1. s.fault = "none" => Standing(t, s, N)
      BY <1>8 DEF OnWay
    <3>2. s.fault = "none" => Standing(t, r, N)
      BY <1>11, <2>2, <3>1 DEF Standing
    <3> QED
      BY <1>8, <2>2, <3>2 DEF OnWay
  <2>4. \A A : Whole(t) /\ Encloses(A, t, cwd, home) => Inside(A, r)
    BY <1>8, <2>2 DEF Inside
  <2> QED
    BY <1>2, <1>7, <2>3, <2>4
<1> QED
  BY <1>10, <1>11
-----------------------------------------------------------------------------
(* The arrays: a file more, at i, and a file less. *)
Inserted(q, S, s, i, e) ==
    /\ q \in Seq(S) /\ Len(q) = Len(s) + 1
    /\ \A j \in 1..(Len(s) + 1) : q[j] = IF j < i THEN s[j] ELSE IF j = i THEN e ELSE s[j - 1]

Shortened(q, S, s, i) ==
    /\ q \in Seq(S) /\ Len(q) = Len(s) - 1
    /\ \A j \in 1..(Len(s) - 1) : q[j] = IF j < i THEN s[j] ELSE s[j + 1]

LEMMA InsertedAt ==
  ASSUME NEW S, NEW s \in Seq(S), NEW i \in 1..(Len(s) + 1), NEW e \in S
  PROVE  Inserted(InsertAt(s, i, e), S, s, i, e)
<1>1. PICK n \in Nat : n = Len(s)
  OBVIOUS
<1>2. PICK a : a = SubSeq(s, 1, i - 1)
  OBVIOUS
<1>3. a \in Seq(S) /\ Len(a) = i - 1 /\ \A j \in 1..(i - 1) : a[j] = s[j]
  BY <1>2
<1>4. PICK b : b = SubSeq(s, i, Len(s))
  OBVIOUS
<1>5. b \in Seq(S) /\ Len(b) = n + 1 - i /\ \A j \in 1..(n + 1 - i) : b[j] = s[i + j - 1]
  BY <1>1, <1>4
<1>6. PICK c : c = a \o <<e>>
  OBVIOUS
<1>7. c \in Seq(S) /\ Len(c) = i /\ \A j \in 1..i : c[j] = IF j < i THEN s[j] ELSE e
  BY <1>3, <1>6
<1>8. InsertAt(s, i, e) = c \o b
  BY <1>2, <1>4, <1>6 DEF InsertAt
<1>9. PICK d : d = c \o b
  OBVIOUS
<1>10. d \in Seq(S) /\ Len(d) = n + 1
  BY <1>1, <1>5, <1>7, <1>9
<1>11. ASSUME NEW j \in 1..(n + 1)
       PROVE  d[j] = IF j < i THEN s[j] ELSE IF j = i THEN e ELSE s[j - 1]
  <2>1. CASE j <= i
    <3>1. d[j] = c[j]
      BY <1>1, <1>5, <1>7, <1>9, <2>1
    <3> QED
      BY <1>7, <2>1, <3>1
  <2>2. CASE j > i
    <3>1. d[j] = b[j - i]
      BY <1>1, <1>5, <1>7, <1>9, <2>2
    <3>2. j - i \in 1..(n + 1 - i) /\ i + (j - i) - 1 = j - 1
      BY <1>1, <2>2
    <3> QED
      BY <1>5, <2>2, <3>1, <3>2
  <2> QED
    BY <1>1, <2>1, <2>2
<1> QED
  BY <1>1, <1>8, <1>9, <1>10, <1>11 DEF Inserted

LEMMA RemovedAt ==
  ASSUME NEW S, NEW s \in Seq(S), NEW i \in 1..Len(s)
  PROVE  Shortened(RemoveAt(s, i), S, s, i)
<1>1. PICK n \in Nat : n = Len(s)
  OBVIOUS
<1>2. PICK a : a = SubSeq(s, 1, i - 1)
  OBVIOUS
<1>3. a \in Seq(S) /\ Len(a) = i - 1 /\ \A j \in 1..(i - 1) : a[j] = s[j]
  BY <1>2
<1>4. PICK b : b = SubSeq(s, i + 1, Len(s))
  OBVIOUS
<1>5. b \in Seq(S) /\ Len(b) = n - i /\ \A j \in 1..(n - i) : b[j] = s[i + j]
  <2>1. PICK k \in Nat : k = i + 1 /\ k \in 1..(n + 1)
    BY <1>1
  <2>2. b = SubSeq(s, k, n)
    BY <1>1, <1>4, <2>1
  <2>3. b \in Seq(S) /\ Len(b) = n + 1 - k /\ \A j \in 1..(n + 1 - k) : b[j] = s[k + j - 1]
    BY <1>1, <2>1, <2>2
  <2>4. n + 1 - k = n - i /\ \A j \in 1..(n - i) : k + j - 1 = i + j
    BY <1>1, <2>1
  <2> QED
    BY <2>3, <2>4
<1>6. RemoveAt(s, i) = a \o b
  BY <1>2, <1>4 DEF RemoveAt
<1>7. PICK d : d = a \o b
  OBVIOUS
<1>8. d \in Seq(S) /\ Len(d) = n - 1
  BY <1>1, <1>3, <1>5, <1>7
<1>9. ASSUME NEW j \in 1..(n - 1)
       PROVE  d[j] = IF j < i THEN s[j] ELSE s[j + 1]
  <2>1. CASE j < i
    BY <1>1, <1>3, <1>5, <1>7, <2>1
  <2>2. CASE ~(j < i)
    <3>1. d[j] = b[j - (i - 1)]
      BY <1>1, <1>3, <1>5, <1>7, <2>2
    <3>2. j - (i - 1) \in 1..(n - i) /\ i + (j - (i - 1)) = j + 1
      BY <1>1, <2>2
    <3> QED
      BY <1>5, <2>2, <3>1, <3>2
  <2> QED
    BY <2>1, <2>2
<1> QED
  BY <1>1, <1>6, <1>7, <1>8, <1>9 DEF Shortened

LEMMA RemovedFromNone ==
  ASSUME NEW i, i = 1
  PROVE  RemoveAt(<<>>, i) = <<>>
BY DEF RemoveAt
-----------------------------------------------------------------------------
(* The trees that mkfile() leaves. *)
IsFresh(t, c, h, new) ==
    /\ new \in Nodes /\ new \notin t.live /\ new # c /\ new # h
    /\ \A n \in t.live : t.parent[n] # new /\ new \notin ToSet(t.child[n])

Made(t, u, d, i, name, type, new) ==
    u = [live |-> t.live \union {new},
         name |-> [t.name EXCEPT ![new] = name],
         type |-> [t.type EXCEPT ![new] = type],
         parent |-> [t.parent EXCEPT ![new] = d],
         child |-> [t.child EXCEPT ![d] = InsertAt(@, i, new), ![new] = <<>>]]

Lengthened(t, u, d) == u = [t EXCEPT !.child[d] = Append(@, Junk)]

LEMMA MkfileIs ==
  ASSUME NEW t, Shape(t, cwd, home), NEW p, IsPath(p), NEW type, NEW new, NEW u, NEW r,
         u = AfterMkfile(t, p, type, new), r = get_ns_node(t, p)
  PROVE  \/ /\ u = t
            /\ r.fault # "none" \/ r.ret # 3 \/ new = NULL
         \/ /\ r.fault = "none" /\ r.ret = 3 /\ r.node \in t.live /\ "flag" \notin t.type[r.node]
            /\ MayMake(t, r.node, r.index, r.name) /\ r.name \in Names
            /\ \/ new = Junk /\ Lengthened(t, u, r.node)
               \/ new \notin {NULL, Junk} /\ Made(t, u, r.node, r.index, r.name, type, new)
<1>1. CASE r.fault # "none" \/ r.ret # 3 \/ new = NULL
  BY <1>1 DEF AfterMkfile
<1>2. CASE r.fault = "none" /\ r.ret = 3 /\ new # NULL
  <2>1. PICK k : OnWay(t, home, r, k)
    BY LookupFinds
  <2>2. Standing(t, r, k) /\ r.name \in Names
    BY <1>2, <2>1 DEF OnWay, LookStates
  <2>3. MayMake(t, r.node, r.index, r.name)
    BY <1>2, <2>2 DEF Standing
  <2>4. r.node \in t.live
    BY <2>3 DEF MayMake
  <2>5. "flag" \notin t.type[r.node]
    <3>1. r.node # NULL
      BY <2>4, NullIsNoNode DEF Shape, Trees
    <3> QED
      BY <2>2, <3>1 DEF Standing
  <2>6. CASE new = Junk
    BY <1>2, <2>2, <2>3, <2>4, <2>5, <2>6 DEF AfterMkfile, Lengthened
  <2>7. CASE new # Junk
    BY <1>2, <2>2, <2>3, <2>4, <2>5, <2>7 DEF AfterMkfile, Made, PlaceOf
  <2> QED
    BY <2>6, <2>7
<1> QED
  BY <1>1, <1>2

(* The fields of the new tree. *)
MadeIs(t, u, d, i, name, type, new) ==
    /\ u \in Trees
    /\ u.live = t.live \union {new}
    /\ u.name[new] = name /\ u.type[new] = type /\ u.parent[new] = d /\ u.child[new] = <<>>
    /\ \A n \in Dirs \ {new} :
          u.name[n] = t.name[n] /\ u.type[n] = t.type[n] /\ u.parent[n] = t.parent[n]
    /\ \A n \in Dirs \ {new, d} : u.child[n] = t.child[n]
    /\ Len(u.child[d]) = Len(t.child[d]) + 1
    /\ \A j \in 1..(Len(t.child[d]) + 1) :
          u.child[d][j] = IF j < i THEN t.child[d][j]
                          ELSE IF j = i THEN new ELSE t.child[d][j - 1]

LEMMA MadeFields ==
  ASSUME NEW t, t \in Trees, NEW d \in Dirs, NEW name \in Names, NEW type, type \subseteq Types,
         NEW new \in Nodes, d # new, NEW i, i \in 1..(Len(t.child[d]) + 1),
         NEW u, Made(t, u, d, i, name, type, new)
  PROVE  MadeIs(t, u, d, i, name, type, new)
<1> DEFINE S == Nodes \union {Junk}
<1>1. t.child \in [Dirs -> Seq(S)] /\ new \in Dirs
  BY DEF Trees, Dirs
<1>2. PICK q : q = InsertAt(t.child[d], i, new)
  OBVIOUS
<1>3. PICK s : s = t.child[d] /\ s \in Seq(S)
  BY <1>1
<1>4. /\ q \in Seq(S) /\ Len(q) = Len(s) + 1
      /\ \A j \in 1..(Len(s) + 1) : q[j] = IF j < i THEN s[j] ELSE IF j = i THEN new ELSE s[j - 1]
  <2>1. i \in 1..(Len(s) + 1) /\ new \in S
    BY <1>3
  <2>2. q = InsertAt(s, i, new)
    BY <1>2, <1>3
  <2>3. PICK T : T = S
    OBVIOUS
  <2>4. s \in Seq(T) /\ new \in T /\ i \in 1..(Len(s) + 1)
    BY <1>3, <2>1, <2>3
  <2>5. Inserted(q, T, s, i, new)
    BY <2>2, <2>4, InsertedAt
  <2> QED
    BY <2>3, <2>5 DEF Inserted
<1>5. PICK v : v = [t.child EXCEPT ![d] = q]
  OBVIOUS
<1>6. u.child = [v EXCEPT ![new] = <<>>]
  BY <1>2, <1>5 DEF Made
<1>7. v \in [Dirs -> Seq(S)] /\ v[d] = q /\ \A n \in Dirs \ {d} : v[n] = t.child[n]
  <2> HIDE DEF S
  <2> QED
    BY <1>1, <1>4, <1>5
<1>8. /\ u.child \in [Dirs -> Seq(S)] /\ u.child[new] = <<>> /\ u.child[d] = q
      /\ \A n \in Dirs \ {new, d} : u.child[n] = t.child[n]
  <2>1. <<>> \in Seq(S)
    OBVIOUS
  <2> HIDE DEF S
  <2> QED
    BY <1>1, <1>6, <1>7, <2>1
<1>9. /\ u.live = t.live \union {new}
      /\ u.name = [t.name EXCEPT ![new] = name]
      /\ u.type = [t.type EXCEPT ![new] = type]
      /\ u.parent = [t.parent EXCEPT ![new] = d]
  BY DEF Made
<1>10. /\ u.live \subseteq Dirs /\ u.name \in [Dirs -> Names] /\ u.type \in [Dirs -> SUBSET Types]
       /\ u.parent \in [Dirs -> Dirs]
  BY <1>1, <1>9 DEF Trees
<1>11. u = [live |-> u.live, name |-> u.name, type |-> u.type, parent |-> u.parent, child |-> u.child]
  BY DEF Made
<1>12. u \in Trees
  BY <1>8, <1>10, <1>11 DEF Trees
<1>13. /\ u.name[new] = name /\ u.type[new] = type /\ u.parent[new] = d
       /\ \A n \in Dirs \ {new} :
               u.name[n] = t.name[n] /\ u.type[n] = t.type[n] /\ u.parent[n] = t.parent[n]
  BY <1>1, <1>9 DEF Trees
<1> QED
  BY <1>3, <1>4, <1>8, <1>9, <1>12, <1>13 DEF MadeIs

LEMMA LengthenedFields ==
  ASSUME NEW t, t \in Trees, NEW d \in Dirs, NEW u, Lengthened(t, u, d)
  PROVE  /\ u \in Trees
         /\ u.live = t.live /\ u.name = t.name /\ u.type = t.type /\ u.parent = t.parent
         /\ \A n \in Dirs \ {d} : u.child[n] = t.child[n]
         /\ Len(u.child[d]) = Len(t.child[d]) + 1
         /\ u.child[d][Len(t.child[d]) + 1] = Junk
         /\ \A j \in 1..Len(t.child[d]) : u.child[d][j] = t.child[d][j]
<1> DEFINE S == Nodes \union {Junk}
<1>1. t.child \in [Dirs -> Seq(S)]
  BY DEF Trees
<1>2. PICK q, s : s = t.child[d] /\ q = Append(s, Junk)
  OBVIOUS
<1>3. /\ q \in Seq(S) /\ Len(q) = Len(s) + 1 /\ q[Len(s) + 1] = Junk
      /\ \A j \in 1..Len(s) : q[j] = s[j]
  BY <1>1, <1>2
<1>4. PICK v : v = [t.child EXCEPT ![d] = q]
  OBVIOUS
<1>5. v \in [Dirs -> Seq(S)] /\ v[d] = q /\ \A n \in Dirs \ {d} : v[n] = t.child[n]
  <2> HIDE DEF S
  <2> QED
    BY <1>1, <1>3, <1>4
<1>6. u = [live |-> t.live, name |-> t.name, type |-> t.type, parent |-> t.parent, child |-> v]
  <2>1. t = [live |-> t.live, name |-> t.name, type |-> t.type, parent |-> t.parent, child |-> t.child]
    BY DEF Trees
  <2>2. u = [t EXCEPT !.child = v]
    BY <1>2, <1>4 DEF Lengthened
  <2> QED
    BY <2>1, <2>2
<1>7. u \in Trees
  BY <1>5, <1>6 DEF Trees
<1> QED
  BY <1>2, <1>3, <1>5, <1>6, <1>7
-----------------------------------------------------------------------------
(* The shape of the tree is kept. *)
Without(t, u, x, i) ==
    u = [live |-> t.live \ {x},
         name |-> [t.name EXCEPT ![x] = Upper],
         type |-> [t.type EXCEPT ![x] = {"dir"}],
         parent |-> [t.parent EXCEPT ![x] = Root],
         child |-> [t.child EXCEPT ![t.parent[x]] = RemoveAt(@, i), ![x] = <<>>]]

(* A place in the array of d from which a file is taken: an empty one stays so. *)
Takes(t, d, i) == i \in 1..Len(t.child[d]) \/ (t.child[d] = <<>> /\ i = 1)

WithoutIs(t, u, x, i) ==
    /\ u \in Trees
    /\ u.live = t.live \ {x}
    /\ u.type[x] = {"dir"} /\ u.parent[x] = Root /\ u.child[x] = <<>>
    /\ \A n \in Dirs \ {x} :
          u.name[n] = t.name[n] /\ u.type[n] = t.type[n] /\ u.parent[n] = t.parent[n]
    /\ \A n \in Dirs \ {x, t.parent[x]} : u.child[n] = t.child[n]
    /\ t.parent[x] # x =>
          \/ Shortened(u.child[t.parent[x]], Nodes \union {Junk}, t.child[t.parent[x]], i)
          \/ u.child[t.parent[x]] = <<>> /\ t.child[t.parent[x]] = <<>>

LEMMA WithoutFields ==
  ASSUME NEW t, t \in Trees, NEW x \in Dirs, NEW i, Takes(t, t.parent[x], i),
         NEW u, Without(t, u, x, i)
  PROVE  WithoutIs(t, u, x, i)
<1>1. PICK S : S = Nodes \union {Junk}
  OBVIOUS
<1>2. t.child \in [Dirs -> Seq(S)]
  BY <1>1 DEF Trees
<1>3. PICK d : d = t.parent[x] /\ d \in Dirs
  BY DEF Trees
<1>4. PICK s, q : s = t.child[d] /\ q = RemoveAt(s, i)
  OBVIOUS
<1>5. s \in Seq(S)
  BY <1>2, <1>3, <1>4
<1>6. q \in Seq(S) /\ (Shortened(q, S, s, i) \/ (q = <<>> /\ s = <<>>))
  <2>1. CASE i \in 1..Len(s)
    <3>1. Shortened(q, S, s, i)
      BY <1>4, <1>5, <2>1, RemovedAt
    <3> QED
      BY <3>1 DEF Shortened
  <2>2. CASE s = <<>> /\ i = 1
    <3>1. q = <<>>
      BY <1>4, <2>2, RemovedFromNone
    <3> QED
      BY <2>2, <3>1
  <2> QED
    BY <1>3, <1>4, <2>1, <2>2 DEF Takes
<1>7. PICK v : v = [t.child EXCEPT ![d] = q]
  OBVIOUS
<1>8. u.child = [v EXCEPT ![x] = <<>>]
  BY <1>3, <1>4, <1>7 DEF Without
<1>9. v \in [Dirs -> Seq(S)] /\ v[d] = q /\ \A n \in Dirs \ {d} : v[n] = t.child[n]
  BY <1>2, <1>3, <1>6, <1>7
<1>10. <<>> \in Seq(S)
  OBVIOUS
<1>11. /\ u.child \in [Dirs -> Seq(S)] /\ u.child[x] = <<>>
       /\ d # x => u.child[d] = q
       /\ \A n \in Dirs \ {x, d} : u.child[n] = t.child[n]
  BY <1>3, <1>8, <1>9, <1>10
<1>12. /\ u.live = t.live \ {x}
       /\ u.name = [t.name EXCEPT ![x] = Upper]
       /\ u.type = [t.type EXCEPT ![x] = {"dir"}]
       /\ u.parent = [t.parent EXCEPT ![x] = Root]
  BY DEF Without
<1>13. Upper \in Names /\ {"dir"} \in SUBSET Types /\ Root \in Dirs
  BY DEF Names, Types, Dirs
<1>14. /\ u.live \subseteq Dirs /\ u.name \in [Dirs -> Names] /\ u.type \in [Dirs -> SUBSET Types]
       /\ u.parent \in [Dirs -> Dirs]
  BY <1>12, <1>13 DEF Trees
<1>15. u = [live |-> u.live, name |-> u.name, type |-> u.type, parent |-> u.parent, child |-> u.child]
  BY DEF Without
<1>16. u \in Trees
  BY <1>1, <1>11, <1>14, <1>15 DEF Trees
<1>17. /\ u.type[x] = {"dir"} /\ u.parent[x] = Root
       /\ \A n \in Dirs \ {x} :
             u.name[n] = t.name[n] /\ u.type[n] = t.type[n] /\ u.parent[n] = t.parent[n]
  BY <1>12 DEF Trees
<1> QED
  BY <1>1, <1>3, <1>4, <1>6, <1>11, <1>12, <1>16, <1>17 DEF WithoutIs


(* The entries of the arrays of u are entries of the same arrays of t. *)
EntriesOf(t, u, x) ==
    \A m \in Dirs : \A j \in DOMAIN u.child[m] :
        m # x /\ \E k \in DOMAIN t.child[m] : u.child[m][j] = t.child[m][k]

LEMMA WithoutEntries ==
  ASSUME NEW t, NEW c, NEW h, Shape(t, c, h), NEW x \in t.live \ {Root}, NEW i,
         Takes(t, t.parent[x], i), NEW u, Without(t, u, x, i)
  PROVE  EntriesOf(t, u, x)
<1>1. t \in Trees /\ x \in Dirs /\ Root \in Dirs /\ Root # x
  BY DEF Shape, Trees, Dirs
<1>2. PICK d : d = t.parent[x] /\ d \in Dirs
  BY <1>1 DEF Trees
<1>3. /\ u \in Trees
      /\ u.live = t.live \ {x}
      /\ u.type[x] = {"dir"} /\ u.parent[x] = Root /\ u.child[x] = <<>>
      /\ \A n \in Dirs \ {x} :
            u.name[n] = t.name[n] /\ u.type[n] = t.type[n] /\ u.parent[n] = t.parent[n]
      /\ \A n \in Dirs \ {x, d} : u.child[n] = t.child[n]
      /\ d # x =>
            \/ Shortened(u.child[d], Nodes \union {Junk}, t.child[d], i)
            \/ u.child[d] = <<>> /\ t.child[d] = <<>>
  <2>1. WithoutIs(t, u, x, i)
    BY <1>1, WithoutFields
  <2> QED
    BY <1>2, <2>1 DEF WithoutIs
<1>4. t.child \in [Dirs -> Seq(Nodes \union {Junk})]
  BY <1>1 DEF Trees
<1>5. ASSUME NEW m \in Dirs, NEW j \in DOMAIN u.child[m]
      PROVE  m # x /\ \E k \in DOMAIN t.child[m] : u.child[m][j] = t.child[m][k]
  <2>1. m # x
    BY <1>3, <1>5
  <2>2. CASE m # d
    BY <1>3, <1>5, <2>1, <2>2
  <2>3. CASE m = d
    <3>1. u.child[d] # <<>>
      BY <1>5, <2>3
    <3>2. Shortened(u.child[d], Nodes \union {Junk}, t.child[d], i)
      BY <1>3, <2>1, <2>3, <3>1
    <3>3. PICK q, s : q = u.child[d] /\ s = t.child[d]
      OBVIOUS
    <3>4. s \in Seq(Nodes \union {Junk})
      BY <1>2, <1>4, <3>3
    <3>5. q \in Seq(Nodes \union {Junk}) /\ Len(q) = Len(s) - 1 /\ j \in 1..Len(q)
      BY <1>5, <2>3, <3>2, <3>3 DEF Shortened
    <3>6. q[j] = IF j < i THEN s[j] ELSE s[j + 1]
      BY <3>2, <3>3, <3>5 DEF Shortened
    <3>7. j \in 1..Len(s) /\ j + 1 \in 1..Len(s) /\ DOMAIN s = 1..Len(s)
      BY <3>4, <3>5
    <3> QED
      BY <2>1, <2>3, <3>3, <3>6, <3>7
  <2> QED
    BY <2>1, <2>2, <2>3
<1> QED
  BY <1>5 DEF EntriesOf

LEMMA WithoutShape ==
  ASSUME NEW t, NEW c, NEW h, Shape(t, c, h), NEW x \in t.live \ {Root}, NEW i,
         Takes(t, t.parent[x], i), NEW u, Without(t, u, x, i)
  PROVE  Shape(u, c, h)
<1>1. t \in Trees /\ x \in Dirs /\ Root \in Dirs /\ Root # x
  BY DEF Shape, Trees, Dirs
<1>2. PICK d : d = t.parent[x] /\ d \in Dirs
  BY <1>1 DEF Trees
<1>3. /\ u \in Trees
      /\ u.live = t.live \ {x}
      /\ u.type[x] = {"dir"} /\ u.parent[x] = Root /\ u.child[x] = <<>>
      /\ \A n \in Dirs \ {x} :
            u.name[n] = t.name[n] /\ u.type[n] = t.type[n] /\ u.parent[n] = t.parent[n]
      /\ \A n \in Dirs \ {x, d} : u.child[n] = t.child[n]
      /\ d # x =>
            \/ Shortened(u.child[d], Nodes \union {Junk}, t.child[d], i)
            \/ u.child[d] = <<>> /\ t.child[d] = <<>>
  <2>1. WithoutIs(t, u, x, i)
    BY <1>1, WithoutFields
  <2> QED
    BY <1>2, <2>1 DEF WithoutIs
<1>5. \A m \in Dirs : \A j \in DOMAIN u.child[m] :
         m # x /\ \E k \in DOMAIN t.child[m] : u.child[m][j] = t.child[m][k]
  <2>1. EntriesOf(t, u, x)
    BY WithoutEntries
  <2> QED
    BY <2>1 DEF EntriesOf
<1>6. Housed(u)
  <2>1. ASSUME NEW m \in Dirs \ u.live PROVE u.child[m] = <<>>
    <3>1. CASE m = x
      BY <1>3, <3>1
    <3>2. CASE m # x
      <4>1. t.child[m] = <<>>
        BY <1>3, <2>1, <3>2 DEF Shape, Housed
      <4>2. ASSUME u.child[m] # <<>> PROVE FALSE
        <5>1. u.child[m] \in Seq(Nodes \union {Junk})
          BY <1>3 DEF Trees
        <5>2. 1 \in DOMAIN u.child[m]
          BY <4>2, <5>1
        <5>3. \E k \in DOMAIN t.child[m] : TRUE
          BY <1>5, <5>2
        <5> QED
          BY <4>1, <5>3
      <4> QED
        BY <4>2
    <3> QED
      BY <3>1, <3>2
  <2>2. ASSUME NEW m \in Dirs, NEW j \in DOMAIN u.child[m], u.child[m][j] \in u.live
        PROVE  u.parent[u.child[m][j]] = m
    <3>1. PICK k \in DOMAIN t.child[m] : u.child[m][j] = t.child[m][k]
      BY <1>5
    <3>2. PICK n : n = u.child[m][j]
      OBVIOUS
    <3>3. n \in t.live \ {x} /\ n \in Dirs
      BY <1>1, <1>3, <2>2, <3>2 DEF Trees
    <3>4. t.parent[n] = m
      BY <3>1, <3>2, <3>3 DEF Shape, Housed
    <3> QED
      BY <1>3, <3>2, <3>3, <3>4
  <2> QED
    BY <2>1, <2>2 DEF Housed
<1>7. Flags(u, c, h)
  <2> SUFFICES ASSUME NEW n \in Dirs, "flag" \in u.type[n]
               PROVE  /\ "dir" \in u.type[n]
                      /\ n \in u.live \ {Root} /\ n # c /\ n # h /\ u.parent[n] # Root
                      /\ \A m \in u.live : u.parent[m] # n
    BY DEF Flags
  <2>1. n # x /\ "flag" \in t.type[n]
    BY <1>3
  <2>2. /\ "dir" \in t.type[n]
        /\ n \in t.live \ {Root} /\ n # c /\ n # h /\ t.parent[n] # Root
        /\ \A m \in t.live : t.parent[m] # n
    BY <2>1 DEF Shape, Flags
  <2>3. ASSUME NEW m \in u.live PROVE u.parent[m] # n
    <3>1. m \in t.live /\ m # x /\ m \in Dirs
      BY <1>1, <1>3 DEF Trees
    <3> QED
      BY <1>3, <2>2, <3>1
  <2> QED
    BY <1>3, <2>1, <2>2, <2>3
<1>8. \A n \in u.live \ {Root} : u.name[n] # Upper
  <2>1. u.live \subseteq Dirs
    BY <1>3 DEF Trees
  <2> QED
    BY <1>3, <2>1 DEF Shape
<1>9. /\ c \in Dirs /\ h \in Dirs \union {NULL}
      /\ Root \in u.live /\ u.parent[Root] = Root /\ "dir" \in u.type[Root]
  BY <1>1, <1>3 DEF Shape
<1> QED
  BY <1>3, <1>6, <1>7, <1>8, <1>9 DEF Shape

(* mkfile() makes a file in d, at i. *)
Making(t, c, h, d, i, name, type, new, u) ==
    /\ Shape(t, c, h) /\ name \in Names /\ MayMake(t, d, i, name) /\ "flag" \notin t.type[d]
    /\ type \in {{"reg"}, {"dir"}} /\ IsFresh(t, c, h, new)
    /\ Made(t, u, d, i, name, type, new)

LEMMA MakingIs ==
  ASSUME NEW t, NEW c, NEW h, NEW d, NEW i, NEW name, NEW type, NEW new, NEW u,
         Making(t, c, h, d, i, name, type, new, u)
  PROVE  /\ t \in Trees /\ Root \in Dirs /\ new \in Nodes /\ new \in Dirs /\ new # Root
         /\ d \in Dirs /\ d \in t.live /\ new \notin t.live /\ d # new /\ name # Upper
         /\ t.child[d] \in Seq(Nodes \union {Junk}) /\ i \in 1..(Len(t.child[d]) + 1)
         /\ MadeIs(t, u, d, i, name, type, new)
         /\ Inserted(u.child[d], Nodes \union {Junk}, t.child[d], i, new)
<1> USE DEF Making
<1>1. /\ t \in Trees /\ Root \in Dirs /\ new \in Nodes /\ new \in Dirs /\ new # Root
      /\ d \in Dirs /\ d \in t.live /\ new \notin t.live /\ d # new /\ name # Upper
  BY NullIsNoNode DEF Shape, Trees, Dirs, IsFresh, MayMake
<1>2. t.child[d] \in Seq(Nodes \union {Junk})
  BY <1>1 DEF Trees
<1>3. i \in 1..(Len(t.child[d]) + 1)
  <2>1. CASE t.child[d] = <<>>
    BY <2>1 DEF MayMake
  <2>2. CASE t.child[d] # <<>>
    <3>1. i = Len(t.child[d])
      BY <2>2 DEF MayMake
    <3> QED
      BY <1>2, <2>2, <3>1
  <2> QED
    BY <2>1, <2>2
<1>4. type \subseteq Types
  BY DEF Types
<1>5. MadeIs(t, u, d, i, name, type, new)
  BY <1>1, <1>3, <1>4, MadeFields
<1>6. Inserted(u.child[d], Nodes \union {Junk}, t.child[d], i, new)
  <2>1. u.child[d] \in Seq(Nodes \union {Junk})
    BY <1>1, <1>5 DEF MadeIs, Trees
  <2> QED
    BY <1>5, <2>1 DEF MadeIs, Inserted
<1> QED
  BY <1>1, <1>2, <1>3, <1>5, <1>6

LEMMA MadeShape ==
  ASSUME NEW t, NEW c, NEW h, NEW d, NEW i, NEW name, NEW type, NEW new, NEW u,
         Making(t, c, h, d, i, name, type, new, u)
  PROVE  Shape(u, c, h)
<1>1. /\ t \in Trees /\ Root \in Dirs /\ new \in Nodes /\ new \in Dirs /\ new # Root
      /\ d \in Dirs /\ d \in t.live /\ new \notin t.live /\ d # new /\ name # Upper
  BY MakingIs
<1>2. t.child[d] \in Seq(Nodes \union {Junk})
  BY MakingIs
<1>3. i \in 1..(Len(t.child[d]) + 1)
  BY MakingIs
<1>4. /\ Shape(t, c, h) /\ "flag" \notin t.type[d] /\ type \in {{"reg"}, {"dir"}}
      /\ IsFresh(t, c, h, new)
  BY DEF Making
<1>5. /\ u \in Trees
      /\ u.live = t.live \union {new}
      /\ u.name[new] = name /\ u.type[new] = type /\ u.parent[new] = d /\ u.child[new] = <<>>
      /\ \A n \in Dirs \ {new} :
            u.name[n] = t.name[n] /\ u.type[n] = t.type[n] /\ u.parent[n] = t.parent[n]
      /\ \A n \in Dirs \ {new, d} : u.child[n] = t.child[n]
      /\ Len(u.child[d]) = Len(t.child[d]) + 1
      /\ \A j \in 1..(Len(t.child[d]) + 1) :
            u.child[d][j] = IF j < i THEN t.child[d][j]
                            ELSE IF j = i THEN new ELSE t.child[d][j - 1]
  <2>1. MadeIs(t, u, d, i, name, type, new)
    BY MakingIs
  <2> QED
    BY <2>1 DEF MadeIs
<1>6. ASSUME NEW m \in Dirs, NEW j \in DOMAIN u.child[m], u.child[m][j] # new
      PROVE  m # new /\ \E k \in DOMAIN t.child[m] : u.child[m][j] = t.child[m][k]
  <2>1. m # new
    BY <1>5, <1>6
  <2>2. CASE m # d
    BY <1>5, <1>6, <2>1, <2>2
  <2>3. CASE m = d
    <3>1. u.child[d] \in Seq(Nodes \union {Junk})
      BY <1>1, <1>5 DEF Trees
    <3>2. j \in 1..(Len(t.child[d]) + 1)
      BY <1>5, <1>6, <2>3, <3>1
    <3>3. CASE j < i
      <4>1. u.child[d][j] = t.child[d][j] /\ j \in DOMAIN t.child[d]
        BY <1>2, <1>3, <1>5, <3>2, <3>3
      <4> QED
        BY <2>1, <2>3, <4>1
    <3>4. CASE ~(j < i)
      <4>1. j # i
        BY <1>5, <1>6, <2>3, <3>2
      <4>2. u.child[d][j] = t.child[d][j - 1] /\ j - 1 \in DOMAIN t.child[d]
        BY <1>2, <1>3, <1>5, <3>2, <3>4, <4>1
      <4> QED
        BY <2>1, <2>3, <4>2
    <3> QED
      BY <3>3, <3>4
  <2> QED
    BY <2>1, <2>2, <2>3
<1>7. Housed(u)
  <2>1. ASSUME NEW m \in Dirs \ u.live PROVE u.child[m] = <<>>
    BY <1>4, <1>1, <1>5, <2>1 DEF Shape, Housed
  <2>2. ASSUME NEW m \in Dirs, NEW j \in DOMAIN u.child[m], u.child[m][j] \in u.live
        PROVE  u.parent[u.child[m][j]] = m
    <3>1. PICK n : n = u.child[m][j]
      OBVIOUS
    <3>2. CASE n = new
      <4>1. ASSUME m # d PROVE FALSE
        <5>1. m # new
          BY <1>5, <2>2
        <5>2. u.child[m] = t.child[m]
          BY <1>5, <4>1, <5>1
        <5>3. m \in t.live
          BY <1>4, <1>1, <2>2, <5>2 DEF Shape, Housed
        <5>4. new \in ToSet(t.child[m])
          BY <2>2, <3>1, <3>2, <5>2 DEF ToSet
        <5> QED
          BY <1>4, <5>3, <5>4 DEF IsFresh
      <4> QED
        BY <1>5, <3>1, <3>2, <4>1
    <3>3. CASE n # new
      <4>1. PICK k \in DOMAIN t.child[m] : n = t.child[m][k]
        BY <1>6, <3>1, <3>3
      <4>2. n \in t.live /\ n \in Dirs
        BY <1>1, <1>5, <2>2, <3>1, <3>3 DEF Trees
      <4>3. t.parent[n] = m
        BY <1>4, <4>1, <4>2 DEF Shape, Housed
      <4> QED
        BY <1>5, <3>1, <3>3, <4>2, <4>3
    <3> QED
      BY <3>2, <3>3
  <2> QED
    BY <2>1, <2>2 DEF Housed
<1>8. Flags(u, c, h)
  <2> SUFFICES ASSUME NEW n \in Dirs, "flag" \in u.type[n]
               PROVE  /\ "dir" \in u.type[n]
                      /\ n \in u.live \ {Root} /\ n # c /\ n # h /\ u.parent[n] # Root
                      /\ \A m \in u.live : u.parent[m] # n
    BY DEF Flags
  <2>1. n # new /\ "flag" \in t.type[n]
    <3>1. "flag" \notin type
      BY <1>4
    <3> QED
      BY <1>5, <3>1
  <2>2. /\ "dir" \in t.type[n]
        /\ n \in t.live \ {Root} /\ n # c /\ n # h /\ t.parent[n] # Root
        /\ \A m \in t.live : t.parent[m] # n
    BY <1>4, <2>1 DEF Shape, Flags
  <2>3. ASSUME NEW m \in u.live PROVE u.parent[m] # n
    <3>1. CASE m = new
      BY <1>4, <1>5, <2>1, <3>1
    <3>2. CASE m # new
      <4>1. m \in t.live /\ m \in Dirs
        BY <1>1, <1>5, <3>2 DEF Trees
      <4> QED
        BY <1>5, <2>2, <3>2, <4>1
    <3> QED
      BY <3>1, <3>2
  <2> QED
    BY <1>5, <2>1, <2>2, <2>3
<1>9. \A n \in u.live \ {Root} : u.name[n] # Upper
  <2>1. u.live \subseteq Dirs
    BY <1>5 DEF Trees
  <2> QED
    BY <1>4, <1>1, <1>5, <2>1 DEF Shape
<1>10. /\ c \in Dirs /\ h \in Dirs \union {NULL}
       /\ Root \in u.live /\ u.parent[Root] = Root /\ "dir" \in u.type[Root]
  BY <1>4, <1>1, <1>5 DEF Shape
<1> QED
  BY <1>4, <1>5, <1>7, <1>8, <1>9, <1>10 DEF Shape

LEMMA LengthenedShape ==
  ASSUME NEW t, NEW c, NEW h, Shape(t, c, h), NEW d \in t.live, NEW u, Lengthened(t, u, d)
  PROVE  Shape(u, c, h)
<1>1. t \in Trees /\ d \in Dirs
  BY DEF Shape, Trees
<1>2. t.child[d] \in Seq(Nodes \union {Junk})
  BY <1>1 DEF Trees
<1>3. /\ u \in Trees
      /\ u.live = t.live /\ u.name = t.name /\ u.type = t.type /\ u.parent = t.parent
      /\ \A n \in Dirs \ {d} : u.child[n] = t.child[n]
      /\ Len(u.child[d]) = Len(t.child[d]) + 1
      /\ u.child[d][Len(t.child[d]) + 1] = Junk
      /\ \A j \in 1..Len(t.child[d]) : u.child[d][j] = t.child[d][j]
  BY <1>1, LengthenedFields
<1>4. Housed(u)
  <2>1. ASSUME NEW m \in Dirs \ u.live PROVE u.child[m] = <<>>
    BY <1>3, <2>1 DEF Shape, Housed
  <2>2. ASSUME NEW m \in Dirs, NEW j \in DOMAIN u.child[m], u.child[m][j] \in u.live
        PROVE  u.parent[u.child[m][j]] = m
    <3>1. CASE m # d
      BY <1>3, <2>2, <3>1 DEF Shape, Housed
    <3>2. CASE m = d
      <4>1. u.child[d] \in Seq(Nodes \union {Junk}) /\ Junk \notin u.live
        BY <1>1, <1>3, NullIsNoNode DEF Trees
      <4>2. j \in 1..Len(t.child[d])
        BY <1>2, <1>3, <2>2, <3>2, <4>1
      <4>3. u.child[d][j] = t.child[d][j] /\ j \in DOMAIN t.child[d]
        BY <1>2, <1>3, <4>2
      <4> QED
        BY <1>1, <1>3, <2>2, <3>2, <4>3 DEF Shape, Housed
    <3> QED
      BY <3>1, <3>2
  <2> QED
    BY <2>1, <2>2 DEF Housed
<1>5. Flags(u, c, h)
  BY <1>3 DEF Shape, Flags
<1> QED
  BY <1>3, <1>4, <1>5 DEF Shape

(* The flag of the shared directory of a user. *)
Marked(t, u, x) == u = [t EXCEPT !.type[x] = @ \union {"flag"}]

LEMMA MarkedFields ==
  ASSUME NEW t, t \in Trees, NEW x \in Dirs, NEW u, Marked(t, u, x)
  PROVE  /\ u \in Trees
         /\ u.live = t.live /\ u.name = t.name /\ u.parent = t.parent /\ u.child = t.child
         /\ u.type[x] = t.type[x] \union {"flag"}
         /\ \A n \in Dirs \ {x} : u.type[n] = t.type[n]
<1>1. t.type \in [Dirs -> SUBSET Types]
  BY DEF Trees
<1>2. PICK v : v = [t.type EXCEPT ![x] = @ \union {"flag"}]
  OBVIOUS
<1>3. "flag" \in Types
  BY DEF Types
<1>4. v \in [Dirs -> SUBSET Types] /\ v[x] = t.type[x] \union {"flag"} /\ \A n \in Dirs \ {x} : v[n] = t.type[n]
  BY <1>1, <1>2, <1>3
<1>5. u = [t EXCEPT !.type = v]
  BY <1>2 DEF Marked
<1>6. u = [live |-> t.live, name |-> t.name, type |-> v, parent |-> t.parent, child |-> t.child]
  <2>1. t = [live |-> t.live, name |-> t.name, type |-> t.type, parent |-> t.parent, child |-> t.child]
    BY DEF Trees
  <2> QED
    BY <1>5, <2>1
<1>7. u \in Trees
  BY <1>4, <1>6 DEF Trees
<1> QED
  BY <1>4, <1>6, <1>7

LEMMA MarkedShape ==
  ASSUME NEW t, NEW c, NEW h, Shape(t, c, h), NEW x \in t.live \ {Root}, x # c, x # h,
         "dir" \in t.type[x], t.parent[x] # Root, \A m \in t.live : t.parent[m] # x,
         NEW u, Marked(t, u, x)
  PROVE  Shape(u, c, h)
<1>1. t \in Trees /\ x \in Dirs
  BY DEF Shape, Trees
<1>2. /\ u \in Trees
      /\ u.live = t.live /\ u.name = t.name /\ u.parent = t.parent /\ u.child = t.child
      /\ u.type[x] = t.type[x] \union {"flag"}
      /\ \A n \in Dirs \ {x} : u.type[n] = t.type[n]
  BY <1>1, MarkedFields
<1>3. Housed(u)
  BY <1>2 DEF Shape, Housed
<1>4. Flags(u, c, h)
  <2>1. ASSUME NEW n \in Dirs, "flag" \in u.type[n], n # x
        PROVE  /\ "dir" \in u.type[n]
               /\ n \in u.live \ {Root} /\ n # c /\ n # h /\ u.parent[n] # Root
               /\ \A m \in u.live : u.parent[m] # n
    BY <1>2, <2>1 DEF Shape, Flags
  <2>2. /\ "dir" \in u.type[x]
        /\ x \in u.live \ {Root} /\ x # c /\ x # h /\ u.parent[x] # Root
        /\ \A m \in u.live : u.parent[m] # x
    BY <1>2
  <2> QED
    BY <2>1, <2>2 DEF Flags
<1>5. "dir" \in u.type[Root] /\ Root \in Dirs
  BY <1>2 DEF Shape, Dirs
<1> QED
  BY <1>2, <1>3, <1>4, <1>5 DEF Shape

(* The tree of init_ns(), and the trees in which nothing is lost. *)
LEMMA NewShape ==
  ASSUME NEW su \in Nodes, NEW sh \in Nodes, su # sh, NEW u, u = NewTree(su, sh)
  PROVE  Shape(u, Root, NULL)
<1>1. Root \in Dirs /\ su \in Dirs /\ sh \in Dirs /\ su # Root /\ sh # Root /\ NULL \notin Dirs
  BY NullIsNoNode DEF Dirs
<1>2. /\ u.live = {Root, su, sh}
      /\ u.name = [n \in Dirs |-> IF n = su THEN SU ELSE IF n = sh THEN Shared ELSE Upper]
      /\ u.type = [n \in Dirs |-> IF n = sh THEN {"dir", "shared"} ELSE {"dir"}]
      /\ u.parent = [n \in Dirs |-> Root]
      /\ u.child = [n \in Dirs |-> IF n = Root THEN <<sh, su>> ELSE <<>>]
  BY DEF NewTree, RootParent
<1>3. u \in Trees
  <2>1. u = [live |-> u.live, name |-> u.name, type |-> u.type, parent |-> u.parent, child |-> u.child]
    BY DEF NewTree
  <2>2. u.name \in [Dirs -> Names]
    BY <1>2 DEF Names
  <2>3. u.type \in [Dirs -> SUBSET Types]
    BY <1>2 DEF Types
  <2>4. u.parent \in [Dirs -> Dirs] /\ u.live \in SUBSET Dirs
    BY <1>1, <1>2
  <2>5. u.child \in [Dirs -> Seq(Nodes \union {Junk})]
    <3>1. PICK S, q, e : S = Seq(Nodes \union {Junk}) /\ q = <<sh, su>> /\ e = <<>>
      OBVIOUS
    <3>2. q \in S /\ e \in S
      BY <3>1
    <3>3. u.child = [n \in Dirs |-> IF n = Root THEN q ELSE e]
      BY <1>2, <3>1
    <3>4. u.child \in [Dirs -> S]
      BY <3>2, <3>3
    <3> QED
      BY <3>1, <3>4
  <2> QED
    BY <2>1, <2>2, <2>3, <2>4, <2>5 DEF Trees
<1>4. Housed(u)
  <2>1. ASSUME NEW d \in Dirs, NEW i \in DOMAIN u.child[d]
        PROVE  d = Root
    BY <1>2, <2>1
  <2>2. \A d \in Dirs \ u.live : u.child[d] = <<>>
    BY <1>2
  <2>3. ASSUME NEW d \in Dirs, NEW i \in DOMAIN u.child[d], u.child[d][i] \in u.live
        PROVE  u.parent[u.child[d][i]] = d
    BY <1>1, <1>2, <2>1, <2>3
  <2> QED
    BY <2>2, <2>3 DEF Housed
<1>5. \A n \in Dirs : "flag" \notin u.type[n]
  BY <1>2
<1>6. Flags(u, Root, NULL)
  BY <1>5 DEF Flags
<1>7. Root \in u.live /\ u.parent[Root] = Root /\ "dir" \in u.type[Root]
  BY <1>1, <1>2
<1>8. \A n \in u.live \ {Root} : u.name[n] # Upper
  <2>1. SU # Upper /\ Shared # Upper
    BY NameSpaceAssumption
  <2> QED
    BY <1>1, <1>2, <2>1
<1> QED
  BY <1>1, <1>3, <1>4, <1>6, <1>7, <1>8 DEF Shape

-----------------------------------------------------------------------------
(* The entries of an array, and which of them differ. *)
DistinctBut(s, J) == \A i, j \in DOMAIN s : s[i] = s[j] => i = j \/ s[i] = J

LEMMA InsertedSet ==
  ASSUME NEW S, NEW s \in Seq(S), NEW i \in 1..(Len(s) + 1), NEW e \in S, NEW q, Inserted(q, S, s, i, e)
  PROVE  /\ ToSet(q) = ToSet(s) \union {e}
         /\ \A J : DistinctBut(s, J) /\ e \notin ToSet(s) => DistinctBut(q, J)
<1>1. PICK n \in Nat : n = Len(s)
  OBVIOUS
<1>2. /\ q \in Seq(S) /\ Len(q) = n + 1 /\ DOMAIN q = 1..(n + 1) /\ DOMAIN s = 1..n /\ i \in 1..(n + 1)
      /\ \A j \in 1..(n + 1) : q[j] = IF j < i THEN s[j] ELSE IF j = i THEN e ELSE s[j - 1]
  BY <1>1 DEF Inserted
<1> DEFINE at(j) == IF j < i THEN j ELSE j - 1
<1>3. ASSUME NEW j \in 1..(n + 1), j # i
      PROVE  at(j) \in 1..n /\ q[j] = s[at(j)]
  BY <1>2, <1>3
<1>4. q[i] = e
  BY <1>2
<1>5. ASSUME NEW j \in 1..n PROVE s[j] \in ToSet(q)
  <2>1. CASE j < i
    BY <1>2, <2>1 DEF ToSet
  <2>2. CASE ~(j < i)
    <3>1. PICK k : k = j + 1
      OBVIOUS
    <3>2. k \in 1..(n + 1) /\ ~(k < i) /\ k # i /\ k - 1 = j
      BY <1>2, <2>2, <3>1
    <3>3. q[k] = s[j]
      BY <1>2, <3>2
    <3> QED
      BY <1>2, <3>2, <3>3 DEF ToSet
  <2> QED
    BY <2>1, <2>2
<1>6. ASSUME NEW j \in 1..(n + 1) PROVE q[j] \in ToSet(s) \union {e}
  <2>1. CASE j = i
    BY <1>4, <2>1
  <2>2. CASE j # i
    <3>1. at(j) \in 1..n /\ q[j] = s[at(j)]
      BY <1>3, <2>2
    <3> QED
      BY <1>2, <3>1 DEF ToSet
  <2> QED
    BY <2>1, <2>2
<1>7. ToSet(q) = ToSet(s) \union {e}
  <2>1. ToSet(s) \subseteq ToSet(q)
    BY <1>2, <1>5 DEF ToSet
  <2>2. e \in ToSet(q)
    BY <1>2, <1>4 DEF ToSet
  <2>3. ToSet(q) \subseteq ToSet(s) \union {e}
    <3>1. ASSUME NEW x \in ToSet(q) PROVE x \in ToSet(s) \union {e}
      <4>1. PICK j \in DOMAIN q : x = q[j]
        BY DEF ToSet
      <4> QED
        BY <1>2, <1>6, <4>1
    <3> QED
      BY <3>1
  <2> QED
    BY <2>1, <2>2, <2>3
<1>8. ASSUME NEW J, DistinctBut(s, J), e \notin ToSet(s) PROVE DistinctBut(q, J)
  <2> SUFFICES ASSUME NEW j \in 1..(n + 1), NEW k \in 1..(n + 1), q[j] = q[k]
               PROVE  j = k \/ q[j] = J
    BY <1>2 DEF DistinctBut
  <2>1. CASE j = i /\ k # i
    <3>1. q[k] \in ToSet(s)
      BY <1>2, <1>3, <2>1 DEF ToSet
    <3> QED
      BY <1>4, <1>8, <2>1, <3>1
  <2>2. CASE k = i /\ j # i
    <3>1. q[j] \in ToSet(s)
      BY <1>2, <1>3, <2>2 DEF ToSet
    <3> QED
      BY <1>4, <1>8, <2>2, <3>1
  <2>3. CASE j # i /\ k # i
    <3>1. at(j) \in 1..n /\ q[j] = s[at(j)] /\ at(k) \in 1..n /\ q[k] = s[at(k)]
      BY <1>3, <2>3
    <3>2. at(j) = at(k) \/ q[j] = J
      <4> HIDE DEF at
      <4> QED
        BY <1>2, <1>8, <3>1 DEF DistinctBut
    <3>3. at(j) = at(k) => j = k
      BY <1>2, <2>3
    <3> QED
      BY <3>2, <3>3
  <2> QED
    BY <2>1, <2>2, <2>3
<1> QED
  BY <1>7, <1>8

LEMMA ShortenedSet ==
  ASSUME NEW S, NEW s \in Seq(S), NEW i \in 1..Len(s), NEW q, Shortened(q, S, s, i), NEW J,
         DistinctBut(s, J), s[i] # J
  PROVE  ToSet(q) = ToSet(s) \ {s[i]} /\ DistinctBut(q, J)
<1>1. PICK n \in Nat : n = Len(s)
  OBVIOUS
<1>2. /\ q \in Seq(S) /\ Len(q) = n - 1 /\ DOMAIN q = 1..(n - 1) /\ DOMAIN s = 1..n /\ i \in 1..n
      /\ \A j \in 1..(n - 1) : q[j] = IF j < i THEN s[j] ELSE s[j + 1]
  BY <1>1 DEF Shortened
<1> DEFINE at(j) == IF j < i THEN j ELSE j + 1
<1>3. ASSUME NEW j \in 1..(n - 1)
      PROVE  at(j) \in 1..n /\ at(j) # i /\ q[j] = s[at(j)]
  BY <1>2, <1>3
<1>4. ASSUME NEW j \in 1..n, j # i PROVE s[j] \in ToSet(q)
  <2>1. CASE j < i
    BY <1>2, <2>1 DEF ToSet
  <2>2. CASE ~(j < i)
    <3>1. PICK k : k = j - 1
      OBVIOUS
    <3>2. k \in 1..(n - 1) /\ ~(k < i) /\ k + 1 = j
      BY <1>2, <1>4, <2>2, <3>1
    <3>3. q[k] = s[j]
      BY <1>2, <3>2
    <3> QED
      BY <1>2, <3>2, <3>3 DEF ToSet
  <2> QED
    BY <2>1, <2>2
<1>5. ASSUME NEW j \in 1..n, NEW k \in 1..n, s[j] = s[k], j # k PROVE s[j] = J
  BY <1>2, <1>5 DEF DistinctBut
<1>6. ToSet(q) \subseteq ToSet(s) \ {s[i]}
  <2>1. ASSUME NEW x \in ToSet(q) PROVE x \in ToSet(s) \ {s[i]}
    <3>1. PICK j \in 1..(n - 1) : x = q[j]
      BY <1>2 DEF ToSet
    <3>2. PICK k \in 1..n : k # i /\ x = s[k]
      BY <1>3, <3>1
    <3>3. s[k] # s[i]
      BY <1>2, <1>5, <3>2
    <3> QED
      BY <1>2, <3>2, <3>3 DEF ToSet
  <2> QED
    BY <2>1
<1>7. ToSet(s) \ {s[i]} \subseteq ToSet(q)
  <2>1. ASSUME NEW x \in ToSet(s), x # s[i] PROVE x \in ToSet(q)
    <3>1. PICK k \in 1..n : x = s[k]
      BY <1>2 DEF ToSet
    <3> QED
      BY <1>4, <2>1, <3>1
  <2> QED
    BY <2>1
<1>8. DistinctBut(q, J)
  <2> SUFFICES ASSUME NEW j \in 1..(n - 1), NEW k \in 1..(n - 1), q[j] = q[k]
               PROVE  j = k \/ q[j] = J
    BY <1>2 DEF DistinctBut
  <2>1. at(j) \in 1..n /\ q[j] = s[at(j)] /\ at(k) \in 1..n /\ q[k] = s[at(k)]
    BY <1>3
  <2>2. at(j) = at(k) \/ q[j] = J
    <3> HIDE DEF at
    <3> QED
      BY <1>5, <2>1
  <2>3. at(j) = at(k) => j = k
    BY <1>2
  <2> QED
    BY <2>2, <2>3
<1> QED
  BY <1>6, <1>7, <1>8

LEMMA LongerSet ==
  ASSUME NEW S, NEW s \in Seq(S), NEW J, NEW q \in Seq(S), Len(q) = Len(s) + 1, q[Len(s) + 1] = J,
         \A j \in 1..Len(s) : q[j] = s[j]
  PROVE  ToSet(q) \ {J} = ToSet(s) \ {J} /\ (DistinctBut(s, J) => DistinctBut(q, J))
<1>1. PICK n \in Nat : n = Len(s)
  OBVIOUS
<1>2. /\ DOMAIN q = 1..(n + 1) /\ DOMAIN s = 1..n /\ q[n + 1] = J
      /\ \A j \in 1..n : q[j] = s[j]
  BY <1>1
<1>3. ASSUME NEW j \in 1..(n + 1) PROVE q[j] = J \/ (j \in 1..n /\ q[j] = s[j])
  BY <1>2
<1>4. ToSet(q) \ {J} \subseteq ToSet(s)
  BY <1>2, <1>3 DEF ToSet
<1>5. ToSet(s) \subseteq ToSet(q)
  <2>1. \A j \in 1..n : j \in 1..(n + 1)
    BY <1>1
  <2> QED
    BY <1>2, <2>1 DEF ToSet
<1>6. DistinctBut(s, J) => DistinctBut(q, J)
  BY <1>2, <1>3 DEF DistinctBut
<1> QED
  BY <1>4, <1>5, <1>6

-----------------------------------------------------------------------------
(* As long as rmfile() has not cut off the current or home directory: the arrays
   are exact, and what can be reached hangs from the root. *)
Exact(t) ==
    \A d \in t.live :
        /\ ToSet(t.child[d]) \ {Junk} = {n \in t.live \ {Root} : t.parent[n] = d}
        /\ DistinctBut(t.child[d], Junk)

(* No directories but the root are above each other. *)
Rooted(A, t) ==
    \A S \in SUBSET A : S # {} /\ (\A n \in S : t.parent[n] \in S) => Root \in S

Kept(A, t, c, h) == Encloses(A, t, c, h) /\ Rooted(A, t)

LEMMA ExactWhole ==
  ASSUME NEW t, Exact(t)
  PROVE  Whole(t)
BY DEF Exact, Whole

LEMMA MadeExact ==
  ASSUME NEW t, NEW c, NEW h, NEW d, NEW i, NEW name, NEW type, NEW new, NEW u,
         Making(t, c, h, d, i, name, type, new, u), Exact(t)
  PROVE  Exact(u)
<1>1. /\ t \in Trees /\ Root \in Dirs /\ new \in Nodes /\ new \in Dirs /\ new # Root
      /\ d \in Dirs /\ d \in t.live /\ new \notin t.live /\ d # new
      /\ t.child[d] \in Seq(Nodes \union {Junk}) /\ i \in 1..(Len(t.child[d]) + 1)
      /\ Inserted(u.child[d], Nodes \union {Junk}, t.child[d], i, new)
  BY MakingIs
<1>2. /\ u.live = t.live \union {new}
      /\ u.parent[new] = d /\ u.child[new] = <<>>
      /\ \A n \in Dirs \ {new} : u.parent[n] = t.parent[n]
      /\ \A n \in Dirs \ {new, d} : u.child[n] = t.child[n]
  <2>1. MadeIs(t, u, d, i, name, type, new)
    BY MakingIs
  <2> QED
    BY <2>1 DEF MadeIs
<1>3. t.live \subseteq Dirs /\ new # Junk
  BY <1>1, NullIsNoNode DEF Trees
<1>4. \A n \in t.live : t.parent[n] # new /\ new \notin ToSet(t.child[n])
  BY DEF Making, IsFresh
<1>5. ASSUME NEW m \in u.live
      PROVE  /\ ToSet(u.child[m]) \ {Junk} = {n \in u.live \ {Root} : u.parent[n] = m}
             /\ DistinctBut(u.child[m], Junk)
  <2>1. CASE m = new
    <3>1. ToSet(u.child[m]) = {} /\ DistinctBut(u.child[m], Junk)
      BY <1>2, <2>1 DEF ToSet, DistinctBut
    <3>2. \A n \in u.live : u.parent[n] # new
      BY <1>1, <1>2, <1>3, <1>4
    <3> QED
      BY <2>1, <3>1, <3>2
  <2>2. CASE m = d
    <3>1. ToSet(t.child[d]) \ {Junk} = {n \in t.live \ {Root} : t.parent[n] = d}
      BY <1>1 DEF Exact
    <3>2. DistinctBut(t.child[d], Junk)
      BY <1>1 DEF Exact
    <3>3. ToSet(u.child[d]) = ToSet(t.child[d]) \union {new} /\ DistinctBut(u.child[d], Junk)
      <4>1. PICK S, s, q : S = Nodes \union {Junk} /\ s = t.child[d] /\ q = u.child[d]
        OBVIOUS
      <4>2. s \in Seq(S) /\ i \in 1..(Len(s) + 1) /\ new \in S /\ Inserted(q, S, s, i, new)
        BY <1>1, <4>1
      <4>3. /\ ToSet(q) = ToSet(s) \union {new}
            /\ \A J : DistinctBut(s, J) /\ new \notin ToSet(s) => DistinctBut(q, J)
        BY <4>2, InsertedSet
      <4>4. new \notin ToSet(s) /\ DistinctBut(s, Junk)
        BY <1>1, <1>4, <3>2, <4>1
      <4> QED
        BY <4>1, <4>3, <4>4
    <3>4. {n \in u.live \ {Root} : u.parent[n] = d}
            = {n \in t.live \ {Root} : t.parent[n] = d} \union {new}
      BY <1>1, <1>2, <1>3
    <3> QED
      BY <1>3, <2>2, <3>1, <3>3, <3>4
  <2>3. CASE m # new /\ m # d
    <3>1. u.child[m] = t.child[m] /\ m \in t.live
      BY <1>2, <1>3, <2>3
    <3>2. {n \in u.live \ {Root} : u.parent[n] = m} = {n \in t.live \ {Root} : t.parent[n] = m}
      BY <1>2, <1>3, <2>3, <3>1, <1>1
    <3>3. /\ ToSet(t.child[m]) \ {Junk} = {n \in t.live \ {Root} : t.parent[n] = m}
          /\ DistinctBut(t.child[m], Junk)
      BY <3>1 DEF Exact
    <3> QED
      BY <3>1, <3>2, <3>3
  <2> QED
    BY <2>1, <2>2, <2>3
<1> QED
  BY <1>5 DEF Exact

LEMMA MadeKept ==
  ASSUME NEW t, NEW c, NEW h, NEW d, NEW i, NEW name, NEW type, NEW new, NEW u,
         Making(t, c, h, d, i, name, type, new, u), NEW A, Kept(A, t, c, h)
  PROVE  \E B : Kept(B, u, c, h)
<1>1. /\ t \in Trees /\ Root \in Dirs /\ new \in Nodes /\ new \in Dirs /\ new # Root
      /\ d \in Dirs /\ d \in t.live /\ new \notin t.live /\ d # new
      /\ t.child[d] \in Seq(Nodes \union {Junk}) /\ i \in 1..(Len(t.child[d]) + 1)
      /\ Inserted(u.child[d], Nodes \union {Junk}, t.child[d], i, new)
  BY MakingIs
<1>2. /\ u.live = t.live \union {new}
      /\ u.parent[new] = d /\ u.child[new] = <<>>
      /\ \A n \in Dirs \ {new} : u.parent[n] = t.parent[n]
      /\ \A n \in Dirs \ {new, d} : u.child[n] = t.child[n]
  <2>1. MadeIs(t, u, d, i, name, type, new)
    BY MakingIs
  <2> QED
    BY <2>1 DEF MadeIs
<1>3. t.live \subseteq Dirs
  BY <1>1 DEF Trees
<1>4. ToSet(u.child[d]) = ToSet(t.child[d]) \union {new}
  <2>1. PICK S, s, q : S = Nodes \union {Junk} /\ s = t.child[d] /\ q = u.child[d]
    OBVIOUS
  <2>2. s \in Seq(S) /\ i \in 1..(Len(s) + 1) /\ new \in S /\ Inserted(q, S, s, i, new)
    BY <1>1, <2>1
  <2>3. ToSet(q) = ToSet(s) \union {new}
    BY <2>2, InsertedSet
  <2> QED
    BY <2>1, <2>3
<1>5. /\ A \subseteq t.live /\ Root \in A /\ c \in A /\ h \in A \union {NULL}
      /\ \A n \in A : t.parent[n] \in A
      /\ \A n \in A : ToSet(t.child[n]) \cap t.live \subseteq A
      /\ Rooted(A, t)
  BY DEF Kept, Encloses
<1>6. \A n \in t.live : t.parent[n] # new /\ new \notin ToSet(t.child[n])
  BY DEF Making, IsFresh
(* In a directory that cannot be reached the file cannot be reached. *)
<1>7. PICK B : B = IF d \in A THEN A \union {new} ELSE A
  OBVIOUS
<1>8. B \subseteq u.live /\ A \subseteq B /\ (new \in B => d \in A) /\ B \subseteq A \union {new}
  BY <1>1, <1>2, <1>5, <1>7
<1>9. ASSUME NEW n \in B PROVE u.parent[n] \in B
  <2>1. CASE n = new
    BY <1>2, <1>8, <2>1
  <2>2. CASE n # new
    <3>1. n \in A /\ n \in Dirs
      BY <1>3, <1>5, <1>8, <2>2
    <3> QED
      BY <1>2, <1>5, <1>8, <2>2, <3>1
  <2> QED
    BY <2>1, <2>2
<1>10. ASSUME NEW n \in B PROVE ToSet(u.child[n]) \cap u.live \subseteq B
  <2>1. CASE n = new
    BY <1>2, <2>1 DEF ToSet
  <2>2. CASE n = d
    <3>1. d \in A
      BY <1>1, <1>8, <2>2
    <3>2. new \in B
      BY <1>7, <3>1
    <3> QED
      BY <1>2, <1>4, <1>5, <1>8, <2>2, <3>1, <3>2
  <2>3. CASE n # new /\ n # d
    <3>1. n \in A /\ n \in Dirs /\ n \in t.live
      BY <1>3, <1>5, <1>8, <2>3
    <3>2. u.child[n] = t.child[n] /\ new \notin ToSet(t.child[n])
      BY <1>2, <1>6, <2>3, <3>1
    <3> QED
      BY <1>2, <1>5, <1>8, <3>1, <3>2
  <2> QED
    BY <2>1, <2>2, <2>3
<1>11. Encloses(B, u, c, h)
  BY <1>5, <1>8, <1>9, <1>10 DEF Encloses
<1>12. ASSUME NEW S \in SUBSET B, S # {}, \A n \in S : u.parent[n] \in S PROVE Root \in S
  <2>1. PICK R : R = S \ {new}
    OBVIOUS
  <2>2. R \in SUBSET A
    BY <1>8, <2>1
  <2>3. R # {}
    BY <1>1, <1>2, <1>12, <2>1
  <2>4. ASSUME NEW n \in R PROVE t.parent[n] \in R
    <3>1. n \in A /\ n \in t.live /\ n \in Dirs /\ n # new /\ n \in S
      BY <1>3, <1>5, <2>1, <2>2
    <3>2. u.parent[n] = t.parent[n] /\ t.parent[n] # new
      BY <1>2, <1>6, <3>1
    <3> QED
      BY <1>12, <2>1, <3>1, <3>2
  <2>5. Root \in R
    BY <1>5, <2>2, <2>3, <2>4 DEF Rooted
  <2> QED
    BY <2>1, <2>5
<1>13. Rooted(B, u)
  BY <1>12 DEF Rooted
<1> QED
  BY <1>11, <1>13 DEF Kept

LEMMA LengthenedKept ==
  ASSUME NEW t, NEW c, NEW h, Shape(t, c, h), NEW d \in t.live, NEW u, Lengthened(t, u, d)
  PROVE  /\ Exact(t) => Exact(u)
         /\ \A A : Kept(A, t, c, h) => Kept(A, u, c, h)
         /\ JunkThere(u) /\ u # t
<1>1. t \in Trees /\ d \in Dirs
  BY DEF Shape, Trees
<1>2. t.child[d] \in Seq(Nodes \union {Junk})
  BY <1>1 DEF Trees
<1>3. /\ u \in Trees
      /\ u.live = t.live /\ u.name = t.name /\ u.type = t.type /\ u.parent = t.parent
      /\ \A n \in Dirs \ {d} : u.child[n] = t.child[n]
      /\ Len(u.child[d]) = Len(t.child[d]) + 1
      /\ u.child[d][Len(t.child[d]) + 1] = Junk
      /\ \A j \in 1..Len(t.child[d]) : u.child[d][j] = t.child[d][j]
  BY <1>1, LengthenedFields
<1>4. /\ ToSet(u.child[d]) \ {Junk} = ToSet(t.child[d]) \ {Junk}
      /\ DistinctBut(t.child[d], Junk) => DistinctBut(u.child[d], Junk)
  <2>1. PICK S, s, q : S = Nodes \union {Junk} /\ s = t.child[d] /\ q = u.child[d]
    OBVIOUS
  <2>2. s \in Seq(S) /\ q \in Seq(S)
    BY <1>1, <1>2, <1>3, <2>1 DEF Trees
  <2>3. Len(q) = Len(s) + 1 /\ q[Len(s) + 1] = Junk /\ \A j \in 1..Len(s) : q[j] = s[j]
    BY <1>3, <2>1
  <2> HIDE DEF DistinctBut
  <2>4. ToSet(q) \ {Junk} = ToSet(s) \ {Junk} /\ (DistinctBut(s, Junk) => DistinctBut(q, Junk))
    BY <2>2, <2>3, LongerSet
  <2> QED
    BY <2>1, <2>4
<1>5. t.live \subseteq Dirs /\ Junk \notin t.live
  BY <1>1, NullIsNoNode DEF Trees
<1>6. ASSUME Exact(t), NEW m \in u.live
      PROVE  /\ ToSet(u.child[m]) \ {Junk} = {n \in u.live \ {Root} : u.parent[n] = m}
             /\ DistinctBut(u.child[m], Junk)
  <2>1. /\ ToSet(t.child[m]) \ {Junk} = {n \in t.live \ {Root} : t.parent[n] = m}
        /\ DistinctBut(t.child[m], Junk)
    BY <1>3, <1>6 DEF Exact
  <2>2. CASE m = d
    BY <1>3, <1>4, <2>1, <2>2
  <2>3. CASE m # d
    BY <1>3, <1>5, <2>1, <2>3
  <2> QED
    BY <2>2, <2>3
<1>7. ASSUME NEW A, Kept(A, t, c, h) PROVE Kept(A, u, c, h)
  <2>1. Encloses(A, t, c, h) /\ Rooted(A, t)
    BY <1>7 DEF Kept
  <2>2. ASSUME NEW n \in A PROVE ToSet(u.child[n]) \cap u.live = ToSet(t.child[n]) \cap t.live
    <3>1. n \in Dirs
      BY <1>5, <2>1 DEF Encloses
    <3>2. CASE n = d
      BY <1>3, <1>4, <1>5, <3>2
    <3>3. CASE n # d
      BY <1>3, <3>1, <3>3
    <3> QED
      BY <3>2, <3>3
  <2>3. Encloses(A, u, c, h)
    BY <1>3, <2>1, <2>2 DEF Encloses
  <2>4. Rooted(A, u)
    BY <1>3, <2>1 DEF Rooted
  <2> QED
    BY <2>3, <2>4 DEF Kept
<1>8. JunkThere(u)
  <2>1. u.child[d] \in Seq(Nodes \union {Junk})
    BY <1>1, <1>3 DEF Trees
  <2>2. Len(t.child[d]) + 1 \in DOMAIN u.child[d]
    BY <1>2, <1>3, <2>1
  <2> QED
    BY <1>1, <1>3, <2>2 DEF JunkThere, ToSet
<1>9. u # t
  BY <1>2, <1>3
<1> QED
  BY <1>6, <1>7, <1>8, <1>9 DEF Exact

LEMMA MarkedKept ==
  ASSUME NEW t, t \in Trees, NEW x \in Dirs, NEW u, Marked(t, u, x), NEW c, NEW h
  PROVE  /\ Exact(t) => Exact(u)
         /\ \A A : Kept(A, t, c, h) => Kept(A, u, c, h)
         /\ JunkThere(u) => JunkThere(t)
<1>1. u.live = t.live /\ u.name = t.name /\ u.parent = t.parent /\ u.child = t.child
  BY MarkedFields
<1> QED
  BY <1>1 DEF Exact, Kept, Encloses, Rooted, JunkThere

LEMMA NewKept ==
  ASSUME NEW su \in Nodes, NEW sh \in Nodes, su # sh, NEW u, u = NewTree(su, sh)
  PROVE  Exact(u) /\ (\E A : Kept(A, u, Root, NULL)) /\ ~JunkThere(u)
<1>1. Root \in Dirs /\ su \in Dirs /\ sh \in Dirs /\ su # Root /\ sh # Root /\ Junk \notin Dirs
  BY NullIsNoNode DEF Dirs
<1>2. /\ u.live = {Root, su, sh}
      /\ u.parent = [n \in Dirs |-> Root]
      /\ u.child = [n \in Dirs |-> IF n = Root THEN <<sh, su>> ELSE <<>>]
  BY DEF NewTree, RootParent
<1>3. PICK q : q = <<sh, su>>
  OBVIOUS
<1>4. ToSet(q) = {su, sh} /\ DistinctBut(q, Junk)
  <2>1. DOMAIN q = 1..2 /\ q[1] = sh /\ q[2] = su
    BY <1>3
  <2>2. ToSet(q) = {su, sh}
    <3>1. 1 \in 1..2 /\ 2 \in 1..2 /\ \A j \in 1..2 : j = 1 \/ j = 2
      OBVIOUS
    <3> QED
      BY <2>1, <3>1 DEF ToSet
  <2>3. DistinctBut(q, Junk)
    BY <2>1 DEF DistinctBut
  <2> QED
    BY <2>2, <2>3
<1>5. PICK e : e = <<>>
  OBVIOUS
<1>6. ToSet(e) = {} /\ DistinctBut(e, Junk)
  BY <1>5 DEF ToSet, DistinctBut
<1>7. u.child[Root] = q /\ \A n \in Dirs \ {Root} : u.child[n] = e
  BY <1>1, <1>2, <1>3, <1>5
<1>8. Exact(u)
  <2> SUFFICES ASSUME NEW d \in u.live
               PROVE  /\ ToSet(u.child[d]) \ {Junk} = {n \in u.live \ {Root} : u.parent[n] = d}
                      /\ DistinctBut(u.child[d], Junk)
    BY DEF Exact
  <2>1. CASE d = Root
    BY <1>1, <1>2, <1>4, <1>7, <2>1
  <2>2. CASE d # Root
    BY <1>1, <1>2, <1>6, <1>7, <2>2
  <2> QED
    BY <2>1, <2>2
<1>9. Kept(u.live, u, Root, NULL)
  <2>1. ASSUME NEW n \in u.live PROVE u.parent[n] = Root /\ ToSet(u.child[n]) \cap u.live \subseteq u.live
    BY <1>1, <1>2
  <2>2. Root \in u.live
    BY <1>2
  <2>3. Encloses(u.live, u, Root, NULL)
    BY <2>1, <2>2 DEF Encloses
  <2>4. Rooted(u.live, u)
    BY <2>1 DEF Rooted
  <2> QED
    BY <2>3, <2>4 DEF Kept
<1>10. ~JunkThere(u)
  BY <1>1, <1>4, <1>6, <1>7 DEF JunkThere
<1> QED
  BY <1>8, <1>9, <1>10

-----------------------------------------------------------------------------
(* A file less.  The directories above one that can be reached are themselves
   among those that can be reached, and Above() has them all: a longer way up than
   there are nodes would come to one of them twice. *)
Climbs(f, n, N) ==
    f \in [0..N -> Dirs] /\ f[0] = n /\ \A k \in 1..N : f[k] = tree.parent[f[k - 1]]

LEMMA AboveIs ==
  ASSUME tree.parent \in [Dirs -> Dirs], NEW n \in Dirs
  PROVE  \E N, f :
            /\ N \in Nat /\ N = Cardinality(Nodes) /\ Climbs(f, n, N)
            /\ Above(n) = {f[k] : k \in 0..N}
<1>1. PICK N \in Nat : N = Cardinality(Nodes)
  BY FS_CardinalityType, NameSpaceAssumption
<1> DEFINE F(w) == [k \in 0..N |-> IF k = 0 THEN n ELSE tree.parent[w[k - 1]]]
<1>2. PICK f : f = CHOOSE w : w = F(w)
  OBVIOUS
<1>3. f = F(f)
  <2>1. \E w : w = F(w)
    <3>1. PICK g : Iterates(g, tree.parent, n, Dirs, N)
      BY CanIterate
    <3>2. g \in [0..N -> Dirs] /\ g[0] = n /\ \A k \in 1..N : g[k] = tree.parent[g[k - 1]]
      BY <3>1 DEF Iterates
    <3>3. ASSUME NEW k \in 0..N PROVE g[k] = IF k = 0 THEN n ELSE tree.parent[g[k - 1]]
      <4>1. k = 0 \/ k \in 1..N
        BY <1>1
      <4> QED
        BY <3>2, <4>1
    <3>4. g = [k \in 0..N |-> g[k]]
      BY <3>2
    <3>5. g = F(g)
      BY <3>3, <3>4
    <3> QED
      BY <3>5
  <2> HIDE DEF F
  <2> QED
    BY <1>2, <2>1
<1>4. f[0] = n /\ \A k \in 1..N : f[k] = tree.parent[f[k - 1]]
  <2>1. f[0] = n
    BY <1>1, <1>3
  <2>2. ASSUME NEW k \in 1..N PROVE f[k] = tree.parent[f[k - 1]]
    <3>1. k \in 0..N /\ k # 0
      BY <1>1
    <3> QED
      BY <1>3, <3>1
  <2> QED
    BY <2>1, <2>2
<1>5. f \in [0..N -> Dirs]
  <2> DEFINE Good == {k \in Nat : k <= N => f[k] \in Dirs}
  <2>1. 0 \in Good
    BY <1>4
  <2>2. ASSUME NEW k \in Nat, k \in Good PROVE k + 1 \in Good
    <3> SUFFICES ASSUME k + 1 <= N PROVE f[k + 1] \in Dirs
      OBVIOUS
    <3>1. PICK m : m = k + 1
      OBVIOUS
    <3>2. m \in 1..N /\ m - 1 = k /\ k <= N
      BY <1>1, <3>1
    <3>3. f[k] \in Dirs
      BY <2>2, <3>2
    <3>4. f[m] = tree.parent[f[k]]
      BY <1>4, <3>2
    <3> QED
      BY <3>1, <3>3, <3>4
  <2>3. \A k \in Nat : k \in Good
    <3> HIDE DEF Good
    <3> QED
      BY <2>1, <2>2, Induction
  <2>4. \A k \in 0..N : f[k] \in Dirs
    BY <2>3
  <2>5. f = [k \in 0..N |-> f[k]]
    BY <1>3
  <2> HIDE DEF Good, F
  <2> QED
    BY <2>4, <2>5
<1>6. Climbs(f, n, N)
  BY <1>4, <1>5 DEF Climbs
<1>7. Above(n) = {f[k] : k \in 0..N}
  BY <1>1, <1>2 DEF Above
<1> QED
  BY <1>1, <1>6, <1>7

LEMMA AboveHas ==
  ASSUME tree.parent \in [Dirs -> Dirs], tree.parent[Root] = Root, NEW A, A \subseteq Dirs,
         \A m \in A : tree.parent[m] \in A, Rooted(A, tree), NEW n \in A
  PROVE  Above(n) \subseteq A /\ n \in Above(n) /\ \A m \in Above(n) : tree.parent[m] \in Above(n)
<1>1. PICK N, f : /\ N \in Nat /\ N = Cardinality(Nodes) /\ Climbs(f, n, N)
                  /\ Above(n) = {f[k] : k \in 0..N}
  BY AboveIs
<1>2. f \in [0..N -> Dirs] /\ f[0] = n /\ \A k \in 1..N : f[k] = tree.parent[f[k - 1]]
  BY <1>1 DEF Climbs
<1>3. ASSUME NEW k \in 0..N, k + 1 \in 0..N PROVE f[k + 1] = tree.parent[f[k]]
  <2>1. PICK m : m = k + 1
    OBVIOUS
  <2>2. m \in 1..N /\ m - 1 = k
    BY <1>1, <1>3, <2>1
  <2> QED
    BY <1>2, <2>1, <2>2
<1>4. \A k \in 0..N : f[k] \in A
  <2> DEFINE Good == {k \in Nat : k <= N => f[k] \in A}
  <2>1. 0 \in Good
    BY <1>2
  <2>2. ASSUME NEW k \in Nat, k \in Good PROVE k + 1 \in Good
    BY <1>1, <1>3, <2>2
  <2>3. \A k \in Nat : k \in Good
    <3> HIDE DEF Good
    <3> QED
      BY <2>1, <2>2, Induction
  <2> QED
    BY <2>3
<1>5. tree.parent[f[N]] \in Above(n)
  <2>1. CASE f[N] = Root
    <3>1. f[N] \in Above(n)
      BY <1>1
    <3> QED
      BY <2>1, <3>1
  <2>2. CASE f[N] # Root
    <3>1. ASSUME NEW k \in 0..N PROVE f[k] # Root
      <4> SUFFICES ASSUME f[k] = Root PROVE FALSE
        OBVIOUS
      <4> DEFINE Good == {j \in Nat : k + j <= N => f[k + j] = Root}
      <4>1. 0 \in Good
        BY <1>1
      <4>2. ASSUME NEW j \in Nat, j \in Good PROVE j + 1 \in Good
        <5> SUFFICES ASSUME k + (j + 1) <= N PROVE f[k + (j + 1)] = Root
          OBVIOUS
        <5>1. PICK m : m = k + j
          OBVIOUS
        <5>2. m \in 0..N /\ m + 1 \in 0..N /\ k + (j + 1) = m + 1
          BY <1>1, <5>1
        <5>3. f[m] = Root
          BY <4>2, <5>1, <5>2
        <5>4. f[m + 1] = tree.parent[f[m]]
          BY <1>3, <5>2
        <5> QED
          BY <5>2, <5>3, <5>4
      <4>3. \A j \in Nat : j \in Good
        <5> HIDE DEF Good
        <5> QED
          BY <4>1, <4>2, Induction
      <4>4. N - k \in Nat /\ k + (N - k) = N
        BY <1>1
      <4>5. N - k \in Good
        <5> HIDE DEF Good
        <5> QED
          BY <4>3, <4>4
      <4> QED
        BY <2>2, <4>4, <4>5
    <3>2. f \in [0..N -> Nodes]
      BY <1>2, <3>1 DEF Dirs
    <3>3. PICK i, j \in 0..N : i # j /\ f[i] = f[j]
      <4>1. IsFiniteSet(0..N) /\ Cardinality(0..N) = N + 1
        <5>1. PICK z \in Int : z = 0
          OBVIOUS
        <5>2. N \in Int /\ ~(z > N) /\ N - z + 1 = N + 1
          BY <1>1, <5>1
        <5>3. IsFiniteSet(z..N) /\ Cardinality(z..N) = N - z + 1
          BY <5>2, FS_Interval
        <5> QED
          BY <5>1, <5>2, <5>3
      <4>2. IsFiniteSet(Nodes) /\ Cardinality(Nodes) < Cardinality(0..N)
        BY <1>1, <4>1, NameSpaceAssumption
      <4> QED
        BY <3>2, <4>1, <4>2, FS_PigeonHole
    <3>4. PICK a, b \in 0..N : a < b /\ f[a] = f[b]
      <4>1. i < j \/ j < i
        BY <1>1, <3>3
      <4> QED
        BY <3>3, <4>1
    <3>5. PICK S : S = {f[k] : k \in a..(b - 1)}
      OBVIOUS
    <3>6. \A k \in a..(b - 1) : k \in 0..N /\ k + 1 \in 0..N
      BY <1>1, <3>4
    <3>7. S \in SUBSET A
      BY <1>4, <3>5, <3>6
    <3>8. f[a] \in S
      <4>1. a \in a..(b - 1)
        BY <1>1, <3>4
      <4> QED
        BY <3>5, <4>1
    <3>9. ASSUME NEW m \in S PROVE tree.parent[m] \in S
      <4>1. PICK k \in a..(b - 1) : m = f[k]
        BY <3>5
      <4>2. tree.parent[m] = f[k + 1]
        BY <1>3, <3>6, <4>1
      <4>3. k + 1 \in a..(b - 1) \/ k + 1 = b
        BY <1>1, <3>4, <4>1
      <4>4. CASE k + 1 \in a..(b - 1)
        BY <3>5, <4>2, <4>4
      <4>5. CASE k + 1 = b
        BY <3>4, <3>8, <4>2, <4>5
      <4> QED
        BY <4>3, <4>4, <4>5
    <3>10. Root \in S
      BY <3>7, <3>8, <3>9 DEF Rooted
    <3> QED
      BY <3>1, <3>5, <3>6, <3>10
  <2> QED
    BY <2>1, <2>2
<1>6. ASSUME NEW m \in Above(n) PROVE tree.parent[m] \in Above(n)
  <2>1. PICK k \in 0..N : m = f[k]
    BY <1>1
  <2>2. CASE k = N
    BY <1>5, <2>1, <2>2
  <2>3. CASE k # N
    <3>1. k + 1 \in 0..N
      BY <1>1, <2>3
    <3> QED
      BY <1>1, <1>3, <2>1, <3>1
  <2> QED
    BY <2>2, <2>3
<1>7. Above(n) \subseteq A
  BY <1>1, <1>4
<1>8. n \in Above(n)
  <2>1. 0 \in 0..N
    BY <1>1
  <2> QED
    BY <1>1, <1>2, <2>1
<1> QED
  BY <1>6, <1>7, <1>8

(* The files that can still be reached are those of which x is not above. *)
LEMMA WithoutKept ==
  ASSUME NEW c, NEW h, Shape(tree, c, h), Exact(tree), NEW A, Kept(A, tree, c, h),
         NEW x \in A \ {Root}, NEW i, Placed(tree, x, i), NEW u, Without(tree, u, x, i),
         x \notin Above(c), h # NULL => x \notin Above(h)
  PROVE  Exact(u) /\ (\E B : Kept(B, u, c, h))
<1>1. /\ tree \in Trees /\ tree.parent \in [Dirs -> Dirs] /\ tree.live \subseteq Dirs
      /\ tree.parent[Root] = Root /\ Root \in tree.live /\ x # Root
  BY DEF Shape, Trees
<1>2. /\ A \subseteq tree.live /\ Root \in A /\ c \in A /\ h \in A \union {NULL}
      /\ \A n \in A : tree.parent[n] \in A
      /\ \A n \in A : ToSet(tree.child[n]) \cap tree.live \subseteq A
      /\ Rooted(A, tree)
  BY DEF Kept, Encloses
<1>3. PICK d : d = tree.parent[x]
  OBVIOUS
<1>4. d \in A /\ x \in Dirs /\ d \in Dirs /\ x \in tree.live
  BY <1>1, <1>2, <1>3
<1>5. d # x
  <2> SUFFICES ASSUME d = x PROVE FALSE
    OBVIOUS
  <2>1. {x} \in SUBSET A /\ {x} # {} /\ \A n \in {x} : tree.parent[n] \in {x}
    BY <1>3
  <2>2. Root \in {x}
    BY <1>2, <2>1 DEF Rooted
  <2> QED
    BY <1>1, <2>2
<1>6. i \in DOMAIN tree.child[d] /\ tree.child[d][i] = x
  BY <1>3 DEF Placed
<1>7. tree.child[d] \in Seq(Nodes \union {Junk})
  BY <1>1, <1>4 DEF Trees
<1>8. i \in 1..Len(tree.child[d])
  BY <1>6, <1>7
<1>9. /\ u \in Trees
      /\ u.live = tree.live \ {x}
      /\ u.child[x] = <<>>
      /\ \A n \in Dirs \ {x} : u.parent[n] = tree.parent[n]
      /\ \A n \in Dirs \ {x, d} : u.child[n] = tree.child[n]
      /\ \/ Shortened(u.child[d], Nodes \union {Junk}, tree.child[d], i)
         \/ u.child[d] = <<>> /\ tree.child[d] = <<>>
  <2>1. Takes(tree, tree.parent[x], i)
    BY <1>3, <1>8 DEF Takes
  <2>2. WithoutIs(tree, u, x, i)
    BY <1>1, <1>4, <2>1, WithoutFields
  <2> QED
    BY <1>3, <1>5, <2>2 DEF WithoutIs
<1>10. x # Junk
  BY <1>4, NullIsNoNode
<1>11. DistinctBut(tree.child[d], Junk)
  BY <1>2, <1>4 DEF Exact
<1>12. ToSet(u.child[d]) = ToSet(tree.child[d]) \ {x} /\ DistinctBut(u.child[d], Junk)
  <2>1. PICK S, s, q : S = Nodes \union {Junk} /\ s = tree.child[d] /\ q = u.child[d]
    OBVIOUS
  <2>2. s \in Seq(S) /\ i \in 1..Len(s) /\ Shortened(q, S, s, i)
    <3>1. tree.child[d] # <<>>
      BY <1>8
    <3> QED
      BY <1>7, <1>8, <1>9, <2>1, <3>1
  <2>3. DistinctBut(s, Junk) /\ s[i] # Junk /\ s[i] = x
    BY <1>6, <1>10, <1>11, <2>1
  <2>4. ToSet(q) = ToSet(s) \ {s[i]} /\ DistinctBut(q, Junk)
    BY <2>2, <2>3, ShortenedSet
  <2> QED
    BY <2>1, <2>3, <2>4
<1>13. ASSUME NEW m \in u.live
      PROVE  /\ ToSet(u.child[m]) \ {Junk} = {n \in u.live \ {Root} : u.parent[n] = m}
             /\ DistinctBut(u.child[m], Junk)
  <2>1. m \in tree.live /\ m # x /\ m \in Dirs
    BY <1>1, <1>9
  <2>2. /\ ToSet(tree.child[m]) \ {Junk} = {n \in tree.live \ {Root} : tree.parent[n] = m}
        /\ DistinctBut(tree.child[m], Junk)
    BY <2>1 DEF Exact
  <2>3. {n \in u.live \ {Root} : u.parent[n] = m} = {n \in tree.live \ {Root} : tree.parent[n] = m} \ {x}
    BY <1>1, <1>9
  <2>4. CASE m = d
    BY <1>12, <2>2, <2>3, <2>4
  <2>5. CASE m # d
    <3>1. u.child[m] = tree.child[m]
      BY <1>9, <2>1, <2>5
    <3>2. x \notin {n \in tree.live \ {Root} : tree.parent[n] = m}
      BY <1>3, <2>5
    <3> QED
      BY <2>2, <2>3, <3>1, <3>2
  <2> QED
    BY <2>4, <2>5
<1>14. Exact(u)
  BY <1>13 DEF Exact
<1> DEFINE Closed(K) == K \in SUBSET (A \ {x}) /\ \A n \in K : tree.parent[n] \in K
<1>15. PICK B : B = {n \in A : \E K : n \in K /\ Closed(K)}
  OBVIOUS
<1>16. B \in SUBSET A /\ x \notin B
  BY <1>15
<1>17. Root \in B
  <2>1. Closed({Root})
    BY <1>1, <1>2
  <2> QED
    BY <1>2, <1>15, <2>1
<1>18. ASSUME NEW n \in A, x \notin Above(n) PROVE n \in B
  <2>1. Above(n) \subseteq A /\ n \in Above(n) /\ \A m \in Above(n) : tree.parent[m] \in Above(n)
    <3>1. A \subseteq Dirs
      BY <1>1, <1>2
    <3> QED
      BY <1>1, <1>2, <3>1, AboveHas
  <2>2. Closed(Above(n))
    BY <1>18, <2>1
  <2> QED
    BY <1>15, <2>1, <2>2
<1>19. c \in B /\ h \in B \union {NULL}
  BY <1>2, <1>18
<1>20. ASSUME NEW n \in B PROVE u.parent[n] \in B
  <2>1. PICK K : n \in K /\ Closed(K)
    BY <1>15
  <2>2. tree.parent[n] \in K /\ tree.parent[n] \in A
    BY <1>2, <1>16, <2>1
  <2>3. tree.parent[n] \in B
    BY <1>15, <2>1, <2>2
  <2> QED
    BY <1>1, <1>2, <1>9, <1>16, <2>3
<1>21. ASSUME NEW n \in B, NEW m \in ToSet(u.child[n]) \cap u.live PROVE m \in B
  <2>1. n \in A /\ n \in tree.live /\ n # x /\ n \in Dirs
    BY <1>1, <1>2, <1>16
  <2>2. m \in ToSet(tree.child[n]) /\ m # x /\ m \in tree.live
    <3>1. CASE n = d
      BY <1>9, <1>12, <1>21, <3>1
    <3>2. CASE n # d
      BY <1>9, <1>21, <2>1, <3>2
    <3> QED
      BY <3>1, <3>2
  <2>3. m \in A
    BY <1>2, <2>1, <2>2
  <2>4. tree.parent[m] = n
    <3>1. PICK j \in DOMAIN tree.child[n] : m = tree.child[n][j]
      BY <2>2 DEF ToSet
    <3> QED
      BY <2>1, <2>2, <3>1 DEF Shape, Housed
  <2>5. PICK K : n \in K /\ Closed(K)
    BY <1>15
  <2>6. Closed(K \union {m})
    BY <2>2, <2>3, <2>4, <2>5
  <2> HIDE DEF Closed
  <2> QED
    BY <1>15, <2>3, <2>6
<1>22. Encloses(B, u, c, h)
  BY <1>2, <1>9, <1>16, <1>17, <1>19, <1>20, <1>21 DEF Encloses
<1>23. ASSUME NEW S \in SUBSET B, S # {}, \A n \in S : u.parent[n] \in S PROVE Root \in S
  <2>1. S \in SUBSET A /\ \A n \in S : n \in Dirs /\ n # x
    BY <1>1, <1>2, <1>16
  <2>2. \A n \in S : tree.parent[n] \in S
    BY <1>9, <1>23, <2>1
  <2> QED
    BY <1>2, <1>23, <2>1, <2>2 DEF Rooted
<1>24. Rooted(B, u)
  BY <1>23 DEF Rooted
<1> QED
  BY <1>14, <1>22, <1>24 DEF Kept

-----------------------------------------------------------------------------
(* What a call of mkfile() comes to: nothing, an array with junk at its end, or a
   file more. *)
LastTwo(t, d, n) == \E i \in DOMAIN t.child[d] : t.child[d][i] = n /\ i >= Len(t.child[d]) - 1

NamesDiffer(t, d) ==
    \A i, j \in DOMAIN t.child[d] : t.name[t.child[d][i]] = t.name[t.child[d][j]] => i = j

Grows(t, u, c, h, d, i, name, type, new) ==
    /\ Shape(t, c, h)
    /\ new \in {NULL, Junk} \/ IsFresh(t, c, h, new)
    /\ \/ u = t
       \/ new = Junk /\ d \in t.live /\ Lengthened(t, u, d)
       \/ Making(t, c, h, d, i, name, type, new, u)

Grown(t, u, c, h, new) ==
    /\ Shape(u, c, h)
    /\ Exact(t) => Exact(u)
    /\ (\E A : Kept(A, t, c, h)) => (\E A : Kept(A, u, c, h))
    /\ JunkThere(u) => JunkThere(t) \/ (new = Junk /\ u # t)
    /\ FlagThere(t) => FlagThere(u)

GrownFile(t, u, d, name, type, new) ==
    /\ new \in Nodes /\ d \in t.live /\ u.parent[new] = d /\ u.name[new] = name
    /\ u.type[new] = type /\ u.child[new] = <<>> /\ LastTwo(u, d, new)
    /\ Len(u.child[d]) <= 2 => NamesDiffer(u, d)

GrownFiles(t, u, d, name, type, new) ==
    /\ t.live \subseteq u.live /\ u.live \subseteq t.live \union {new}
    /\ \A m \in t.live :
          u.name[m] = t.name[m] /\ u.parent[m] = t.parent[m] /\ u.type[m] = t.type[m]
    /\ new \in u.live \ t.live => GrownFile(t, u, d, name, type, new)
    /\ \A m \in t.live : Junk \notin ToSet(u.child[m]) =>
          /\ Junk \notin ToSet(t.child[m])
          /\ u.child[m] = t.child[m] \/ (m = d /\ new \in u.live \ t.live)

LEMMA GrowsFrom ==
  ASSUME NEW t, Shape(t, cwd, home), NEW p, IsPath(p), NEW type \in {{"reg"}, {"dir"}},
         NEW new \in Allocations(t), NEW u, u = AfterMkfile(t, p, type, new),
         NEW r, r = get_ns_node(t, p)
  PROVE  Grows(t, u, cwd, home, r.node, r.index, r.name, type, new)
<1>1. new \in {NULL, Junk} \/ IsFresh(t, cwd, home, new)
  BY DEF Allocations, Fresh, IsFresh
<1>2. \/ u = t
      \/ /\ r.fault = "none" /\ r.ret = 3 /\ r.node \in t.live /\ "flag" \notin t.type[r.node]
         /\ MayMake(t, r.node, r.index, r.name) /\ r.name \in Names
         /\ \/ new = Junk /\ Lengthened(t, u, r.node)
            \/ new \notin {NULL, Junk} /\ Made(t, u, r.node, r.index, r.name, type, new)
  BY MkfileIs
<1> QED
  BY <1>1, <1>2 DEF Grows, Making

LEMMA MadeFile ==
  ASSUME NEW t, NEW c, NEW h, NEW d, NEW i, NEW name, NEW type, NEW new, NEW u,
         Making(t, c, h, d, i, name, type, new, u)
  PROVE  GrownFile(t, u, d, name, type, new)
<1>1. /\ t \in Trees /\ Root \in Dirs /\ new \in Nodes /\ new \in Dirs /\ new # Root
      /\ d \in Dirs /\ d \in t.live /\ new \notin t.live /\ d # new
      /\ t.child[d] \in Seq(Nodes \union {Junk}) /\ i \in 1..(Len(t.child[d]) + 1)
      /\ Inserted(u.child[d], Nodes \union {Junk}, t.child[d], i, new)
  BY MakingIs
<1>2. /\ u.live = t.live \union {new}
      /\ u.name[new] = name /\ u.type[new] = type
      /\ u.parent[new] = d /\ u.child[new] = <<>>
      /\ \A n \in Dirs \ {new} : u.name[n] = t.name[n]
  <2>1. MadeIs(t, u, d, i, name, type, new)
    BY MakingIs
  <2> QED
    BY <2>1 DEF MadeIs
<1>3. PICK s, q : s = t.child[d] /\ q = u.child[d]
  OBVIOUS
<1>4. PICK n \in Nat : n = Len(s)
  BY <1>1, <1>3
<1>5. /\ Len(q) = n + 1 /\ DOMAIN q = 1..(n + 1) /\ DOMAIN s = 1..n /\ i \in 1..(n + 1)
      /\ \A j \in 1..(n + 1) : q[j] = IF j < i THEN s[j] ELSE IF j = i THEN new ELSE s[j - 1]
  BY <1>1, <1>3, <1>4 DEF Inserted
<1>6. MayMake(t, d, i, name)
  BY DEF Making
<1>7. IF n = 0 THEN i = 1
      ELSE /\ i = n
           /\ \A j \in 1..n : j >= i - 1 => s[j] \in t.live /\ t.name[s[j]] # name
  BY <1>1, <1>3, <1>4, <1>5, <1>6 DEF MayMake
<1>8. q[i] = new /\ i >= n
  BY <1>5, <1>7
<1>9. LastTwo(u, d, new)
  BY <1>3, <1>5, <1>8 DEF LastTwo
<1>10. ASSUME n + 1 <= 2, NEW j \in 1..(n + 1), NEW k \in 1..(n + 1), j # k
       PROVE  u.name[q[j]] # u.name[q[k]]
  <2>1. n = 1 /\ i = 1
    BY <1>4, <1>7, <1>10
  <2>2. q[1] = new /\ q[2] = s[1]
    BY <1>5, <2>1
  <2>3. s[1] \in t.live /\ t.name[s[1]] # name
    BY <1>7, <2>1
  <2>4. s[1] \in Dirs \ {new}
    BY <1>1, <2>3 DEF Trees
  <2>5. u.name[s[1]] # name
    BY <1>2, <2>3, <2>4
  <2>6. (j = 1 /\ k = 2) \/ (j = 2 /\ k = 1)
    BY <1>10, <2>1
  <2> QED
    BY <1>2, <2>2, <2>5, <2>6
<1>11. Len(u.child[d]) <= 2 => NamesDiffer(u, d)
  BY <1>3, <1>5, <1>10 DEF NamesDiffer
<1> QED
  BY <1>1, <1>2, <1>9, <1>11 DEF GrownFile

LEMMA GrowsIs ==
  ASSUME NEW t, NEW c, NEW h, NEW d, NEW i, NEW name, NEW type, NEW new, NEW u,
         Grows(t, u, c, h, d, i, name, type, new)
  PROVE  Grown(t, u, c, h, new) /\ GrownFiles(t, u, d, name, type, new)
<1>1. Shape(t, c, h) /\ t \in Trees /\ t.live \subseteq Dirs
  BY DEF Grows, Shape, Trees
<1>2. CASE u = t
  BY <1>1, <1>2 DEF Grown, GrownFiles
<1>3. CASE new = Junk /\ d \in t.live /\ Lengthened(t, u, d)
  <2>1. Shape(u, c, h)
    BY <1>1, <1>3, LengthenedShape
  <2>2. /\ Exact(t) => Exact(u)
        /\ \A A : Kept(A, t, c, h) => Kept(A, u, c, h)
        /\ JunkThere(u) /\ u # t
    BY <1>1, <1>3, LengthenedKept
  <2>3. /\ u.live = t.live /\ u.name = t.name /\ u.type = t.type /\ u.parent = t.parent
        /\ \A n \in Dirs \ {d} : u.child[n] = t.child[n]
        /\ Len(u.child[d]) = Len(t.child[d]) + 1
        /\ u.child[d][Len(t.child[d]) + 1] = Junk
    BY <1>1, <1>3, LengthenedFields
  <2>4. Junk \in ToSet(u.child[d])
    <3>1. d \in Dirs
      BY <1>1, <1>3
    <3>2. u.child[d] \in Seq(Nodes \union {Junk}) /\ t.child[d] \in Seq(Nodes \union {Junk})
      BY <1>1, <2>1, <3>1 DEF Shape, Trees
    <3>3. Len(t.child[d]) + 1 \in DOMAIN u.child[d]
      BY <2>3, <3>2
    <3> QED
      BY <2>3, <3>3 DEF ToSet
  <2>5. Grown(t, u, c, h, new)
    BY <1>3, <2>1, <2>2, <2>3 DEF Grown, FlagThere
  <2>6. ASSUME NEW m \in t.live, Junk \notin ToSet(u.child[m])
        PROVE  Junk \notin ToSet(t.child[m]) /\ u.child[m] = t.child[m]
    <3>1. m # d /\ m \in Dirs
      BY <1>1, <2>4, <2>6
    <3>2. u.child[m] = t.child[m]
      BY <2>3, <3>1
    <3> QED
      BY <2>6, <3>2
  <2>7. GrownFiles(t, u, d, name, type, new)
    BY <2>3, <2>6 DEF GrownFiles
  <2> QED
    BY <2>5, <2>7
<1>4. CASE Making(t, c, h, d, i, name, type, new, u)
  <2>1. /\ new \in Nodes /\ new \in Dirs /\ d \in Dirs /\ d \in t.live /\ new \notin t.live
        /\ t.child[d] \in Seq(Nodes \union {Junk}) /\ i \in 1..(Len(t.child[d]) + 1)
        /\ Inserted(u.child[d], Nodes \union {Junk}, t.child[d], i, new)
    BY <1>4, MakingIs
  <2>2. /\ u.live = t.live \union {new} /\ u.child[new] = <<>>
        /\ \A n \in Dirs \ {new} :
              u.name[n] = t.name[n] /\ u.type[n] = t.type[n] /\ u.parent[n] = t.parent[n]
        /\ \A n \in Dirs \ {new, d} : u.child[n] = t.child[n]
    <3>1. MadeIs(t, u, d, i, name, type, new)
      BY <1>4, MakingIs
    <3> QED
      BY <3>1 DEF MadeIs
  <2>3. Shape(u, c, h) /\ (Exact(t) => Exact(u))
    BY <1>4, MadeShape, MadeExact
  <2>4. (\E A : Kept(A, t, c, h)) => (\E A : Kept(A, u, c, h))
    BY <1>4, MadeKept
  <2>5. ToSet(u.child[d]) = ToSet(t.child[d]) \union {new}
    <3>1. PICK S, s, q : S = Nodes \union {Junk} /\ s = t.child[d] /\ q = u.child[d]
      OBVIOUS
    <3>2. s \in Seq(S) /\ i \in 1..(Len(s) + 1) /\ new \in S /\ Inserted(q, S, s, i, new)
      BY <2>1, <3>1
    <3>3. ToSet(q) = ToSet(s) \union {new}
      BY <3>2, InsertedSet
    <3> QED
      BY <3>1, <3>3
  <2>6. new # Junk
    BY <2>1, NullIsNoNode
  <2>7. JunkThere(u) => JunkThere(t)
    <3>1. ASSUME NEW m \in Dirs, Junk \in ToSet(u.child[m]) PROVE Junk \in ToSet(t.child[m])
      <4>1. m # new
        BY <2>2, <3>1 DEF ToSet
      <4>2. m # d => u.child[m] = t.child[m]
        BY <2>2, <4>1
      <4> QED
        BY <2>5, <2>6, <3>1, <4>2
    <3> QED
      BY <3>1 DEF JunkThere
  <2>8. FlagThere(t) => FlagThere(u)
    BY <1>1, <2>1, <2>2 DEF FlagThere
  <2>9. GrownFile(t, u, d, name, type, new)
    BY <1>4, MadeFile
  <2>10. ASSUME NEW m \in t.live, Junk \notin ToSet(u.child[m])
        PROVE  /\ Junk \notin ToSet(t.child[m])
               /\ u.child[m] = t.child[m] \/ (m = d /\ new \in u.live \ t.live)
    <3>1. m # new /\ m \in Dirs
      BY <1>1, <2>1
    <3>2. m # d => u.child[m] = t.child[m]
      BY <2>2, <3>1
    <3> QED
      BY <2>1, <2>2, <2>5, <2>10, <3>2
  <2>11. \A m \in t.live :
            u.name[m] = t.name[m] /\ u.parent[m] = t.parent[m] /\ u.type[m] = t.type[m]
    BY <1>1, <2>1, <2>2
  <2>12. GrownFiles(t, u, d, name, type, new)
    BY <2>2, <2>9, <2>10, <2>11 DEF GrownFiles
  <2>13. Grown(t, u, c, h, new)
    BY <2>3, <2>4, <2>7, <2>8 DEF Grown
  <2> QED
    BY <2>12, <2>13
<1> QED
  BY <1>2, <1>3, <1>4 DEF Grows

-----------------------------------------------------------------------------
(* The history: the file made last in a directory is one of the last two of its
   array, and the names in a directory of no more than two differ. *)
NewestAfter(t, M, w) ==
    [d \in Dirs |->
        LET made == {n \in t.live \cap M : d \in t.live /\ t.parent[n] = d} IN
        IF made # {} THEN CHOOSE n \in made : TRUE
        ELSE IF w[d] \in t.live /\ d \in t.live /\ t.parent[w[d]] = d
             THEN w[d] ELSE NULL]

CrowdedAfter(t, k) == {d \in t.live : d \in k \/ Len(t.child[d]) > 2}

Recalls(t, w) ==
    /\ w \in [Dirs -> Nodes \union {NULL}]
    /\ \A d \in Dirs : w[d] # NULL => d \in t.live /\ w[d] \in t.live /\ t.parent[w[d]] = d

Recorded(t, w, k) ==
    \A d \in t.live : Junk \notin ToSet(t.child[d]) =>
        /\ w[d] # NULL => LastTwo(t, d, w[d])
        /\ d \notin k => Len(t.child[d]) <= 2 /\ NamesDiffer(t, d)

IsMade(t, M, d, n) == d \in t.live /\ n \in t.live \cap M /\ t.parent[n] = d

LEMMA NewestIs ==
  ASSUME NEW t, t \in Trees, NEW w \in [Dirs -> Nodes \union {NULL}],
         NEW M, M \subseteq Nodes \union {NULL, Junk}, NEW v, v = NewestAfter(t, M, w)
  PROVE  /\ Recalls(t, v)
         /\ \A d \in Dirs : v[d] # NULL =>
               \/ IsMade(t, M, d, v[d])
               \/ v[d] = w[d] /\ ~(\E n : IsMade(t, M, d, n))
<1>1. t.live \subseteq Dirs
  BY DEF Trees
<1>2. t.live \cap M \subseteq Nodes
  BY <1>1, NullIsNoNode DEF Dirs
<1> DEFINE some(d) == {n \in t.live \cap M : d \in t.live /\ t.parent[n] = d}
           one(d) == CHOOSE n \in some(d) : TRUE
           old(d) == w[d] \in t.live /\ d \in t.live /\ t.parent[w[d]] = d
<1>3. v = [d \in Dirs |-> IF some(d) # {} THEN one(d) ELSE IF old(d) THEN w[d] ELSE NULL]
  BY DEF NewestAfter
<1>7. ASSUME NEW d \in Dirs
      PROVE  v[d] = IF some(d) # {} THEN one(d) ELSE IF old(d) THEN w[d] ELSE NULL
  <2> HIDE DEF some, one, old
  <2> QED
    BY <1>3
<1>8. ASSUME NEW d \in Dirs
      PROVE  \/ IsMade(t, M, d, v[d])
             \/ /\ v[d] = w[d] /\ ~(\E n : IsMade(t, M, d, n))
                /\ d \in t.live /\ w[d] \in t.live /\ t.parent[w[d]] = d
             \/ v[d] = NULL
  <2>1. CASE some(d) # {}
    <3>1. v[d] = one(d)
      <4> HIDE DEF some, one, old
      <4> QED
        BY <1>7, <2>1
    <3>2. one(d) \in some(d)
      <4> HIDE DEF some
      <4> QED
        BY <2>1
    <3> HIDE DEF one
    <3> QED
      BY <3>1, <3>2 DEF IsMade
  <2>2. CASE some(d) = {}
    <3>1. ~(\E n : IsMade(t, M, d, n))
      BY <2>2 DEF IsMade
    <3>2. v[d] = IF old(d) THEN w[d] ELSE NULL
      <4> HIDE DEF some, one, old
      <4> QED
        BY <1>7, <2>2
    <3> HIDE DEF some, one
    <3> QED
      BY <3>1, <3>2
  <2> QED
    BY <2>1, <2>2
<1>4. ASSUME NEW d \in Dirs
      PROVE  /\ v[d] \in Nodes \union {NULL}
             /\ v[d] # NULL => d \in t.live /\ v[d] \in t.live /\ t.parent[v[d]] = d
  BY <1>2, <1>8 DEF IsMade
<1>5. v = [d \in Dirs |-> v[d]]
  BY <1>3
<1>6. Recalls(t, v)
  BY <1>4, <1>5 DEF Recalls
<1> QED
  BY <1>6, <1>8

LEMMA NamesKept ==
  ASSUME NEW t, NEW u, NEW d, u.child[d] = t.child[d], ToSet(t.child[d]) \subseteq t.live,
         \A n \in t.live : u.name[n] = t.name[n], NamesDiffer(t, d)
  PROVE  NamesDiffer(u, d)
<1>1. \A j \in DOMAIN t.child[d] : t.child[d][j] \in t.live
  BY DEF ToSet
<1> QED
  BY <1>1 DEF NamesDiffer

(* adduser(), and mkfile() with nothing for its second file. *)
LEMMA AddedRecorded ==
  ASSUME NEW t, NEW c, NEW h, Exact(t), NEW w, NEW k, Recalls(t, w), Recorded(t, w, k),
         NEW u, NEW d, NEW i, NEW name, NEW type, NEW a,
         Grows(t, u, c, h, d, i, name, type, a),
         NEW x, NEW e, NEW j, NEW other, NEW kind, NEW b,
         Grows(u, x, c, h, e, j, other, kind, b),
         a \in u.live \ t.live /\ b \in x.live \ u.live => d # e,
         NEW M, M \subseteq Nodes \union {NULL, Junk}, x.live \cap M = x.live \cap {a, b},
         NEW v, v = NewestAfter(x, M, w)
  PROVE  Recorded(x, v, CrowdedAfter(x, k))
<1>1. /\ t \in Trees /\ t.live \subseteq Dirs /\ u \in Trees /\ u.live \subseteq Dirs
      /\ Exact(u) /\ GrownFiles(t, u, d, name, type, a) /\ GrownFiles(u, x, e, other, kind, b)
      /\ x \in Trees /\ x.live \subseteq Dirs
  <2>1. Grown(t, u, c, h, a) /\ GrownFiles(t, u, d, name, type, a)
    BY GrowsIs
  <2>2. Grown(u, x, c, h, b) /\ GrownFiles(u, x, e, other, kind, b)
    BY GrowsIs
  <2>3. Shape(t, c, h) /\ Shape(u, c, h) /\ Shape(x, c, h) /\ Exact(u)
    BY <2>1, <2>2 DEF Grown, Grows
  <2> QED
    BY <2>1, <2>2, <2>3 DEF Shape, Trees
<1>2. a \notin t.live /\ b \notin u.live
  <2>1. NULL \notin t.live /\ Junk \notin t.live /\ NULL \notin u.live /\ Junk \notin u.live
    BY <1>1, NullIsNoNode
  <2>2. a \in {NULL, Junk} \/ IsFresh(t, c, h, a)
    BY DEF Grows
  <2>3. b \in {NULL, Junk} \/ IsFresh(u, c, h, b)
    BY DEF Grows
  <2> QED
    BY <2>1, <2>2, <2>3 DEF IsFresh
<1>3. /\ t.live \subseteq u.live /\ u.live \subseteq t.live \union {a}
      /\ \A m \in t.live : u.name[m] = t.name[m] /\ u.parent[m] = t.parent[m]
      /\ a \in u.live \ t.live => GrownFile(t, u, d, name, type, a)
      /\ \A m \in t.live : Junk \notin ToSet(u.child[m]) =>
            /\ Junk \notin ToSet(t.child[m])
            /\ u.child[m] = t.child[m] \/ (m = d /\ a \in u.live \ t.live)
  BY <1>1 DEF GrownFiles
<1>4. /\ u.live \subseteq x.live /\ x.live \subseteq u.live \union {b}
      /\ \A m \in u.live : x.name[m] = u.name[m] /\ x.parent[m] = u.parent[m]
      /\ b \in x.live \ u.live => GrownFile(u, x, e, other, kind, b)
      /\ \A m \in u.live : Junk \notin ToSet(x.child[m]) =>
            /\ Junk \notin ToSet(u.child[m])
            /\ x.child[m] = u.child[m] \/ (m = e /\ b \in x.live \ u.live)
  BY <1>1 DEF GrownFiles
<1>5. /\ Recalls(x, v)
      /\ \A m \in Dirs : v[m] # NULL =>
            \/ IsMade(x, M, m, v[m])
            \/ v[m] = w[m] /\ ~(\E n : IsMade(x, M, m, n))
  BY <1>1, NewestIs DEF Recalls
<1>6. ASSUME NEW m \in x.live, Junk \notin ToSet(x.child[m]), v[m] # NULL
      PROVE  LastTwo(x, m, v[m])
  <2>1. m \in Dirs
    BY <1>1
  <2>2. CASE IsMade(x, M, m, v[m])
    <3>1. v[m] \in x.live /\ v[m] \in {a, b} /\ x.parent[v[m]] = m
      BY <2>2 DEF IsMade
    <3>2. CASE v[m] = b
      <4>1. b \in x.live \ u.live
        BY <1>2, <3>1, <3>2
      <4>2. GrownFile(u, x, e, other, kind, b)
        BY <1>4, <4>1
      <4> QED
        BY <3>1, <3>2, <4>2 DEF GrownFile
    <3>3. CASE v[m] # b
      <4>1. v[m] = a /\ a \in u.live \ t.live
        BY <1>2, <1>4, <3>1, <3>3
      <4>2. GrownFile(t, u, d, name, type, a)
        BY <1>3, <4>1
      <4>3. u.parent[a] = d /\ LastTwo(u, d, a) /\ d \in t.live
        BY <4>2 DEF GrownFile
      <4>4. m = d /\ m \in u.live
        BY <1>3, <1>4, <3>1, <4>1, <4>3
      <4>5. x.child[m] = u.child[m]
        BY <1>4, <1>6, <4>1, <4>4
      <4> QED
        BY <4>1, <4>3, <4>4, <4>5 DEF LastTwo
    <3> QED
      BY <3>2, <3>3
  <2>3. CASE v[m] = w[m] /\ ~(\E n : IsMade(x, M, m, n))
    <3>1. m \in t.live /\ w[m] # NULL
      BY <1>6, <2>1, <2>3 DEF Recalls
    <3>2. m \in u.live
      BY <1>3, <3>1
    <3>3. ASSUME m = e, b \in x.live \ u.live PROVE FALSE
      <4>1. x.parent[b] = e
        BY <1>4, <3>3 DEF GrownFile
      <4>2. IsMade(x, M, m, b)
        BY <1>6, <3>3, <4>1 DEF IsMade
      <4> QED
        BY <2>3, <4>2
    <3>4. x.child[m] = u.child[m] /\ Junk \notin ToSet(u.child[m])
      BY <1>4, <1>6, <3>2, <3>3
    <3>5. ASSUME m = d, a \in u.live \ t.live PROVE FALSE
      <4>1. u.parent[a] = d
        BY <1>3, <3>5 DEF GrownFile
      <4>2. IsMade(x, M, m, a)
        BY <1>4, <1>6, <3>5, <4>1 DEF IsMade
      <4> QED
        BY <2>3, <4>2
    <3>6. u.child[m] = t.child[m] /\ Junk \notin ToSet(t.child[m])
      BY <1>3, <3>1, <3>4, <3>5
    <3>7. LastTwo(t, m, w[m])
      BY <3>1, <3>6 DEF Recorded
    <3> QED
      BY <2>3, <3>4, <3>6, <3>7 DEF LastTwo
  <2> QED
    BY <1>5, <1>6, <2>1, <2>2, <2>3
<1>7. ASSUME NEW m \in x.live, Junk \notin ToSet(x.child[m]), m \notin CrowdedAfter(x, k)
      PROVE  Len(x.child[m]) <= 2 /\ NamesDiffer(x, m)
  <2>1. m \in Dirs /\ x.child[m] \in Seq(Nodes \union {Junk})
    BY <1>1 DEF Trees
  <2>2. Len(x.child[m]) <= 2 /\ m \notin k
    <3>1. ~(Len(x.child[m]) > 2) /\ m \notin k
      BY <1>7 DEF CrowdedAfter
    <3>2. Len(x.child[m]) \in Nat
      BY <2>1
    <3> QED
      BY <3>1, <3>2
  <2>3. CASE m \notin u.live
    <3>1. m = b /\ b \in x.live \ u.live
      BY <1>4, <2>3
    <3>2. x.child[m] = <<>>
      BY <1>4, <3>1 DEF GrownFile
    <3> QED
      BY <2>2, <3>2 DEF NamesDiffer
  <2>4. CASE m = e /\ b \in x.live \ u.live
    <3>1. GrownFile(u, x, e, other, kind, b)
      BY <1>4, <2>4
    <3> QED
      BY <2>2, <2>4, <3>1 DEF GrownFile
  <2>5. CASE m \in u.live /\ ~(m = e /\ b \in x.live \ u.live)
    <3>1. x.child[m] = u.child[m] /\ Junk \notin ToSet(u.child[m])
      BY <1>4, <1>7, <2>5
    <3>2. ToSet(u.child[m]) \subseteq u.live
      BY <1>1, <2>5, <3>1 DEF Exact
    <3>3. NamesDiffer(u, m)
      <4>1. CASE m \notin t.live
        <5>1. m = a /\ a \in u.live \ t.live
          BY <1>3, <2>5, <4>1
        <5>2. u.child[m] = <<>>
          BY <1>3, <5>1 DEF GrownFile
        <5> QED
          BY <5>2 DEF NamesDiffer
      <4>2. CASE m = d /\ a \in u.live \ t.live
        <5>1. GrownFile(t, u, d, name, type, a)
          BY <1>3, <4>2
        <5> QED
          BY <2>2, <3>1, <4>2, <5>1 DEF GrownFile
      <4>3. CASE m \in t.live /\ ~(m = d /\ a \in u.live \ t.live)
        <5>1. u.child[m] = t.child[m] /\ Junk \notin ToSet(t.child[m])
          BY <1>3, <3>1, <4>3
        <5>2. ToSet(t.child[m]) \subseteq t.live
          BY <4>3, <5>1 DEF Exact
        <5>3. NamesDiffer(t, m)
          BY <2>2, <4>3, <5>1 DEF Recorded
        <5>4. \A n \in t.live : u.name[n] = t.name[n]
          BY <1>3
        <5> QED
          BY <5>1, <5>2, <5>3, <5>4, NamesKept
      <4> QED
        BY <4>1, <4>2, <4>3
    <3>4. \A n \in u.live : x.name[n] = u.name[n]
      BY <1>4
    <3>5. NamesDiffer(x, m)
      BY <3>1, <3>2, <3>3, <3>4, NamesKept
    <3> QED
      BY <2>2, <3>5
  <2> QED
    BY <2>3, <2>4, <2>5
<1> QED
  BY <1>6, <1>7 DEF Recorded

(* rmfile(). *)
LEMMA WithoutRecorded ==
  ASSUME NEW t, NEW c, NEW h, Shape(t, c, h), Exact(t), NEW w, NEW k, Recalls(t, w), Recorded(t, w, k),
         NEW x \in t.live \ {Root}, NEW i, Placed(t, x, i), t.parent[x] # x,
         NEW u, Without(t, u, x, i), NEW v, v = NewestAfter(u, {}, w)
  PROVE  Recorded(u, v, CrowdedAfter(u, k))
<1>1. t \in Trees /\ t.live \subseteq Dirs /\ x \in Dirs /\ x \in t.live
  BY DEF Shape, Trees
<1>2. PICK d : d = t.parent[x] /\ d \in Dirs /\ d # x
  BY <1>1 DEF Trees
<1>3. i \in DOMAIN t.child[d] /\ t.child[d][i] = x /\ t.child[d] \in Seq(Nodes \union {Junk})
  BY <1>1, <1>2 DEF Placed, Trees
<1>4. i \in 1..Len(t.child[d])
  BY <1>3
<1>5. /\ u \in Trees
      /\ u.live = t.live \ {x}
      /\ u.child[x] = <<>>
      /\ \A n \in Dirs \ {x} : u.name[n] = t.name[n] /\ u.parent[n] = t.parent[n]
      /\ \A n \in Dirs \ {x, d} : u.child[n] = t.child[n]
      /\ \/ Shortened(u.child[d], Nodes \union {Junk}, t.child[d], i)
         \/ u.child[d] = <<>> /\ t.child[d] = <<>>
  <2>1. Takes(t, t.parent[x], i)
    BY <1>2, <1>4 DEF Takes
  <2>2. WithoutIs(t, u, x, i)
    BY <1>1, <2>1, WithoutFields
  <2> QED
    BY <1>2, <2>2 DEF WithoutIs
<1>6. x # Junk
  BY <1>1, NullIsNoNode
<1>7. PICK s, q : s = t.child[d] /\ q = u.child[d]
  OBVIOUS
<1>8. PICK n \in Nat : n = Len(s)
  BY <1>3, <1>7
<1>9. /\ Shortened(q, Nodes \union {Junk}, s, i)
      /\ Len(q) = n - 1 /\ DOMAIN q = 1..(n - 1) /\ DOMAIN s = 1..n /\ i \in 1..n
      /\ s[i] = x /\ \A j \in 1..(n - 1) : q[j] = IF j < i THEN s[j] ELSE s[j + 1]
  <2>1. Shortened(q, Nodes \union {Junk}, s, i)
    <3>1. s # <<>>
      BY <1>4, <1>7
    <3> QED
      BY <1>5, <1>7, <3>1
  <2> QED
    BY <1>3, <1>4, <1>7, <1>8, <2>1 DEF Shortened
<1>10. d \in t.live
  BY <1>1, <1>2, <1>4 DEF Shape, Housed
<1>11. ToSet(q) = ToSet(s) \ {x}
  <2>1. PICK S : S = Nodes \union {Junk}
    OBVIOUS
  <2>2. s \in Seq(S) /\ i \in 1..Len(s) /\ Shortened(q, S, s, i)
    BY <1>3, <1>7, <1>8, <1>9, <2>1
  <2>3. DistinctBut(s, Junk) /\ s[i] # Junk
    BY <1>6, <1>7, <1>9, <1>10 DEF Exact
  <2>4. ToSet(q) = ToSet(s) \ {s[i]}
    BY <2>2, <2>3, ShortenedSet
  <2> QED
    BY <1>9, <2>4
<1>12. /\ Recalls(u, v)
       /\ \A m \in Dirs : v[m] # NULL => v[m] = w[m]
  <2>1. /\ Recalls(u, v)
        /\ \A m \in Dirs : v[m] # NULL =>
            \/ IsMade(u, {}, m, v[m])
            \/ v[m] = w[m] /\ ~(\E o : IsMade(u, {}, m, o))
    <3>1. PICK M : M = {}
      OBVIOUS
    <3>2. M \subseteq Nodes \union {NULL, Junk} /\ v = NewestAfter(u, M, w)
      BY <3>1
    <3>3. w \in [Dirs -> Nodes \union {NULL}]
      BY DEF Recalls
    <3> HIDE DEF Recalls
    <3>4. /\ Recalls(u, v)
          /\ \A m \in Dirs : v[m] # NULL =>
              \/ IsMade(u, M, m, v[m])
              \/ v[m] = w[m] /\ ~(\E o : IsMade(u, M, m, o))
      BY <1>5, <3>2, <3>3, NewestIs
    <3> QED
      BY <3>1, <3>4
  <2>2. \A m, o : ~IsMade(u, {}, m, o)
    BY DEF IsMade
  <2> QED
    BY <2>1, <2>2
<1>13. ASSUME NEW m \in u.live, Junk \notin ToSet(u.child[m])
       PROVE  /\ v[m] # NULL => LastTwo(u, m, v[m])
              /\ m \notin CrowdedAfter(u, k) => Len(u.child[m]) <= 2 /\ NamesDiffer(u, m)
  <2>1. m \in t.live /\ m # x /\ m \in Dirs /\ u.child[m] \in Seq(Nodes \union {Junk})
    BY <1>1, <1>5 DEF Trees
  <2>2. m \notin CrowdedAfter(u, k) => Len(u.child[m]) <= 2 /\ m \notin k
    <3>1. Len(u.child[m]) \in Nat
      BY <2>1
    <3> QED
      BY <1>13, <3>1 DEF CrowdedAfter
  <2>3. v[m] # NULL => v[m] = w[m] /\ w[m] \in u.live
    BY <1>12, <2>1 DEF Recalls
  <2>4. CASE m # d
    <3>1. u.child[m] = t.child[m]
      BY <1>5, <2>1, <2>4
    <3>2. /\ w[m] # NULL => LastTwo(t, m, w[m])
          /\ m \notin k => NamesDiffer(t, m)
      BY <1>13, <2>1, <3>1 DEF Recorded
    <3>3. ASSUME NEW j \in DOMAIN u.child[m] PROVE u.name[u.child[m][j]] = t.name[u.child[m][j]]
      <4>1. u.child[m][j] \in ToSet(t.child[m])
        BY <3>1 DEF ToSet
      <4>2. u.child[m][j] \in t.live
        BY <1>13, <2>1, <3>1, <4>1 DEF Exact
      <4>3. u.child[m][j] # x
        BY <1>1, <1>2, <2>1, <2>4, <3>1, <3>3 DEF Shape, Housed
      <4> QED
        BY <1>1, <1>5, <4>2, <4>3
    <3>4. m \notin k => NamesDiffer(u, m)
      BY <3>1, <3>2, <3>3 DEF NamesDiffer
    <3>5. v[m] # NULL => LastTwo(u, m, v[m])
      BY <2>3, <3>1, <3>2 DEF LastTwo
    <3> QED
      BY <2>2, <3>4, <3>5
  <2>5. CASE m = d
    <3>1. Junk \notin ToSet(t.child[d])
      BY <1>6, <1>7, <1>11, <1>13, <2>5
    <3>2. /\ w[d] # NULL => LastTwo(t, d, w[d])
          /\ d \notin k => NamesDiffer(t, d)
      BY <2>1, <2>5, <3>1 DEF Recorded
    <3>3. v[m] # NULL => LastTwo(u, m, v[m])
      <4> SUFFICES ASSUME v[m] # NULL PROVE LastTwo(u, m, v[m])
        OBVIOUS
      <4>1. v[m] = w[d] /\ w[d] # x /\ w[d] # NULL
        BY <1>5, <2>3, <2>5
      <4>2. PICK j \in 1..n : s[j] = w[d] /\ j >= n - 1
        BY <1>7, <1>8, <1>9, <3>2, <4>1 DEF LastTwo
      <4>3. j # i
        BY <1>9, <4>1, <4>2
      <4>4. PICK g : g = IF j < i THEN j ELSE j - 1
        OBVIOUS
      <4>5. g \in 1..(n - 1) /\ g >= n - 1 - 1 /\ q[g] = s[j]
        BY <1>8, <1>9, <4>2, <4>3, <4>4
      <4> QED
        BY <1>7, <1>9, <2>5, <4>1, <4>2, <4>5 DEF LastTwo
    <3>4. d \notin k => NamesDiffer(u, d)
      <4> SUFFICES ASSUME d \notin k, NEW a \in 1..(n - 1), NEW b \in 1..(n - 1),
                          u.name[q[a]] = u.name[q[b]]
                   PROVE  a = b
        BY <1>7, <1>9 DEF NamesDiffer
      <4>1. PICK e, f : e = (IF a < i THEN a ELSE a + 1) /\ f = (IF b < i THEN b ELSE b + 1)
        OBVIOUS
      <4>2. e \in 1..n /\ f \in 1..n /\ q[a] = s[e] /\ q[b] = s[f] /\ (e = f => a = b)
        BY <1>8, <1>9, <4>1
      <4>3. q[a] \in ToSet(q) /\ q[b] \in ToSet(q)
        BY <1>9 DEF ToSet
      <4>4. q[a] \in t.live \ {x} /\ q[b] \in t.live \ {x}
        BY <1>7, <1>10, <1>11, <3>1, <4>3 DEF Exact
      <4>5. t.name[s[e]] = t.name[s[f]]
        BY <1>1, <1>5, <4>2, <4>4
      <4>6. e = f
        BY <1>7, <1>9, <3>2, <4>2, <4>5 DEF NamesDiffer
      <4> QED
        BY <4>2, <4>6
    <3> QED
      BY <2>2, <2>5, <3>3, <3>4
  <2> QED
    BY <2>4, <2>5
<1> QED
  BY <1>13 DEF Recorded

(* Only the types differ. *)
LEMMA SameRecorded ==
  ASSUME NEW t, NEW u, u.live = t.live, u.name = t.name, u.parent = t.parent, u.child = t.child,
         NEW v, NEW k, NEW M, NEW w
  PROVE  /\ Recorded(t, v, k) => Recorded(u, v, k)
         /\ NewestAfter(u, M, w) = NewestAfter(t, M, w)
         /\ CrowdedAfter(u, k) = CrowdedAfter(t, k)
         /\ Recalls(t, v) => Recalls(u, v)
<1>1. Recorded(t, v, k) => Recorded(u, v, k)
  BY DEF Recorded, LastTwo, NamesDiffer
<1>2. NewestAfter(u, M, w) = NewestAfter(t, M, w)
  BY DEF NewestAfter
<1>3. CrowdedAfter(u, k) = CrowdedAfter(t, k)
  BY DEF CrowdedAfter
<1>4. Recalls(t, v) => Recalls(u, v)
  BY DEF Recalls
<1> QED
  BY <1>1, <1>2, <1>3, <1>4

LEMMA NewRecorded ==
  ASSUME NEW su \in Nodes, NEW sh \in Nodes, su # sh, NEW u, u = NewTree(su, sh),
         NEW v, v = [d \in Dirs |-> NULL]
  PROVE  Recalls(u, v) /\ Recorded(u, v, {})
<1>1. Root \in Dirs /\ su \in Dirs /\ sh \in Dirs /\ su # Root /\ sh # Root /\ NULL \notin Dirs
  BY NullIsNoNode DEF Dirs
<1>2. /\ u.live = {Root, su, sh}
      /\ u.name = [n \in Dirs |-> IF n = su THEN SU ELSE IF n = sh THEN Shared ELSE Upper]
      /\ u.child = [n \in Dirs |-> IF n = Root THEN <<sh, su>> ELSE <<>>]
  BY DEF NewTree
<1>3. SU # Shared
  BY NameSpaceAssumption
<1>4. PICK q, e : q = <<sh, su>> /\ e = <<>>
  OBVIOUS
<1>5. /\ DOMAIN q = 1..2 /\ Len(q) = 2 /\ q[1] = sh /\ q[2] = su /\ DOMAIN e = {} /\ Len(e) = 0
  BY <1>4
<1>6. u.child[Root] = q /\ \A n \in Dirs \ {Root} : u.child[n] = e
  BY <1>1, <1>2, <1>4
<1>7. u.name[sh] = Shared /\ u.name[su] = SU
  BY <1>1, <1>2
<1>8. ASSUME NEW d \in u.live PROVE v[d] = NULL /\ Len(u.child[d]) <= 2 /\ NamesDiffer(u, d)
  <2>1. d \in Dirs /\ v[d] = NULL
    BY <1>1, <1>2
  <2>2. CASE d = Root
    <3>1. ASSUME NEW a \in 1..2, NEW b \in 1..2, a # b PROVE u.name[q[a]] # u.name[q[b]]
      <4>1. (a = 1 /\ b = 2) \/ (a = 2 /\ b = 1)
        BY <3>1
      <4> QED
        BY <1>3, <1>5, <1>7, <4>1
    <3>2. NamesDiffer(u, Root)
      BY <1>5, <1>6, <3>1 DEF NamesDiffer
    <3>3. Len(u.child[Root]) <= 2
      <4>1. PICK l \in Nat : l = 2 /\ l <= 2
        OBVIOUS
      <4>2. Len(u.child[Root]) = l
        <5>1. u.child[Root] = q /\ Len(q) = 2
          BY <1>5, <1>6
        <5> QED
          BY <4>1, <5>1
      <4> QED
        BY <4>1, <4>2
    <3> QED
      BY <2>1, <2>2, <3>2, <3>3
  <2>3. CASE d # Root
    <3>1. u.child[d] = e
      BY <1>6, <2>1, <2>3
    <3>2. NamesDiffer(u, d)
      BY <1>5, <3>1 DEF NamesDiffer
    <3>3. Len(u.child[d]) <= 2
      BY <1>5, <3>1
    <3> QED
      BY <2>1, <3>2, <3>3
  <2> QED
    BY <2>2, <2>3
<1>9. Recorded(u, v, {})
  BY <1>8 DEF Recorded
<1>10. Recalls(u, v)
  BY DEF Recalls
<1> QED
  BY <1>9, <1>10

(* The name of one of the last two files is found. *)
LEMMA LastFound ==
  ASSUME NEW t, NEW d, NEW n, NEW name, t.child[d] \in Seq(Nodes \union {Junk}),
         ToSet(t.child[d]) \subseteq t.live, LastTwo(t, d, n), t.name[n] = name
  PROVE  /\ t.child[d] # <<>> /\ Binary(t, d, name) \in DOMAIN t.child[d]
         /\ t.name[t.child[d][Binary(t, d, name)]] = name
<1>1. PICK len \in Nat : len = Len(t.child[d])
  OBVIOUS
<1>2. PICK p \in 1..len : t.child[d][p] = n /\ p >= len - 1
  BY <1>1 DEF LastTwo
<1>3. len \in Nat \ {0} /\ DOMAIN t.child[d] = 1..len /\ t.child[d] # <<>>
  BY <1>1, <1>2
<1>4. PICK i : i = Binary(t, d, name)
  OBVIOUS
<1>5. /\ i \in 1..len
      /\ i < len => Stops(t, d, name, i)
      /\ len > 1 /\ Stops(t, d, name, len - 1) => i < len
  BY <1>1, <1>3, <1>4, BinaryIs
<1>6. t.child[d][i] \in t.live
  BY <1>3, <1>5 DEF ToSet
<1>7. CASE i < len
  BY <1>3, <1>4, <1>5, <1>6, <1>7 DEF Stops
<1>8. CASE ~(i < len)
  <2>1. i = len
    BY <1>5, <1>8
  <2>2. p = len \/ (p = len - 1 /\ len > 1)
    BY <1>2, <1>3
  <2>3. p # len - 1 \/ ~(len > 1)
    BY <1>2, <1>5, <1>8 DEF Stops
  <2>4. p = i
    BY <2>1, <2>2, <2>3
  <2> QED
    BY <1>2, <1>3, <1>4, <1>5, <2>4
<1> QED
  BY <1>7, <1>8

-----------------------------------------------------------------------------
(* What the callers of get_ns_node() may rely on. *)
FoundBy(t, c, h, p, r) ==
    /\ r \in LookStates
    /\ r.fault = "null" => h = NULL \/ FlagThere(t)
    /\ r.fault = "junk" => JunkThere(t)
    /\ r.fault = "none" =>
          /\ r.node \in t.live \/ (r.node = NULL /\ r.ret = 0 /\ FlagThere(t))
          /\ r.node \in t.live => "flag" \notin t.type[r.node]
          /\ p.comps # <<>> /\ r.ret = 0 /\ r.node # NULL => Placed(t, r.node, r.index)
          /\ p.comps = <<>> => (p.abs /\ r.node = Root) \/ (r.node = c /\ r.index = 1)
    /\ \A A : Exact(t) /\ Kept(A, t, c, h) => r.fault # "freed" /\ r.node \in A \union {NULL}

LEMMA Lookup ==
  ASSUME NEW t, Shape(t, cwd, home), NEW p, IsPath(p), NEW r, r = get_ns_node(t, p)
  PROVE  FoundBy(t, cwd, home, p, r)
<1>1. /\ OnWay(t, home, r, Len(p.comps))
      /\ \A A : Whole(t) /\ Encloses(A, t, cwd, home) => Inside(A, r)
  BY LookupFinds
<1>2. PICK N \in Nat : N = Len(p.comps)
  BY DEF IsPath
<1>3. r.fault = "none" => Standing(t, r, N)
  BY <1>1, <1>2 DEF OnWay
<1>4. p.comps # <<>> => N > 0
  BY <1>2 DEF IsPath
<1>5. ASSUME p.comps = <<>> PROVE (p.abs /\ r.node = Root) \/ (r.node = cwd /\ r.index = 1)
  <2>1. PICK a : Turns(a, t, p) /\ r = EndOf(a[Len(p.comps)], p.slash)
    BY LookupTurns
  <2>2. Len(p.comps) = 0
    BY <1>5
  <2>3. r = EndOf(StartOf(t, p), p.slash)
    BY <2>1, <2>2 DEF Turns
  <2>4. PICK s : s = StartOf(t, p)
    OBVIOUS
  <2>5. s.ret = 0 /\ s.node = (IF p.abs THEN Root ELSE cwd) /\ s.index = (IF p.abs THEN 2 ELSE 1)
    BY <2>4 DEF StartOf
  <2>6. r = s
    BY <2>3, <2>4, <2>5 DEF EndOf
  <2> QED
    BY <2>5, <2>6 DEF IsPath
<1>6. ASSUME NEW A, Exact(t), Kept(A, t, cwd, home) PROVE r.fault # "freed" /\ r.node \in A \union {NULL}
  <2>1. Inside(A, r)
    BY <1>1, <1>6, ExactWhole DEF Kept
  <2> QED
    BY <2>1 DEF Inside
<1>7. r.node \in t.live => r.node # NULL
  BY NullIsNoNode DEF Shape, Trees
<1> QED
  BY <1>1, <1>3, <1>4, <1>5, <1>6, <1>7 DEF FoundBy, OnWay, Standing

(* The first component, from the root. *)
RootStart == [ret |-> 0, node |-> Root, name |-> Upper, index |-> 2, fault |-> "none"]

FromRoot(t, name, s) ==
    \/ s.fault # "none"
    \/ s.ret = 3 /\ s.node = Root
    \/ s.ret = 0 /\ s.node \in t.live \ {Root}

Reaches(t, name, s, i) ==
    t.child[Root] # <<>> /\ i = Binary(t, Root, name) /\ t.child[Root][i] \in t.live
    /\ t.name[t.child[Root][i]] = name => s.fault = "none" /\ s.ret = 0 /\ s.node = t.child[Root][i]

LEMMA RootTurn ==
  ASSUME NEW t, NEW c, NEW h, Shape(t, c, h), NEW name \in Names, name # Upper,
         NEW s, s = Turn(t, RootStart, name)
  PROVE  FromRoot(t, name, s) /\ \A i : Reaches(t, name, s, i)
<1>1. t \in Trees /\ Root \in t.live /\ "dir" \in t.type[Root] /\ Root \in Dirs /\ t.live \subseteq Dirs
  BY DEF Shape, Dirs, Trees
<1>2. PICK z : z = RootStart
  OBVIOUS
<1>3. /\ z.ret = 0 /\ z.node = Root /\ z.fault = "none" /\ z.name = Upper
      /\ z = [ret |-> 0, node |-> Root, name |-> Upper, index |-> 2, fault |-> "none"]
  BY <1>2 DEF RootStart
<1>4. z \in LookStates
  <2>1. Upper \in Names /\ 0 \in 0..4 /\ 2 \in Nat
    BY DEF Names
  <2> QED
    BY <1>1, <1>3, <2>1 DEF LookStates
<1>5. CASE t.child[Root] = <<>>
  <2>1. s = [z EXCEPT !.ret = 3, !.index = 1, !.name = name]
    BY <1>1, <1>2, <1>3, <1>5 DEF Turn
  <2>2. PICK r, i : r = 3 /\ i = 1 /\ r \in 0..4 /\ i \in Nat
    OBVIOUS
  <2>3. s = Miss(z, r, i, name)
    BY <2>1, <2>2 DEF Miss
  <2>4. s = [ret |-> r, node |-> z.node, name |-> name, index |-> i, fault |-> z.fault]
    BY <1>4, <2>2, <2>3, Missed
  <2>5. s.ret = 3 /\ s.node = Root
    BY <1>3, <2>2, <2>4
  <2> QED
    BY <1>5, <2>5 DEF FromRoot, Reaches
<1>6. CASE t.child[Root] # <<>>
  <2>1. PICK len, i, n : len = Len(t.child[Root]) /\ i = Binary(t, Root, name) /\ n = t.child[Root][i]
    OBVIOUS
  <2>2. t.child[Root] \in Seq(Nodes \union {Junk})
    BY <1>1 DEF Trees
  <2>3. len \in Nat \ {0} /\ DOMAIN t.child[Root] = 1..len
    BY <1>6, <2>1, <2>2
  <2>4. i \in 1..len /\ i \in Nat
    BY <2>1, <2>3, BinaryIs
  <2>5. CASE n \notin t.live
    <3>1. s = [z EXCEPT !.fault = FaultAt(n)]
      BY <1>1, <1>2, <1>3, <1>6, <2>1, <2>5 DEF Turn
    <3>2. s.fault = FaultAt(n)
      BY <1>3, <3>1
    <3>3. s.fault # "none"
      BY <3>2 DEF FaultAt
    <3> QED
      BY <2>1, <2>5, <3>3 DEF FromRoot, Reaches
  <2>6. CASE n \in t.live /\ t.name[n] # name
    <3>1. s = [z EXCEPT !.ret = 3, !.index = i, !.name = name]
      BY <1>1, <1>2, <1>3, <1>6, <2>1, <2>6 DEF Turn
    <3>2. PICK r : r = 3 /\ r \in 0..4
      OBVIOUS
    <3>3. s = Miss(z, r, i, name)
      BY <3>1, <3>2 DEF Miss
    <3>4. s = [ret |-> r, node |-> z.node, name |-> name, index |-> i, fault |-> z.fault]
      BY <1>4, <2>4, <3>2, <3>3, Missed
    <3>5. s.ret = 3 /\ s.node = Root
      BY <1>3, <3>2, <3>4
    <3> QED
      BY <2>1, <2>6, <3>5 DEF FromRoot, Reaches
  <2>7. CASE n \in t.live /\ t.name[n] = name
    <3>1. n \in Dirs /\ n # Root /\ t.parent[n] = Root
      <4>1. n \in Nodes \union {Junk}
        BY <2>1, <2>2, <2>3, <2>4
      <4>2. t.parent[n] = Root
        BY <1>1, <2>1, <2>3, <2>4, <2>7 DEF Shape, Housed
      <4> QED
        BY <1>1, <2>7, <4>1, <4>2, NullIsNoNode
    <3>2. "flag" \notin t.type[n]
      BY <3>1 DEF Shape, Flags
    <3>3. PICK e : e = [z EXCEPT !.index = i]
      OBVIOUS
    <3>4. s = Arrive(t, e, 0, n)
      BY <1>1, <1>2, <1>3, <1>6, <2>1, <2>7, <3>3 DEF Turn
    <3>5. e = [ret |-> 0, node |-> Root, name |-> Upper, index |-> i, fault |-> "none"]
      BY <1>3, <3>3
    <3>6. s = [e EXCEPT !.ret = 0, !.node = n]
      <4>1. ~({"dir", "flag"} \subseteq t.type[n])
        BY <3>2
      <4> QED
        BY <2>7, <3>4, <4>1 DEF Arrive
    <3>7. s.ret = 0 /\ s.node = n /\ s.fault = "none"
      BY <3>5, <3>6
    <3> QED
      BY <2>1, <2>7, <3>1, <3>7 DEF FromRoot, Reaches
  <2> QED
    BY <2>5, <2>6, <2>7
<1> QED
  BY <1>5, <1>6

LEMMA NamePaths ==
  ASSUME NEW name \in Names
  PROVE  IsPath(Abs(<<name>>)) /\ IsPath(Abs(<<name, Shared>>))
<1>1. Shared \in Names
  BY DEF Names
<1> QED
  BY <1>1 DEF IsPath, Abs

LEMMA HomeLookup ==
  ASSUME NEW t, Shape(t, cwd, home), NEW name \in Names, name # Upper,
         NEW r, r = get_ns_node(t, Abs(<<name>>))
  PROVE  FromRoot(t, name, r) /\ \A i : Reaches(t, name, r, i)
<1>1. PICK p : p = Abs(<<name>>)
  OBVIOUS
<1>2. /\ p.abs = TRUE /\ p.slash = FALSE /\ Len(p.comps) = 1 /\ p.comps[1] = name /\ IsPath(p)
  BY <1>1, NamePaths DEF Abs
<1>3. PICK a : Turns(a, t, p) /\ get_ns_node(t, p) = EndOf(a[Len(p.comps)], p.slash)
  BY <1>2, LookupTurns
<1>4. r = a[1]
  BY <1>1, <1>2, <1>3 DEF EndOf
<1>5. a[0] = StartOf(t, p) /\ a[1] = Turn(t, a[0], p.comps[1])
  <2>1. 1 \in 1..Len(p.comps) /\ 1 - 1 = 0
    BY <1>2
  <2> QED
    BY <1>3, <2>1 DEF Turns
<1>6. StartOf(t, p) = RootStart
  <2>1. Root \in t.live
    BY DEF Shape
  <2> QED
    BY <1>2, <2>1 DEF StartOf, RootStart
<1>7. r = Turn(t, RootStart, name)
  BY <1>2, <1>4, <1>5, <1>6
<1> QED
  BY <1>7, RootTurn

LEMMA SharedLookup ==
  ASSUME NEW t, Shape(t, cwd, home), NEW name \in Names, name # Upper,
         NEW r, r = get_ns_node(t, Abs(<<name, Shared>>)), r.fault = "none", r.ret = 3
  PROVE  r.node # Root
<1>1. PICK p : p = Abs(<<name, Shared>>)
  OBVIOUS
<1>2. /\ p.abs = TRUE /\ p.slash = FALSE /\ Len(p.comps) = 2 /\ p.comps[1] = name
      /\ p.comps[2] = Shared /\ IsPath(p)
  BY <1>1, NamePaths DEF Abs
<1>3. PICK a : Turns(a, t, p) /\ get_ns_node(t, p) = EndOf(a[Len(p.comps)], p.slash)
  BY <1>2, LookupTurns
<1>4. r = a[2]
  BY <1>1, <1>2, <1>3 DEF EndOf
<1>5. a[0] = StartOf(t, p) /\ a[1] = Turn(t, a[0], name) /\ a[2] = Turn(t, a[1], Shared)
  <2>1. 1 \in 1..Len(p.comps) /\ 1 - 1 = 0 /\ 2 \in 1..Len(p.comps) /\ 2 - 1 = 1
    BY <1>2
  <2> QED
    BY <1>2, <1>3, <2>1 DEF Turns
<1>6. StartOf(t, p) = RootStart
  <2>1. Root \in t.live
    BY DEF Shape
  <2> QED
    BY <1>2, <2>1 DEF StartOf, RootStart
<1>7. PICK s : s = a[1]
  OBVIOUS
<1>8. FromRoot(t, name, s)
  BY <1>5, <1>6, <1>7, RootTurn
<1>9. s \in LookStates
  <2>1. OnWay(t, home, StartOf(t, p), 0)
    BY <1>2, StartOnWay
  <2>2. PICK k \in Nat : k = 0
    OBVIOUS
  <2>3. OnWay(t, home, Turn(t, StartOf(t, p), name), k + 1)
    BY <2>1, <2>2, TurnOnWay
  <2> QED
    BY <1>5, <1>7, <2>3 DEF OnWay
<1>10. r = Turn(t, s, Shared)
  BY <1>4, <1>5, <1>7
<1>11. CASE s.fault # "none"
  BY <1>10, <1>11 DEF Turn
<1>12. CASE s.fault = "none" /\ s.ret = 3 /\ s.node = Root
  <2>1. r = [s EXCEPT !.ret = 4]
    BY <1>10, <1>12 DEF Turn
  <2>2. r.ret = 4
    BY <1>9, <2>1 DEF LookStates
  <2> QED
    BY <2>2
<1>13. CASE s.fault = "none" /\ s.ret = 0 /\ s.node \in t.live \ {Root}
  <2>1. Shared # Upper
    BY NameSpaceAssumption
  <2>2. PICK n : n = t.child[s.node][Binary(t, s.node, Shared)]
    OBVIOUS
  <2>3. CASE "dir" \notin t.type[s.node]
    <3>1. r = [s EXCEPT !.ret = 1]
      BY <1>10, <1>13, <2>3 DEF Turn
    <3>2. r.ret = 1
      BY <1>9, <3>1 DEF LookStates
    <3> QED
      BY <3>2
  <2>4. CASE "dir" \in t.type[s.node] /\ t.child[s.node] = <<>>
    <3>1. r = [s EXCEPT !.ret = 3, !.index = 1, !.name = Shared]
      BY <1>10, <1>13, <2>1, <2>4 DEF Turn
    <3>2. r.node = s.node
      BY <1>9, <3>1 DEF LookStates
    <3> QED
      BY <1>13, <3>2
  <2>5. CASE "dir" \in t.type[s.node] /\ t.child[s.node] # <<>> /\ n \notin t.live
    <3>1. r = [s EXCEPT !.fault = FaultAt(n)]
      BY <1>10, <1>13, <2>1, <2>2, <2>5 DEF Turn
    <3>2. r.fault = FaultAt(n)
      BY <1>9, <3>1 DEF LookStates
    <3> QED
      BY <3>2 DEF FaultAt
  <2>6. CASE "dir" \in t.type[s.node] /\ t.child[s.node] # <<>> /\ n \in t.live /\ t.name[n] # Shared
    <3>1. PICK i : i = Binary(t, s.node, Shared)
      OBVIOUS
    <3>2. r = [s EXCEPT !.ret = 3, !.index = i, !.name = Shared]
      BY <1>10, <1>13, <2>1, <2>2, <2>6, <3>1 DEF Turn
    <3>3. r.node = s.node
      BY <1>9, <3>2 DEF LookStates
    <3> QED
      BY <1>13, <3>3
  <2>7. CASE "dir" \in t.type[s.node] /\ t.child[s.node] # <<>> /\ n \in t.live /\ t.name[n] = Shared
    <3>1. PICK e, i : i = Binary(t, s.node, Shared) /\ e = [s EXCEPT !.index = i]
      OBVIOUS
    <3>2. r = Arrive(t, e, 0, n)
      BY <1>10, <1>13, <2>1, <2>2, <2>7, <3>1 DEF Turn
    <3>3. PICK m : m = IF {"dir", "flag"} \subseteq t.type[n] THEN shared_dir ELSE n
      OBVIOUS
    <3>4. r = [e EXCEPT !.ret = 0, !.node = m]
      BY <2>7, <3>2, <3>3 DEF Arrive
    <3>5. e = [ret |-> s.ret, node |-> s.node, name |-> s.name, index |-> i, fault |-> s.fault]
      BY <1>9, <3>1 DEF LookStates
    <3>6. r.ret = 0
      BY <3>4, <3>5
    <3> QED
      BY <3>6
  <2> QED
    BY <2>3, <2>4, <2>5, <2>6, <2>7
<1> QED
  BY <1>8, <1>11, <1>12, <1>13 DEF FromRoot

-----------------------------------------------------------------------------
(* The inductive invariant.  As long as rmfile() has not been given the current or
   home directory or one above, the arrays are exact and nothing that can be
   reached has been freed; the bad pointers that are followed have a reason. *)
Sound(t, c, h, w, k, tn, ct) ==
    /\ Shape(t, c, h) /\ Recalls(t, w) /\ k \subseteq Dirs
    /\ JunkThere(t) => tn
    /\ ~ct => Exact(t) /\ (\E A : Kept(A, t, c, h)) /\ Recorded(t, w, k)

Causes(f, t, h, tn, ct) ==
    /\ f \in {"none", "null", "junk", "freed", "literal", "memory", "mkfile"}
    /\ f = "junk" => tn
    /\ f = "freed" => ct
    /\ f = "null" => h = NULL \/ FlagThere(t)

(* The file of the users: a user added is in no earlier line, and no later line is
   of the same user or of the super user. *)
LineOf(us, u, p) ==
    /\ p \in DOMAIN us /\ us[p] = u
    /\ \A q \in DOMAIN us : q < p => <<u, us[q]>> \notin Matches
    /\ \A q \in DOMAIN us : q > p => us[q] \in Users \ {u}

Lines(us, ad) ==
    /\ us = NoFile \/ us \in Seq(Users \union {SU})
    /\ ad \subseteq Users
    /\ \A u \in ad : us \in Seq(Users \union {SU}) /\ \E p : LineOf(us, u, p)

IInv ==
    /\ Sound(tree, cwd, home, newest, crowded, torn, cut)
    /\ Causes(fault, tree, home, torn, cut)
    /\ Lines(users, added)
    /\ starts \in 1..MaxStarts /\ changes \in 0..MaxChanges

(* No user has the name of the directory above. *)
NamesAreNames == Upper \notin Users

LEMMA PathsArePaths ==
  ASSUME NEW p \in Paths
  PROVE  IsPath(p)
<1>1. p.comps \in Seq(ToSet(p.comps)) /\ p.abs \in BOOLEAN /\ p.slash \in BOOLEAN
  BY NameSpaceAssumption
<1>2. ToSet(p.comps) \subseteq Names
  BY DEF Names
<1>3. PICK S, q : S = ToSet(p.comps) /\ q = p.comps
  OBVIOUS
<1>4. q \in Seq(S) /\ S \subseteq Names
  BY <1>1, <1>2, <1>3
<1>5. q \in Seq(Names)
  BY <1>4
<1> QED
  BY <1>1, <1>3, <1>5 DEF IsPath

LEMMA Moved ==
  ASSUME NEW t, NEW c, NEW h, Shape(t, c, h), NEW n \in t.live, "flag" \notin t.type[n],
         NEW g \in {h, n}
  PROVE  /\ Shape(t, n, g)
         /\ \A A : Kept(A, t, c, h) /\ n \in A => Kept(A, t, n, g)
<1>1. n \in Dirs
  BY DEF Shape, Trees
<1>2. Shape(t, n, g)
  BY <1>1 DEF Shape, Flags
<1>3. ASSUME NEW A, Kept(A, t, c, h), n \in A PROVE Kept(A, t, n, g)
  BY <1>3 DEF Kept, Encloses
<1> QED
  BY <1>2, <1>3

(* The fault of a lookup. *)
LEMMA LookupCauses ==
  ASSUME NEW t, NEW c, NEW h, NEW p, NEW r, FoundBy(t, c, h, p, r), NEW tn, NEW ct,
         JunkThere(t) => tn, ~ct => Exact(t) /\ \E A : Kept(A, t, c, h)
  PROVE  Causes(r.fault, t, h, tn, ct)
<1>1. r.fault \in {"none", "null", "junk", "freed"}
  BY DEF FoundBy, LookStates
<1> QED
  BY <1>1 DEF FoundBy, Causes

LEMMA SoundSame ==
  ASSUME NEW t, NEW c, NEW h, NEW w, NEW k, NEW tn, NEW ct, Sound(t, c, h, w, k, tn, ct),
         NEW v, v = NewestAfter(t, {}, w)
  PROVE  Sound(t, c, h, v, CrowdedAfter(t, k), tn, ct)
<1>1. t \in Trees /\ t.live \subseteq Dirs /\ Shape(t, c, h) /\ Recalls(t, w)
  BY DEF Sound, Shape, Trees
<1>2. Recalls(t, v)
  <2>1. PICK M : M = {}
    OBVIOUS
  <2>2. M \subseteq Nodes \union {NULL, Junk} /\ v = NewestAfter(t, M, w)
    BY <2>1
  <2>3. w \in [Dirs -> Nodes \union {NULL}]
    BY <1>1 DEF Recalls
  <2> QED
    BY <1>1, <2>2, <2>3, NewestIs
<1>3. CrowdedAfter(t, k) \subseteq Dirs
  BY <1>1 DEF CrowdedAfter
<1>4. ASSUME Exact(t), Recorded(t, w, k) PROVE Recorded(t, v, CrowdedAfter(t, k))
  <2>1. PICK a, M : a = NULL /\ M = {}
    OBVIOUS
  <2>2. \A d, i, name, type : Grows(t, t, c, h, d, i, name, type, a)
    BY <1>1, <2>1 DEF Grows
  <2>3. M \subseteq Nodes \union {NULL, Junk} /\ t.live \cap M = t.live \cap {a, a}
    BY <1>1, <2>1, NullIsNoNode
  <2>4. ~(a \in t.live \ t.live /\ a \in t.live \ t.live)
    OBVIOUS
  <2>5. PICK d, i, name, type : Grows(t, t, c, h, d, i, name, type, a)
    BY <2>2
  <2>6. v = NewestAfter(t, M, w)
    BY <2>1
  <2> HIDE DEF Exact, Recorded, Recalls, Grows, NewestAfter, CrowdedAfter
  <2> QED
    BY <1>1, <1>4, <2>3, <2>4, <2>5, <2>6, AddedRecorded
<1> QED
  BY <1>1, <1>2, <1>3, <1>4 DEF Sound

LEMMA SoundGrown ==
  ASSUME NEW t, NEW c, NEW h, NEW w, NEW k, NEW tn, NEW ct, Sound(t, c, h, w, k, tn, ct),
         NEW u, NEW d, NEW i, NEW name, NEW type, NEW a,
         Grows(t, u, c, h, d, i, name, type, a),
         NEW x, NEW e, NEW j, NEW other, NEW kind, NEW b,
         Grows(u, x, c, h, e, j, other, kind, b),
         a \in u.live \ t.live /\ b \in x.live \ u.live => d # e,
         NEW M, M \subseteq Nodes \union {NULL, Junk}, x.live \cap M = x.live \cap {a, b},
         NEW v, v = NewestAfter(x, M, w),
         NEW un, tn => un, a = Junk /\ u # t => un, b = Junk /\ x # u => un
  PROVE  Sound(x, c, h, v, CrowdedAfter(x, k), un, ct)
<1>1. Grown(t, u, c, h, a) /\ Grown(u, x, c, h, b)
  BY GrowsIs
<1>2. Shape(x, c, h) /\ x \in Trees /\ x.live \subseteq Dirs
  BY <1>1 DEF Grown, Shape, Trees
<1>3. Recalls(x, v)
  <2>1. w \in [Dirs -> Nodes \union {NULL}]
    BY DEF Sound, Recalls
  <2> HIDE DEF Recalls, NewestAfter
  <2> QED
    BY <1>2, <2>1, NewestIs
<1>4. CrowdedAfter(x, k) \subseteq Dirs
  BY <1>2 DEF CrowdedAfter
<1>5. JunkThere(x) => un
  BY <1>1 DEF Grown, Sound
<1>6. ~ct => Exact(x) /\ \E A : Kept(A, x, c, h)
  BY <1>1 DEF Grown, Sound
<1>7. ~ct => Recorded(x, v, CrowdedAfter(x, k))
  <2>1. ~ct => Exact(t) /\ Recalls(t, w) /\ Recorded(t, w, k)
    BY DEF Sound
  <2> QED
    BY <2>1, AddedRecorded
<1> QED
  BY <1>2, <1>3, <1>4, <1>5, <1>6, <1>7 DEF Sound

-----------------------------------------------------------------------------
(* Every step keeps the invariant. *)
LEMMA Remembers ==
  ASSUME NEW t, NEW M, Remember(t, M)
  PROVE  newest' = NewestAfter(t, M, newest) /\ crowded' = CrowdedAfter(t, crowded)
<1>1. newest' = NewestAfter(t, M, newest)
  BY DEF Remember, NewestAfter
<1>2. crowded' = CrowdedAfter(t, crowded)
  BY DEF Remember, CrowdedAfter
<1> QED
  BY <1>1, <1>2

LEMMA CausesLift ==
  ASSUME NEW f, NEW t, NEW h, NEW tn, NEW ct, Causes(f, t, h, tn, ct), NEW u, NEW un,
         FlagThere(t) => FlagThere(u), tn => un
  PROVE  Causes(f, u, h, un, ct)
BY DEF Causes

LEMMA Counted ==
  ASSUME changes \in 0..MaxChanges, MayChange, Count
  PROVE  changes' \in 0..MaxChanges
<1>1. MaxChanges \in Nat
  BY NameSpaceAssumption
<1> QED
  BY <1>1 DEF MayChange, Count

LEMMA MkfileKeeps ==
  ASSUME IInv, NEW path \in Paths, NEW type \in {{"reg"}, {"dir"}}, NEW new \in Allocations(tree),
         mkfile(path, type, new)
  PROVE  IInv'
<1>1. PICK r, u : r = get_ns_node(tree, path) /\ u = tree'
  OBVIOUS
<1>2. /\ MayChange /\ u = AfterMkfile(tree, path, type, new)
      /\ fault' = r.fault /\ (torn' <=> torn \/ (new = Junk /\ u # tree))
      /\ Count /\ Remember(u, {new})
      /\ cwd' = cwd /\ home' = home /\ users' = users /\ starts' = starts /\ added' = added
      /\ cut' = cut
  BY <1>1 DEF mkfile
<1>3. Sound(tree, cwd, home, newest, crowded, torn, cut) /\ IsPath(path)
  BY PathsArePaths DEF IInv
<1>4. Shape(tree, cwd, home)
  BY <1>3 DEF Sound
<1>5. Grows(tree, u, cwd, home, r.node, r.index, r.name, type, new)
  BY <1>1, <1>2, <1>3, <1>4, GrowsFrom
<1>6. Grown(tree, u, cwd, home, new)
  BY <1>5, GrowsIs
<1>7. PICK b : b = NULL
  OBVIOUS
<1>8. Grows(u, u, cwd, home, r.node, r.index, r.name, type, b)
  BY <1>6, <1>7 DEF Grown, Grows
<1>9. PICK M : M = {new}
  OBVIOUS
<1>10. M \subseteq Nodes \union {NULL, Junk} /\ u.live \cap M = u.live \cap {new, b}
  <2>1. NULL \notin u.live
    BY <1>6, NullIsNoNode DEF Grown, Shape, Trees
  <2>2. new \in Nodes \union {NULL, Junk}
    BY DEF Allocations, Fresh
  <2> QED
    BY <1>7, <1>9, <2>1, <2>2
<1>11. newest' = NewestAfter(u, M, newest) /\ crowded' = CrowdedAfter(u, crowded)
  BY <1>2, <1>9, Remembers
<1>12. ~(new \in u.live \ tree.live /\ b \in u.live \ u.live)
  OBVIOUS
<1>13. PICK un : un <=> torn'
  OBVIOUS
<1>14. /\ torn => un
       /\ new = Junk /\ u # tree => un
       /\ b = Junk /\ u # u => un
  BY <1>2, <1>13
<1>15. PICK v : v = newest'
  OBVIOUS
<1>16. Sound(u, cwd, home, v, CrowdedAfter(u, crowded), un, cut)
  <2>1. v = NewestAfter(u, M, newest)
    BY <1>11, <1>15
  <2> HIDE DEF Sound, Grows, NewestAfter, CrowdedAfter
  <2> QED
    BY <1>3, <1>5, <1>8, <1>10, <1>12, <1>14, <2>1, SoundGrown
<1>17. Sound(tree, cwd, home, newest, crowded, torn, cut)'
  BY <1>1, <1>2, <1>11, <1>13, <1>15, <1>16 DEF Sound
<1>18. Causes(r.fault, tree, home, torn, cut)
  <2>1. FoundBy(tree, cwd, home, path, r)
    BY <1>1, <1>3, <1>4, Lookup
  <2>2. JunkThere(tree) => torn
    BY <1>3 DEF Sound
  <2>3. ~cut => Exact(tree) /\ \E A : Kept(A, tree, cwd, home)
    BY <1>3 DEF Sound
  <2> QED
    BY <2>1, <2>2, <2>3, LookupCauses
<1>19. Causes(r.fault, u, home, un, cut)
  BY <1>6, <1>14, <1>18, CausesLift DEF Grown
<1>20. Causes(fault, tree, home, torn, cut)'
  BY <1>1, <1>2, <1>13, <1>19 DEF Causes
<1>21. changes' \in 0..MaxChanges
  BY <1>2, Counted DEF IInv
<1>22. Lines(users, added)' /\ (starts \in 1..MaxStarts)'
  BY <1>2 DEF IInv
<1> QED
  BY <1>17, <1>20, <1>21, <1>22 DEF IInv

LEMMA SoundMoved ==
  ASSUME NEW t, NEW c, NEW h, NEW w, NEW k, NEW tn, NEW ct, Sound(t, c, h, w, k, tn, ct),
         NEW p, NEW r, FoundBy(t, c, h, p, r), r.fault = "none", r.node # NULL, NEW g \in {h, r.node}
  PROVE  Sound(t, r.node, g, w, k, tn, ct)
<1>1. PICK n : n = r.node
  OBVIOUS
<1>2. n \in t.live /\ "flag" \notin t.type[n] /\ g \in {h, n} /\ Shape(t, c, h)
  BY <1>1 DEF FoundBy, Sound
<1>3. /\ Shape(t, n, g)
      /\ \A A : Kept(A, t, c, h) /\ n \in A => Kept(A, t, n, g)
  BY <1>2, Moved
<1>4. \A A : Exact(t) /\ Kept(A, t, c, h) => n \in A
  BY <1>1 DEF FoundBy
<1>5. Exact(t) /\ (\E A : Kept(A, t, c, h)) => \E A : Kept(A, t, n, g)
  BY <1>3, <1>4
<1>6. Sound(t, n, g, w, k, tn, ct)
  BY <1>3, <1>5 DEF Sound
<1> QED
  BY <1>1, <1>6

(* The fault of a caller that reads the node. *)
LEMMA ReachedCauses ==
  ASSUME NEW t, NEW c, NEW h, Shape(t, c, h), NEW p, NEW r, FoundBy(t, c, h, p, r), NEW tn, NEW ct,
         Causes(r.fault, t, h, tn, ct)
  PROVE  Causes(Reached(r), t, h, tn, ct) /\ (Reached(r) = "none" => r.fault = "none" /\ r.node # NULL)
<1>1. CASE r.fault # "none" \/ r.node # NULL
  <2>1. Reached(r) = r.fault
    BY <1>1 DEF Reached
  <2> QED
    BY <1>1, <2>1
<1>2. CASE r.fault = "none" /\ r.node = NULL
  <2>1. Reached(r) = "null"
    BY <1>2 DEF Reached
  <2>2. NULL \notin t.live
    BY NullIsNoNode DEF Shape, Trees
  <2>3. FlagThere(t)
    BY <1>2, <2>2 DEF FoundBy
  <2>4. Causes(Reached(r), t, h, tn, ct)
    BY <2>1, <2>3 DEF Causes
  <2> QED
    BY <2>1, <2>4
<1> QED
  BY <1>1, <1>2

LEMMA CdKeeps ==
  ASSUME IInv, NEW path \in Paths, cd(path)
  PROVE  IInv'
<1>1. PICK r : r = get_ns_node(tree, path)
  OBVIOUS
<1>2. PICK bad : bad = IF r.ret = 0 THEN Reached(r) ELSE r.fault
  OBVIOUS
<1>3. /\ fault' = bad
      /\ cwd' = IF bad = "none" /\ (r.ret = 2 \/ (r.ret = 0 /\ tree.type[r.node] = {"dir"}))
                THEN r.node ELSE cwd
      /\ tree' = tree /\ home' = home /\ users' = users /\ starts' = starts /\ changes' = changes
      /\ newest' = newest /\ crowded' = crowded /\ added' = added /\ cut' = cut /\ torn' = torn
  BY <1>1, <1>2 DEF cd, count, history
<1>4. Sound(tree, cwd, home, newest, crowded, torn, cut) /\ IsPath(path)
  BY PathsArePaths DEF IInv
<1>5. Shape(tree, cwd, home)
  BY <1>4 DEF Sound
<1>6. FoundBy(tree, cwd, home, path, r)
  BY <1>1, <1>4, <1>5, Lookup
<1>7. Causes(r.fault, tree, home, torn, cut)
  <2>1. JunkThere(tree) => torn
    BY <1>4 DEF Sound
  <2>2. ~cut => Exact(tree) /\ \E A : Kept(A, tree, cwd, home)
    BY <1>4 DEF Sound
  <2> QED
    BY <1>6, <2>1, <2>2, LookupCauses
<1>8. /\ Causes(Reached(r), tree, home, torn, cut)
      /\ Reached(r) = "none" => r.fault = "none" /\ r.node # NULL
  BY <1>5, <1>6, <1>7, ReachedCauses
<1>9. Causes(bad, tree, home, torn, cut)
  BY <1>2, <1>7, <1>8
<1>10. bad = "none" /\ r.ret \in {0, 2} => r.fault = "none" /\ r.node # NULL
  <2>1. r.fault = "none" /\ r.node = NULL => r.ret = 0
    <3>1. NULL \notin tree.live
      BY <1>5, NullIsNoNode DEF Shape, Trees
    <3> QED
      BY <1>6, <3>1 DEF FoundBy
  <2> QED
    BY <1>2, <1>8, <2>1
<1>11. Sound(tree, cwd', home, newest, crowded, torn, cut)
  <2>1. CASE bad = "none" /\ r.ret \in {0, 2} /\ cwd' = r.node
    BY <1>4, <1>6, <1>10, <2>1, SoundMoved
  <2>2. CASE cwd' = cwd
    BY <1>4, <2>2
  <2> QED
    BY <1>3, <2>1, <2>2
<1>12. Sound(tree, cwd, home, newest, crowded, torn, cut)'
  BY <1>3, <1>11
<1>13. Causes(fault, tree, home, torn, cut)'
  BY <1>3, <1>9
<1> QED
  BY <1>3, <1>12, <1>13 DEF IInv

LEMMA LsKeeps ==
  ASSUME IInv, NEW path \in Paths, ls(path)
  PROVE  IInv'
<1>1. PICK r : r = get_ns_node(tree, path)
  OBVIOUS
<1>2. /\ fault' = IF r.ret \in {0, 2} THEN Reached(r) ELSE r.fault
      /\ cwd' = cwd
      /\ tree' = tree /\ home' = home /\ users' = users /\ starts' = starts /\ changes' = changes
      /\ newest' = newest /\ crowded' = crowded /\ added' = added /\ cut' = cut /\ torn' = torn
  BY <1>1 DEF ls, count, history
<1>3. Sound(tree, cwd, home, newest, crowded, torn, cut) /\ IsPath(path)
  BY PathsArePaths DEF IInv
<1>4. Shape(tree, cwd, home)
  BY <1>3 DEF Sound
<1>5. FoundBy(tree, cwd, home, path, r)
  BY <1>1, <1>3, <1>4, Lookup
<1>6. Causes(r.fault, tree, home, torn, cut)
  <2>1. JunkThere(tree) => torn
    BY <1>3 DEF Sound
  <2>2. ~cut => Exact(tree) /\ \E A : Kept(A, tree, cwd, home)
    BY <1>3 DEF Sound
  <2> QED
    BY <1>5, <2>1, <2>2, LookupCauses
<1>7. Causes(Reached(r), tree, home, torn, cut)
  BY <1>4, <1>5, <1>6, ReachedCauses
<1>8. Causes(fault, tree, home, torn, cut)'
  BY <1>2, <1>6, <1>7
<1>9. Sound(tree, cwd, home, newest, crowded, torn, cut)'
  BY <1>2, <1>3
<1> QED
  BY <1>2, <1>8, <1>9 DEF IInv

(* The first line that get_user_info_by_name() prints is a line of the file. *)
LEMMA FirstLine ==
  ASSUME Lines(users, added), NEW name, get_user_info_by_name(name) # {}
  PROVE  users[Min(get_user_info_by_name(name))] \in Users \union {SU}
<1>1. PICK L : L = get_user_info_by_name(name)
  OBVIOUS
<1>2. users # NoFile /\ L \subseteq DOMAIN users
  BY <1>1 DEF get_user_info_by_name
<1>3. users \in Seq(Users \union {SU})
  BY <1>2 DEF Lines
<1>4. L \subseteq Nat
  BY <1>2, <1>3
<1>5. \E x \in L : \A y \in L : x <= y
  BY <1>1, <1>4, LeastNat
<1>6. Min(L) \in L
  BY <1>5 DEF Min
<1> QED
  BY <1>1, <1>2, <1>3, <1>6

LEMMA LoginKeeps ==
  ASSUME NamesAreNames, IInv, NEW name, NEW pw, user_login(name, pw)
  PROVE  IInv'
<1>1. PICK u, p, r : /\ u = users[Min(get_user_info_by_name(name))] /\ p = Abs(<<u>>)
                     /\ r = get_ns_node(tree, p)
  OBVIOUS
<1>2. /\ fault' = r.fault /\ get_user_info_by_name(name) # {}
      /\ IF r.fault = "none" /\ r.ret \in {0, 2} THEN cwd' = r.node /\ home' = r.node
         ELSE cwd' = cwd /\ home' = home
      /\ tree' = tree /\ users' = users /\ starts' = starts /\ changes' = changes
      /\ newest' = newest /\ crowded' = crowded /\ added' = added /\ cut' = cut /\ torn' = torn
  BY <1>1 DEF user_login, count, history
<1>3. Sound(tree, cwd, home, newest, crowded, torn, cut) /\ Lines(users, added)
  BY DEF IInv
<1>4. Shape(tree, cwd, home)
  BY <1>3 DEF Sound
<1>5. u \in Names /\ u # Upper
  <2>1. u \in Users \union {SU}
    BY <1>1, <1>2, <1>3, FirstLine
  <2>2. SU # Upper
    BY NameSpaceAssumption
  <2> QED
    BY <2>1, <2>2 DEF Names, NamesAreNames
<1>6. IsPath(p)
  BY <1>1, <1>5, NamePaths
<1>7. FoundBy(tree, cwd, home, p, r)
  BY <1>1, <1>4, <1>6, Lookup
<1>8. Causes(r.fault, tree, home, torn, cut)
  <2>1. JunkThere(tree) => torn
    BY <1>3 DEF Sound
  <2>2. ~cut => Exact(tree) /\ \E A : Kept(A, tree, cwd, home)
    BY <1>3 DEF Sound
  <2> QED
    BY <1>7, <2>1, <2>2, LookupCauses
<1>9. CASE r.fault = "none" /\ r.ret \in {0, 2}
  <2>1. FromRoot(tree, u, r)
    BY <1>1, <1>4, <1>5, HomeLookup
  <2>2. r.node \in tree.live
    BY <1>9, <2>1 DEF FromRoot
  <2>3. r.node # NULL
    BY <1>4, <2>2, NullIsNoNode DEF Shape, Trees
  <2>4. PICK g : g = r.node /\ g \in {home, r.node}
    OBVIOUS
  <2>5. Sound(tree, r.node, g, newest, crowded, torn, cut)
    BY <1>3, <1>7, <1>9, <2>3, <2>4, SoundMoved
  <2>6. Sound(tree, cwd, home, newest, crowded, torn, cut)'
    BY <1>2, <1>9, <2>4, <2>5
  <2>7. Causes(fault, tree, home, torn, cut)'
    BY <1>2, <1>9 DEF Causes
  <2> QED
    BY <1>2, <1>3, <2>6, <2>7 DEF IInv
<1>10. CASE ~(r.fault = "none" /\ r.ret \in {0, 2})
  <2>1. Sound(tree, cwd, home, newest, crowded, torn, cut)'
    BY <1>2, <1>3, <1>10
  <2>2. Causes(fault, tree, home, torn, cut)'
    BY <1>2, <1>8, <1>10
  <2> QED
    BY <1>2, <1>3, <2>1, <2>2 DEF IInv
<1> QED
  BY <1>9, <1>10

LEMMA RmfileIs ==
  ASSUME IInv, NEW path \in Paths, rmfile(path), NEW r, r = get_ns_node(tree, path)
  PROVE  /\ MayChange /\ Count /\ Remember(tree', {})
         /\ cwd' = cwd /\ home' = home /\ users' = users /\ starts' = starts /\ added' = added
         /\ torn' = torn
         /\ \/ /\ RmfileFault(r) = "none" /\ fault' = "none" /\ r.ret = 0
               /\ Without(tree, tree', r.node, r.index)
               /\ cut' <=> cut \/ r.node \in Above(cwd) \/ (home # NULL /\ r.node \in Above(home))
            \/ /\ fault' = IF RmfileFault(r) = "none" THEN "memory" ELSE RmfileFault(r)
               /\ tree' = tree /\ cut' = cut
<1>1. /\ MayChange /\ Count /\ Remember(tree', {})
      /\ cwd' = cwd /\ home' = home /\ users' = users /\ starts' = starts /\ added' = added
      /\ torn' = torn
  BY DEF rmfile
<1>2. r.ret = 0 \/ r.fault # "none"
  BY DEF rmfile
<1>3. \/ /\ RmfileFault(r) = "none" /\ fault' = "none"
         /\ tree' = AfterRmfile(r)
         /\ cut' <=> cut \/ r.node \in Above(cwd) \/ (home # NULL /\ r.node \in Above(home))
      \/ /\ fault' = IF RmfileFault(r) = "none" THEN "memory" ELSE RmfileFault(r)
         /\ tree' = tree /\ cut' = cut
  BY DEF rmfile
<1>4. RmfileFault(r) = "none" => r.fault = "none"
  BY DEF RmfileFault, Reached
<1>5. tree' = AfterRmfile(r) => Without(tree, tree', r.node, r.index)
  BY DEF AfterRmfile, Removed, Without
<1> QED
  BY <1>1, <1>2, <1>3, <1>4, <1>5

LEMMA RmfileCauses ==
  ASSUME NEW c, NEW h, Shape(tree, c, h), NEW p, NEW r, FoundBy(tree, c, h, p, r), NEW tn, NEW ct,
         Causes(r.fault, tree, h, tn, ct), ~ct => Exact(tree) /\ \E A : Kept(A, tree, c, h)
  PROVE  /\ Causes(RmfileFault(r), tree, h, tn, ct)
         /\ RmfileFault(r) = "none" => r.fault = "none" /\ r.node \in tree.live \ {Root}
<1>1. /\ Causes(Reached(r), tree, h, tn, ct)
      /\ Reached(r) = "none" => r.fault = "none" /\ r.node # NULL
  BY ReachedCauses
<1>2. CASE Reached(r) # "none"
  <2>1. RmfileFault(r) = Reached(r)
    BY <1>2 DEF RmfileFault
  <2> QED
    BY <1>1, <1>2, <2>1
<1>3. CASE Reached(r) = "none"
  <2>1. r.fault = "none" /\ r.node \in tree.live
    BY <1>1, <1>3 DEF FoundBy
  <2>2. RmfileFault(r) = IF tree.parent[r.node] \notin tree.live THEN "freed"
                         ELSE IF r.node = Root THEN "literal" ELSE "none"
    BY <1>3 DEF RmfileFault
  <2>3. ~ct => tree.parent[r.node] \in tree.live
    <3> SUFFICES ASSUME ~ct PROVE tree.parent[r.node] \in tree.live
      OBVIOUS
    <3>1. PICK A : Exact(tree) /\ Kept(A, tree, c, h)
      OBVIOUS
    <3>2. r.node \in A
      BY <1>1, <1>3, <3>1 DEF FoundBy
    <3> QED
      BY <3>1, <3>2 DEF Kept, Encloses
  <2>4. Causes(RmfileFault(r), tree, h, tn, ct)
    <3>1. RmfileFault(r) \in {"freed", "literal", "none"}
      BY <2>2
    <3>2. RmfileFault(r) = "freed" => ct
      BY <2>2, <2>3
    <3> QED
      BY <3>1, <3>2 DEF Causes
  <2>5. RmfileFault(r) = "none" => r.node # Root
    BY <2>2
  <2> QED
    BY <2>1, <2>4, <2>5
<1> QED
  BY <1>2, <1>3

LEMMA SoundWithout ==
  ASSUME NEW c, NEW h, NEW w, NEW k, NEW tn, NEW ct, Sound(tree, c, h, w, k, tn, ct),
         c = cwd, h = home, NEW p, NEW r, FoundBy(tree, c, h, p, r), r.fault = "none", r.ret = 0,
         r.node \in tree.live \ {Root}, NEW u, Without(tree, u, r.node, r.index),
         NEW v, v = NewestAfter(u, {}, w), NEW un,
         un <=> ct \/ r.node \in Above(c) \/ (h # NULL /\ r.node \in Above(h))
  PROVE  Sound(u, c, h, v, CrowdedAfter(u, k), tn, un)
<1>1. PICK x, i : x = r.node /\ i = r.index
  OBVIOUS
<1>2. Shape(tree, c, h) /\ Recalls(tree, w) /\ tree \in Trees /\ tree.live \subseteq Dirs
  BY DEF Sound, Shape, Trees
<1>3. x \in tree.live \ {Root} /\ x \in Dirs /\ x # NULL /\ Without(tree, u, x, i)
  BY <1>1, <1>2, NullIsNoNode
<1>4. p.comps # <<>> => Placed(tree, x, i)
  BY <1>1, <1>3 DEF FoundBy
<1>5. p.comps = <<>> => x = c /\ i = 1
  BY <1>1, <1>3 DEF FoundBy
<1>6. Takes(tree, tree.parent[x], i)
  <2>1. tree.child[tree.parent[x]] \in Seq(Nodes \union {Junk})
    BY <1>2, <1>3 DEF Trees
  <2>2. CASE p.comps # <<>>
    BY <1>4, <2>1, <2>2 DEF Placed, Takes
  <2>3. CASE p.comps = <<>>
    BY <1>5, <2>1, <2>3 DEF Takes
  <2> QED
    BY <2>2, <2>3
<1>7. Shape(u, c, h)
  BY <1>2, <1>3, <1>6, WithoutShape
<1>8. u \in Trees /\ u.live \subseteq Dirs
  BY <1>7 DEF Shape, Trees
<1>9. Recalls(u, v)
  <2>1. PICK M : M = {}
    OBVIOUS
  <2>2. M \subseteq Nodes \union {NULL, Junk} /\ v = NewestAfter(u, M, w)
    BY <2>1
  <2>3. w \in [Dirs -> Nodes \union {NULL}]
    BY <1>2 DEF Recalls
  <2> HIDE DEF Recalls
  <2> QED
    BY <1>8, <2>2, <2>3, NewestIs
<1>10. CrowdedAfter(u, k) \subseteq Dirs
  BY <1>8 DEF CrowdedAfter
<1>11. JunkThere(u) => JunkThere(tree)
  <2>1. EntriesOf(tree, u, x)
    BY <1>2, <1>3, <1>6, WithoutEntries
  <2> QED
    BY <2>1 DEF EntriesOf, JunkThere, ToSet
<1>12. ASSUME ~un PROVE Exact(u) /\ (\E B : Kept(B, u, c, h)) /\ Recorded(u, v, CrowdedAfter(u, k))
  <2>1. ~ct /\ x \notin Above(c) /\ (h # NULL => x \notin Above(h))
    BY <1>1, <1>12
  <2>2. Exact(tree) /\ Recorded(tree, w, k)
    BY <2>1 DEF Sound
  <2>3. PICK A : Kept(A, tree, c, h)
    BY <2>1 DEF Sound
  <2>4. /\ A \subseteq Dirs /\ c \in A /\ Rooted(A, tree) /\ Root \in A
        /\ \A n \in A : tree.parent[n] \in A
    BY <1>2, <2>3 DEF Kept, Encloses
  <2>5. tree.parent \in [Dirs -> Dirs] /\ tree.parent[Root] = Root
    BY <1>2 DEF Shape, Trees
  <2>6. c \in Above(c)
    BY <2>4, <2>5, AboveHas
  <2>7. Placed(tree, x, i)
    BY <1>4, <1>5, <2>1, <2>6
  <2>8. x \in A \ {Root}
    BY <1>1, <1>3, <2>2, <2>3 DEF FoundBy
  <2>9. tree.parent[x] # x
    <3> SUFFICES ASSUME tree.parent[x] = x PROVE FALSE
      OBVIOUS
    <3>1. {x} \in SUBSET A /\ {x} # {} /\ \A n \in {x} : tree.parent[n] \in {x}
      BY <2>8
    <3>2. Root \in {x}
      BY <2>4, <3>1 DEF Rooted
    <3> QED
      BY <2>8, <3>2
  <2>10. Exact(u) /\ (\E B : Kept(B, u, c, h))
    BY <1>2, <1>3, <2>1, <2>2, <2>3, <2>7, <2>8, WithoutKept
  <2>11. Recorded(u, v, CrowdedAfter(u, k))
    <3> HIDE DEF Recorded, CrowdedAfter, NewestAfter
    <3> QED
      BY <1>2, <1>3, <2>2, <2>7, <2>9, WithoutRecorded
  <2> QED
    BY <2>10, <2>11
<1>13. JunkThere(u) => tn
  BY <1>11 DEF Sound
<1> QED
  BY <1>7, <1>9, <1>10, <1>12, <1>13 DEF Sound

LEMMA RmfileKeeps ==
  ASSUME IInv, NEW path \in Paths, rmfile(path)
  PROVE  IInv'
<1>1. PICK r : r = get_ns_node(tree, path)
  OBVIOUS
<1>2. /\ MayChange /\ Count /\ Remember(tree', {})
      /\ cwd' = cwd /\ home' = home /\ users' = users /\ starts' = starts /\ added' = added
      /\ torn' = torn
      /\ \/ /\ RmfileFault(r) = "none" /\ fault' = "none" /\ r.ret = 0
            /\ Without(tree, tree', r.node, r.index)
            /\ cut' <=> cut \/ r.node \in Above(cwd) \/ (home # NULL /\ r.node \in Above(home))
         \/ /\ fault' = IF RmfileFault(r) = "none" THEN "memory" ELSE RmfileFault(r)
            /\ tree' = tree /\ cut' = cut
  BY <1>1, RmfileIs
<1>3. Sound(tree, cwd, home, newest, crowded, torn, cut) /\ IsPath(path)
  BY PathsArePaths DEF IInv
<1>4. Shape(tree, cwd, home) /\ (JunkThere(tree) => torn)
  BY <1>3 DEF Sound
<1>5. ~cut => Exact(tree) /\ \E A : Kept(A, tree, cwd, home)
  BY <1>3 DEF Sound
<1>6. FoundBy(tree, cwd, home, path, r)
  BY <1>1, <1>3, <1>4, Lookup
<1>7. Causes(r.fault, tree, home, torn, cut)
  BY <1>4, <1>5, <1>6, LookupCauses
<1>8. /\ Causes(RmfileFault(r), tree, home, torn, cut)
      /\ RmfileFault(r) = "none" => r.fault = "none" /\ r.node \in tree.live \ {Root}
  BY <1>4, <1>5, <1>6, <1>7, RmfileCauses
<1>9. newest' = NewestAfter(tree', {}, newest) /\ crowded' = CrowdedAfter(tree', crowded)
  BY <1>2, Remembers
<1>10. PICK u, v, un : u = tree' /\ v = newest' /\ (un <=> cut')
  OBVIOUS
<1>11. CASE /\ RmfileFault(r) = "none" /\ fault' = "none" /\ r.ret = 0
            /\ Without(tree, tree', r.node, r.index)
            /\ cut' <=> cut \/ r.node \in Above(cwd) \/ (home # NULL /\ r.node \in Above(home))
  <2>1. Without(tree, u, r.node, r.index) /\ v = NewestAfter(u, {}, newest)
    BY <1>9, <1>10, <1>11
  <2>2. un <=> cut \/ r.node \in Above(cwd) \/ (home # NULL /\ r.node \in Above(home))
    BY <1>10, <1>11
  <2>3. r.fault = "none" /\ r.ret = 0 /\ r.node \in tree.live \ {Root}
    BY <1>8, <1>11
  <2>4. PICK c, h : c = cwd /\ h = home
    OBVIOUS
  <2>5. Sound(u, c, h, v, CrowdedAfter(u, crowded), torn, un)
    <3>1. Sound(tree, c, h, newest, crowded, torn, cut) /\ FoundBy(tree, c, h, path, r)
      BY <1>3, <1>6, <2>4
    <3>2. un <=> cut \/ r.node \in Above(c) \/ (h # NULL /\ r.node \in Above(h))
      BY <2>2, <2>4
    <3> QED
      BY <2>1, <2>3, <2>4, <3>1, <3>2, SoundWithout
  <2>6. Sound(tree, cwd, home, newest, crowded, torn, cut)'
    BY <1>2, <1>9, <1>10, <2>4, <2>5 DEF Sound
  <2>7. Causes(fault, tree, home, torn, cut)'
    BY <1>11 DEF Causes
  <2> QED
    BY <1>2, <2>6, <2>7, Counted DEF IInv
<1>12. CASE /\ fault' = IF RmfileFault(r) = "none" THEN "memory" ELSE RmfileFault(r)
            /\ tree' = tree /\ cut' = cut
  <2>1. v = NewestAfter(tree, {}, newest)
    BY <1>9, <1>10, <1>12
  <2>2. Sound(tree, cwd, home, v, CrowdedAfter(tree, crowded), torn, cut)
    BY <1>3, <2>1, SoundSame
  <2>3. Sound(tree, cwd, home, newest, crowded, torn, cut)'
    BY <1>2, <1>9, <1>10, <1>12, <2>2
  <2>4. Causes("memory", tree, home, torn, cut)
    BY DEF Causes
  <2>5. Causes(fault, tree, home, torn, cut)'
    BY <1>2, <1>8, <1>12, <2>4
  <2> QED
    BY <1>2, <2>3, <2>5, Counted DEF IInv
<1> QED
  BY <1>2, <1>11, <1>12

(* adduser(): the line, the two calls of mkfile() and the flag. *)
LEMMA AddLines ==
  ASSUME NEW us, NEW ad, Lines(us, ad), us # NoFile, NEW name \in Users,
         \A i \in DOMAIN us : <<name, us[i]>> \notin Matches, NEW vs, vs = Append(us, name)
  PROVE  Lines(vs, ad) /\ Lines(vs, ad \union {name})
<1>1. PICK S : S = Users \union {SU}
  OBVIOUS
<1>2. us \in Seq(S) /\ name \in S
  BY <1>1 DEF Lines
<1>3. PICK n \in Nat : n = Len(us)
  BY <1>2
<1>4. /\ vs \in Seq(S) /\ DOMAIN us = 1..n /\ DOMAIN vs = 1..(n + 1)
      /\ vs[n + 1] = name /\ \A j \in 1..n : vs[j] = us[j]
  BY <1>2, <1>3
<1>5. <<name, name>> \in Matches
  BY NameSpaceAssumption
<1>6. LineOf(vs, name, n + 1)
  <2>1. n + 1 \in DOMAIN vs
    BY <1>4
  <2>2. \A q \in DOMAIN vs : q < n + 1 => <<name, vs[q]>> \notin Matches
    BY <1>4
  <2>3. \A q \in DOMAIN vs : ~(q > n + 1)
    BY <1>4
  <2> QED
    BY <1>4, <2>1, <2>2, <2>3 DEF LineOf
<1>7. ASSUME NEW u \in ad PROVE \E p : LineOf(vs, u, p)
  <2>1. PICK p : LineOf(us, u, p)
    BY DEF Lines
  <2>2. p \in 1..n /\ us[p] = u
    BY <1>4, <2>1 DEF LineOf
  <2>3. u # name
    BY <1>4, <1>5, <2>2
  <2>4. p \in DOMAIN vs /\ vs[p] = u
    BY <1>4, <2>2
  <2>5. ASSUME NEW q \in DOMAIN vs, q < p PROVE <<u, vs[q]>> \notin Matches
    <3>1. q \in 1..n
      BY <1>4, <2>2, <2>5
    <3> QED
      BY <1>4, <2>1, <2>5, <3>1 DEF LineOf
  <2>6. ASSUME NEW q \in DOMAIN vs, q > p PROVE vs[q] \in Users \ {u}
    <3>1. CASE q = n + 1
      BY <1>4, <2>3, <3>1
    <3>2. CASE q # n + 1
      <4>1. q \in 1..n
        BY <1>4, <3>2
      <4> QED
        BY <1>4, <2>1, <2>6, <4>1 DEF LineOf
    <3> QED
      BY <3>1, <3>2
  <2>7. LineOf(vs, u, p)
    BY <2>4, <2>5, <2>6 DEF LineOf
  <2> QED
    BY <2>7
<1>8. vs \in Seq(Users \union {SU}) /\ ad \subseteq Users
  BY <1>1, <1>4 DEF Lines
<1>9. Lines(vs, ad)
  BY <1>7, <1>8 DEF Lines
<1>10. Lines(vs, ad \union {name})
  BY <1>6, <1>7, <1>8 DEF Lines
<1> QED
  BY <1>9, <1>10

LEMMA SoundMarked ==
  ASSUME NEW t, NEW c, NEW h, NEW w, NEW k, NEW tn, NEW ct, Sound(t, c, h, w, k, tn, ct),
         NEW x \in t.live \ {Root}, x # c, x # h, "dir" \in t.type[x], t.parent[x] # Root,
         \A m \in t.live : t.parent[m] # x, NEW u, Marked(t, u, x)
  PROVE  Sound(u, c, h, w, k, tn, ct) /\ FlagThere(u)
<1>1. t \in Trees /\ x \in Dirs /\ Shape(t, c, h)
  BY DEF Sound, Shape, Trees
<1>2. Shape(u, c, h)
  BY <1>1, MarkedShape
<1>3. /\ u.live = t.live /\ u.name = t.name /\ u.parent = t.parent /\ u.child = t.child
      /\ u.type[x] = t.type[x] \union {"flag"}
  BY <1>1, MarkedFields
<1>4. /\ Exact(t) => Exact(u)
      /\ \A A : Kept(A, t, c, h) => Kept(A, u, c, h)
      /\ JunkThere(u) => JunkThere(t)
  BY <1>1, MarkedKept
<1>5. /\ Recorded(t, w, k) => Recorded(u, w, k)
      /\ Recalls(t, w) => Recalls(u, w)
  BY <1>3, SameRecorded
<1>6. FlagThere(u)
  BY <1>3 DEF FlagThere
<1> QED
  BY <1>2, <1>4, <1>5, <1>6 DEF Sound

(* A file is only made when the lookup says where. *)
LEMMA GrowsWhen ==
  ASSUME NEW t, NEW p, NEW type, NEW new, NEW u, u = AfterMkfile(t, p, type, new), u # t,
         NEW r, r = get_ns_node(t, p)
  PROVE  r.fault = "none" /\ r.ret = 3
BY DEF AfterMkfile

(* The shared directory of the user is made below his home. *)
LEMMA MadeForFlag ==
  ASSUME NEW t, Shape(t, cwd, home), NEW p, IsPath(p), NEW new \in Allocations(t),
         new \notin {NULL, Junk}, NEW u, u = AfterMkfile(t, p, {"dir"}, new),
         NEW r, r = get_ns_node(t, p), r.fault = "none", r.ret = 3, r.node # Root
  PROVE  /\ new \in u.live \ {Root} /\ new # cwd /\ new # home /\ "dir" \in u.type[new]
         /\ u.parent[new] # Root /\ \A m \in u.live : u.parent[m] # new
<1>1. PICK type : type = {"dir"}
  OBVIOUS
<1>2. Grows(t, u, cwd, home, r.node, r.index, r.name, type, new)
  BY <1>1, GrowsFrom
<1>3. GrownFiles(t, u, r.node, r.name, type, new)
  BY <1>2, GrowsIs
<1>4. u.live = t.live \union {new}
  BY DEF AfterMkfile
<1>5. IsFresh(t, cwd, home, new)
  BY <1>2 DEF Grows
<1>6. new \in u.live \ t.live /\ Root \in t.live
  BY <1>4, <1>5 DEF IsFresh, Shape
<1>7. GrownFile(t, u, r.node, r.name, type, new)
  BY <1>3, <1>6 DEF GrownFiles
<1>8. /\ r.node \in t.live /\ u.parent[new] = r.node /\ u.type[new] = type
  BY <1>7 DEF GrownFile
<1>9. ASSUME NEW m \in u.live PROVE u.parent[m] # new
  <2>1. CASE m = new
    BY <1>6, <1>8, <2>1
  <2>2. CASE m # new
    <3>1. m \in t.live
      BY <1>4, <2>2
    <3>2. u.parent[m] = t.parent[m]
      BY <1>3, <3>1 DEF GrownFiles
    <3> QED
      BY <1>5, <3>1, <3>2 DEF IsFresh
  <2> QED
    BY <2>1, <2>2
<1> QED
  BY <1>1, <1>5, <1>6, <1>8, <1>9 DEF IsFresh

AddFault(r0, r, new) ==
    IF r0.fault # "none" THEN r0.fault
    ELSE IF r.fault # "none" THEN r.fault
    ELSE IF r.ret # 3 \/ new \in {NULL, Junk} THEN "mkfile" ELSE "none"

Adds(name, newHome, newShared, t, u, bad) ==
    /\ MayChange /\ Count /\ Remember(tree', {newHome, newShared})
    /\ users # NoFile /\ get_user_info_by_name(name) = {}
    /\ newHome \in Allocations(tree) /\ newShared \in Allocations(t)
    /\ users' = Append(users, name) /\ fault' = bad
    /\ tree' = IF bad = "none" THEN Flagged(u, newHome, newShared) ELSE u
    /\ torn' <=> torn \/ (newHome = Junk /\ t # tree) \/ (newShared = Junk /\ u # t)
    /\ added' \in {added, added \union {name}}
    /\ cwd' = cwd /\ home' = home /\ starts' = starts /\ cut' = cut

LEMMA AddIs ==
  ASSUME NEW name, NEW newHome, NEW newShared, adduser(name, newHome, newShared),
         NEW t, t = AfterMkfile(tree, Abs(<<name>>), {"dir"}, newHome),
         NEW u, u = AfterMkfile(t, Abs(<<name, Shared>>), {"dir"}, newShared),
         NEW bad, bad = AddFault(get_ns_node(tree, Abs(<<name>>)),
                                 get_ns_node(t, Abs(<<name, Shared>>)), newShared)
  PROVE  Adds(name, newHome, newShared, t, u, bad)
<1>1. /\ MayChange /\ Count /\ Remember(tree', {newHome, newShared})
      /\ users # NoFile /\ get_user_info_by_name(name) = {}
      /\ newHome \in Allocations(tree) /\ newShared \in Allocations(t)
      /\ users' = Append(users, name)
  BY DEF adduser
<1>2. fault' = bad /\ tree' = IF bad = "none" THEN Flagged(u, newHome, newShared) ELSE u
  BY DEF adduser, AddFault
<1>3. /\ torn' <=> torn \/ (newHome = Junk /\ t # tree) \/ (newShared = Junk /\ u # t)
      /\ cwd' = cwd /\ home' = home /\ starts' = starts /\ cut' = cut
  BY DEF adduser
<1>4. added' \in {added, added \union {name}}
  BY DEF adduser
<1> QED
  BY <1>1, <1>2, <1>3, <1>4 DEF Adds

LEMMA AddKeeps ==
  ASSUME NamesAreNames, IInv, NEW name \in Users, NEW newHome, NEW newShared,
         adduser(name, newHome, newShared)
  PROVE  IInv'
<1>1. PICK p, q : p = Abs(<<name>>) /\ q = Abs(<<name, Shared>>)
  OBVIOUS
<1>2. PICK type : type = {"dir"} /\ type \in {{"reg"}, {"dir"}}
  OBVIOUS
<1>3. PICK t, r0 : t = AfterMkfile(tree, p, type, newHome) /\ r0 = get_ns_node(tree, p)
  OBVIOUS
<1>4. PICK u, r : u = AfterMkfile(t, q, type, newShared) /\ r = get_ns_node(t, q)
  OBVIOUS
<1>5. PICK bad : bad = AddFault(r0, r, newShared)
  OBVIOUS
<1>6. /\ MayChange /\ Count /\ Remember(tree', {newHome, newShared})
      /\ users # NoFile /\ get_user_info_by_name(name) = {}
      /\ newHome \in Allocations(tree) /\ newShared \in Allocations(t)
      /\ users' = Append(users, name) /\ fault' = bad
      /\ tree' = IF bad = "none" THEN Flagged(u, newHome, newShared) ELSE u
      /\ torn' <=> torn \/ (newHome = Junk /\ t # tree) \/ (newShared = Junk /\ u # t)
      /\ added' \in {added, added \union {name}}
      /\ cwd' = cwd /\ home' = home /\ starts' = starts /\ cut' = cut
  <2>1. /\ t = AfterMkfile(tree, Abs(<<name>>), {"dir"}, newHome)
        /\ u = AfterMkfile(t, Abs(<<name, Shared>>), {"dir"}, newShared)
        /\ bad = AddFault(get_ns_node(tree, Abs(<<name>>)),
                          get_ns_node(t, Abs(<<name, Shared>>)), newShared)
    BY <1>1, <1>2, <1>3, <1>4, <1>5
  <2>2. Adds(name, newHome, newShared, t, u, bad)
    BY <2>1, AddIs
  <2> QED
    BY <2>2 DEF Adds
<1>7. Sound(tree, cwd, home, newest, crowded, torn, cut) /\ Lines(users, added)
  BY DEF IInv
<1>8. name \in Names /\ name # Upper
  BY DEF Names, NamesAreNames
<1>9. IsPath(p) /\ IsPath(q)
  BY <1>1, <1>8, NamePaths
<1>10. Shape(tree, cwd, home)
  BY <1>7 DEF Sound
<1>11. Grows(tree, t, cwd, home, r0.node, r0.index, r0.name, type, newHome)
  BY <1>2, <1>3, <1>6, <1>9, <1>10, GrowsFrom
<1>12. Grown(tree, t, cwd, home, newHome)
  BY <1>11, GrowsIs
<1>13. Shape(t, cwd, home)
  BY <1>12 DEF Grown
<1>14. Grows(t, u, cwd, home, r.node, r.index, r.name, type, newShared)
  BY <1>2, <1>4, <1>6, <1>9, <1>13, GrowsFrom
<1>15. Grown(t, u, cwd, home, newShared)
  BY <1>14, GrowsIs
<1>16. r.fault = "none" /\ r.ret = 3 => r.node # Root
  BY <1>1, <1>4, <1>8, <1>13, SharedLookup
<1>17. newHome \in t.live \ tree.live /\ newShared \in u.live \ t.live => r0.node # r.node
  <2> SUFFICES ASSUME t # tree, u # t PROVE r0.node # r.node
    OBVIOUS
  <2>1. r0.fault = "none" /\ r0.ret = 3
    BY <1>3, GrowsWhen
  <2>2. FromRoot(tree, name, r0)
    BY <1>1, <1>3, <1>8, <1>10, HomeLookup
  <2>3. r0.node = Root
    BY <2>1, <2>2 DEF FromRoot
  <2>4. r.fault = "none" /\ r.ret = 3
    BY <1>4, GrowsWhen
  <2> QED
    BY <1>16, <2>3, <2>4
<1>18. PICK M : M = {newHome, newShared}
  OBVIOUS
<1>19. M \subseteq Nodes \union {NULL, Junk} /\ u.live \cap M = u.live \cap {newHome, newShared}
  <2>1. newHome \in Nodes \union {NULL, Junk} /\ newShared \in Nodes \union {NULL, Junk}
    BY <1>6 DEF Allocations, Fresh
  <2> QED
    BY <1>18, <2>1
<1>20. PICK v, un : v = NewestAfter(u, M, newest) /\ (un <=> torn')
  OBVIOUS
<1>21. /\ torn => un
       /\ newHome = Junk /\ t # tree => un
       /\ newShared = Junk /\ u # t => un
  BY <1>6, <1>20
<1>22. Sound(u, cwd, home, v, CrowdedAfter(u, crowded), un, cut)
  <2> HIDE DEF Sound, Grows, NewestAfter, CrowdedAfter
  <2> QED
    BY <1>7, <1>11, <1>14, <1>17, <1>19, <1>20, <1>21, SoundGrown
<1>23. PICK z : z = tree'
  OBVIOUS
<1>24. /\ Sound(z, cwd, home, v, CrowdedAfter(u, crowded), un, cut) /\ (FlagThere(u) => FlagThere(z))
       /\ v = NewestAfter(z, M, newest) /\ CrowdedAfter(z, crowded) = CrowdedAfter(u, crowded)
  <2>1. CASE bad = "none"
    <3>1. r.fault = "none" /\ r.ret = 3 /\ newShared \notin {NULL, Junk}
      BY <1>5, <2>1 DEF AddFault
    <3>2. /\ newShared \in u.live \ {Root} /\ newShared # cwd /\ newShared # home
          /\ "dir" \in u.type[newShared]
          /\ u.parent[newShared] # Root /\ \A m \in u.live : u.parent[m] # newShared
      BY <1>2, <1>4, <1>6, <1>9, <1>13, <1>16, <3>1, MadeForFlag
    <3>3. Marked(u, z, newShared)
      BY <1>6, <1>23, <2>1 DEF Flagged, Marked
    <3>4. Sound(z, cwd, home, v, CrowdedAfter(u, crowded), un, cut) /\ FlagThere(z)
      BY <1>22, <3>2, <3>3, SoundMarked
    <3>5. u \in Trees /\ newShared \in Dirs
      BY <1>15, <3>2 DEF Grown, Shape, Trees
    <3>6. z.live = u.live /\ z.name = u.name /\ z.parent = u.parent /\ z.child = u.child
      BY <3>3, <3>5, MarkedFields
    <3>7. /\ NewestAfter(z, M, newest) = NewestAfter(u, M, newest)
          /\ CrowdedAfter(z, crowded) = CrowdedAfter(u, crowded)
      BY <3>6, SameRecorded
    <3> QED
      BY <1>20, <3>4, <3>7
  <2>2. CASE bad # "none"
    <3>1. z = u
      BY <1>6, <1>23, <2>2
    <3> QED
      BY <1>20, <1>22, <3>1
  <2> QED
    BY <2>1, <2>2
<1>25. newest' = v /\ crowded' = CrowdedAfter(u, crowded)
  BY <1>6, <1>18, <1>23, <1>24, Remembers
<1>26. Sound(tree, cwd, home, newest, crowded, torn, cut)'
  <2>1. Sound(z, cwd, home, v, CrowdedAfter(u, crowded), torn', cut)
    BY <1>20, <1>24 DEF Sound
  <2> QED
    BY <1>6, <1>23, <1>25, <2>1
<1>27. Causes(r0.fault, tree, home, torn, cut)
  <2>1. FoundBy(tree, cwd, home, p, r0)
    BY <1>3, <1>9, <1>10, Lookup
  <2>2. JunkThere(tree) => torn
    BY <1>7 DEF Sound
  <2>3. ~cut => Exact(tree) /\ \E A : Kept(A, tree, cwd, home)
    BY <1>7 DEF Sound
  <2> QED
    BY <2>1, <2>2, <2>3, LookupCauses
<1>28. Causes(r.fault, t, home, un, cut)
  <2>1. FoundBy(t, cwd, home, q, r)
    BY <1>4, <1>9, <1>13, Lookup
  <2>2. JunkThere(t) => un
    BY <1>7, <1>12, <1>21 DEF Sound, Grown
  <2>3. ~cut => Exact(t) /\ \E A : Kept(A, t, cwd, home)
    BY <1>7, <1>12 DEF Sound, Grown
  <2> QED
    BY <2>1, <2>2, <2>3, LookupCauses
<1>29. (FlagThere(tree) => FlagThere(z)) /\ (FlagThere(t) => FlagThere(z))
  BY <1>12, <1>15, <1>24 DEF Grown
<1>30. Causes(r0.fault, z, home, un, cut)
  BY <1>21, <1>27, <1>29, CausesLift
<1>31. Causes(r.fault, z, home, un, cut)
  BY <1>28, <1>29, CausesLift
<1>32. Causes(bad, z, home, un, cut)
  <2>1. bad \in {r0.fault, r.fault, "mkfile", "none"}
    BY <1>5 DEF AddFault
  <2>2. Causes("mkfile", z, home, un, cut) /\ Causes("none", z, home, un, cut)
    BY DEF Causes
  <2> QED
    BY <1>30, <1>31, <2>1, <2>2
<1>33. Causes(fault, tree, home, torn, cut)'
  BY <1>6, <1>20, <1>23, <1>32 DEF Causes
<1>34. changes' \in 0..MaxChanges
  BY <1>6, Counted DEF IInv
<1>35. Lines(users, added)'
  <2>1. \A i \in DOMAIN users : <<name, users[i]>> \notin Matches
    BY <1>6 DEF get_user_info_by_name
  <2>2. PICK vs : vs = users'
    OBVIOUS
  <2>3. Lines(vs, added) /\ Lines(vs, added \union {name})
    BY <1>6, <1>7, <2>1, <2>2, AddLines
  <2> QED
    BY <1>6, <2>2, <2>3
<1>36. (starts \in 1..MaxStarts)'
  BY <1>6 DEF IInv
<1> QED
  BY <1>26, <1>33, <1>34, <1>35, <1>36 DEF IInv

(* The start, and every step. *)
LEMMA Starts ==
  ASSUME NEW su \in Nodes, NEW sh \in Nodes, su # sh, NEW u, u = NewTree(su, sh),
         NEW w, w = [d \in Dirs |-> NULL], NEW k, k = {}, NEW f, f = FALSE
  PROVE  Sound(u, Root, NULL, w, k, f, f)
<1>1. Shape(u, Root, NULL)
  BY NewShape
<1>2. Exact(u) /\ (\E A : Kept(A, u, Root, NULL)) /\ ~JunkThere(u)
  BY NewKept
<1>3. Recalls(u, w) /\ Recorded(u, w, k)
  BY NewRecorded
<1> QED
  BY <1>1, <1>2, <1>3 DEF Sound

LEMMA NothingIn ==
  ASSUME NEW S
  PROVE  <<>> \in Seq(S)
OBVIOUS

LEMMA EntriesIn ==
  ASSUME NEW S, NEW s \in Seq(S)
  PROVE  ToSet(s) \subseteq S
BY DEF ToSet

LEMMA LinesAtStart ==
  ASSUME NEW us, us = NoFile \/ us \in Seq(Users \union {SU}), NEW vs, vs = Registered(us)
  PROVE  Lines(vs, {})
<1>1. vs = NoFile \/ vs \in Seq(Users \union {SU})
  BY DEF Registered
<1> QED
  BY <1>1 DEF Lines

LEMMA InitKept ==
  ASSUME Init
  PROVE  IInv
<1>1. PICK su \in Nodes, sh \in Nodes : su # sh /\ tree = NewTree(su, sh)
  BY DEF Init
<1>2. /\ cwd = Root /\ home = NULL /\ fault = "none" /\ starts = 1 /\ changes = 0
      /\ newest = [d \in Dirs |-> NULL] /\ crowded = {} /\ added = {}
      /\ cut = FALSE /\ torn = FALSE
  BY DEF Init
<1>3. Sound(tree, cwd, home, newest, crowded, torn, cut)
  <2>1. PICK f : f = FALSE
    OBVIOUS
  <2>2. Sound(tree, Root, NULL, newest, crowded, f, f)
    BY <1>1, <1>2, <2>1, Starts
  <2> QED
    BY <1>2, <2>1, <2>2
<1>4. Causes(fault, tree, home, torn, cut)
  BY <1>2 DEF Causes
<1>5. Lines(users, added)
  <2>1. PICK file : file \in {NoFile, <<>>} /\ users = Registered(file)
    BY DEF Init
  <2>2. file = NoFile \/ file \in Seq(Users \union {SU})
    BY <2>1, NothingIn
  <2> QED
    BY <1>2, <2>1, <2>2, LinesAtStart
<1>6. starts \in 1..MaxStarts /\ changes \in 0..MaxChanges
  BY <1>2, NameSpaceAssumption
<1> QED
  BY <1>3, <1>4, <1>5, <1>6 DEF IInv

LEMMA RestartKeeps ==
  ASSUME IInv, Restart
  PROVE  IInv'
<1>1. PICK su \in Nodes, sh \in Nodes : su # sh /\ tree' = NewTree(su, sh)
  BY DEF Restart
<1>2. /\ starts < MaxStarts
      /\ cwd' = Root /\ home' = NULL /\ fault' = "none" /\ starts' = starts + 1 /\ changes' = 0
      /\ users' = Registered(users)
      /\ newest' = [d \in Dirs |-> NULL] /\ crowded' = {} /\ added' = {}
      /\ cut' = FALSE /\ torn' = FALSE
  BY DEF Restart
<1>3. Sound(tree, cwd, home, newest, crowded, torn, cut)'
  <2>1. PICK f, u, w, k : f = FALSE /\ u = tree' /\ w = newest' /\ k = crowded'
    OBVIOUS
  <2>2. Sound(u, Root, NULL, w, k, f, f)
    BY <1>1, <1>2, <2>1, Starts
  <2> QED
    BY <1>2, <2>1, <2>2
<1>4. Causes(fault, tree, home, torn, cut)'
  BY <1>2 DEF Causes
<1>5. Lines(users, added)'
  <2>1. users = NoFile \/ users \in Seq(Users \union {SU})
    BY DEF IInv, Lines
  <2>2. PICK vs : vs = users'
    OBVIOUS
  <2>3. Lines(vs, {})
    BY <1>2, <2>1, <2>2, LinesAtStart
  <2> QED
    BY <1>2, <2>2, <2>3
<1>6. (starts \in 1..MaxStarts)' /\ (changes \in 0..MaxChanges)'
  BY <1>2, NameSpaceAssumption DEF IInv
<1> QED
  BY <1>3, <1>4, <1>5, <1>6 DEF IInv

LEMMA NextKeeps ==
  ASSUME NamesAreNames, IInv, [Next]_vars
  PROVE  IInv'
<1>1. ASSUME NEW path \in Paths, NEW type \in {{"reg"}, {"dir"}}, NEW new \in Allocations(tree),
             mkfile(path, type, new)
      PROVE  IInv'
  BY <1>1, MkfileKeeps
<1>2. ASSUME NEW path \in Paths, rmfile(path) PROVE IInv'
  BY <1>2, RmfileKeeps
<1>3. ASSUME NEW path \in Paths, cd(path) PROVE IInv'
  BY <1>3, CdKeeps
<1>4. ASSUME NEW path \in Paths, ls(path) PROVE IInv'
  BY <1>4, LsKeeps
<1>5. ASSUME NEW name \in Users, NEW newHome, NEW newShared, adduser(name, newHome, newShared)
      PROVE  IInv'
  BY <1>5, AddKeeps
<1>6. ASSUME NEW name, NEW pw, user_login(name, pw) PROVE IInv'
  BY <1>6, LoginKeeps
<1>7. CASE Restart
  BY <1>7, RestartKeeps
<1>8. CASE UNCHANGED vars
  <2>1. /\ tree' = tree /\ cwd' = cwd /\ home' = home /\ users' = users /\ fault' = fault
        /\ starts' = starts /\ changes' = changes /\ newest' = newest /\ crowded' = crowded
        /\ added' = added /\ cut' = cut /\ torn' = torn
    BY <1>8 DEF vars
  <2>2. Sound(tree, cwd, home, newest, crowded, torn, cut)'
    BY <2>1 DEF IInv
  <2>3. Causes(fault, tree, home, torn, cut)'
    BY <2>1 DEF IInv
  <2>4. Lines(users, added)' /\ (starts \in 1..MaxStarts)' /\ (changes \in 0..MaxChanges)'
    BY <2>1 DEF IInv
  <2> QED
    BY <2>2, <2>3, <2>4 DEF IInv
<1> QED
  BY <1>1, <1>2, <1>3, <1>4, <1>5, <1>6, <1>7, <1>8 DEF Next
-----------------------------------------------------------------------------
(* What the invariant says. *)
LEMMA TypesAre ==
  ASSUME IInv
  PROVE  TypeOK
<1>1. Shape(tree, cwd, home) /\ crowded \subseteq Dirs /\ tree \in Trees
  BY DEF IInv, Sound, Shape
<1>2. tree.child \in [Dirs -> Seq(Nodes \union {Junk})]
  BY <1>1 DEF Trees
<1>3. ASSUME NEW d \in Dirs PROVE ToSet(tree.child[d]) \subseteq Nodes \union {Junk}
  <2>1. tree.child[d] \in Seq(Nodes \union {Junk})
    BY <1>2
  <2> QED
    BY <2>1, EntriesIn
<1>4. /\ tree.live \subseteq Dirs /\ Root \in tree.live /\ tree.parent \in [Dirs -> Dirs]
      /\ DOMAIN tree.child = Dirs /\ cwd \in Dirs /\ home \in Dirs \union {NULL}
  BY <1>1, <1>2 DEF Shape, Trees
<1>5. users = NoFile \/ ToSet(users) \subseteq Users \union {SU}
  <2>1. users = NoFile \/ users \in Seq(Users \union {SU})
    BY DEF IInv, Lines
  <2> QED
    BY <2>1, EntriesIn
<1>6. fault \in {"none", "null", "junk", "freed", "literal", "memory", "mkfile"}
  BY DEF IInv, Causes
<1>7. starts \in 1..MaxStarts /\ changes \in 0..MaxChanges /\ added \subseteq Users
  BY DEF IInv, Lines
<1> QED
  BY <1>1, <1>3, <1>4, <1>5, <1>6, <1>7 DEF TypeOK

LEMMA ArraysAre ==
  ASSUME IInv
  PROVE  PointersExact
<1>1. /\ tree.live \subseteq Dirs /\ (JunkThere(tree) => torn) /\ (~cut => Exact(tree))
  BY DEF IInv, Sound, Shape, Trees
<1>2. ASSUME ~cut, NEW d \in tree.live PROVE ArrayExact(d)
  <2>1. /\ ToSet(tree.child[d]) \ {Junk} = {n \in tree.live \ {Root} : tree.parent[n] = d}
        /\ DistinctBut(tree.child[d], Junk)
    BY <1>1, <1>2 DEF Exact
  <2>2. IsTorn(d) => torn
    BY <1>1 DEF IsTorn, JunkThere
  <2> QED
    BY <2>1, <2>2 DEF ArrayExact, DistinctBut
<1>3. /\ fault = "junk" => torn
      /\ fault = "freed" => cut
      /\ fault = "null" => home = NULL \/ \E n \in tree.live : "flag" \in tree.type[n]
  BY DEF IInv, Causes, FlagThere
<1> QED
  BY <1>2, <1>3 DEF PointersExact

LEMMA FilesAre ==
  ASSUME IInv
  PROVE  FilesFound
<1> SUFFICES ASSUME NEW d \in tree.live, ~IsTorn(d), ~cut
             PROVE  /\ d \notin crowded =>
                          NamesUnique(d) /\ \A n \in ToSet(tree.child[d]) : Finds(d, tree.name[n])
                    /\ newest[d] # NULL => Finds(d, tree.name[newest[d]])
  BY DEF FilesFound
<1>1. Exact(tree) /\ Recorded(tree, newest, crowded) /\ tree \in Trees
  BY DEF IInv, Sound, Shape
<1>2. d \in Dirs /\ tree.child[d] \in Seq(Nodes \union {Junk}) /\ Junk \notin ToSet(tree.child[d])
  BY <1>1 DEF Trees, IsTorn
<1>3. ToSet(tree.child[d]) \subseteq tree.live
  BY <1>1, <1>2 DEF Exact
<1>4. /\ newest[d] # NULL => LastTwo(tree, d, newest[d])
      /\ d \notin crowded => Len(tree.child[d]) <= 2 /\ NamesDiffer(tree, d)
  BY <1>1, <1>2 DEF Recorded
<1>5. ASSUME NEW n, LastTwo(tree, d, n) PROVE Finds(d, tree.name[n])
  BY <1>2, <1>3, <1>5, LastFound DEF Finds
<1>6. ASSUME d \notin crowded, NEW n \in ToSet(tree.child[d]) PROVE LastTwo(tree, d, n)
  <2>1. PICK i \in DOMAIN tree.child[d] : tree.child[d][i] = n
    BY DEF ToSet
  <2>2. PICK len \in Nat : len = Len(tree.child[d])
    BY <1>2
  <2>3. i \in 1..len /\ len <= 2
    BY <1>2, <1>4, <1>6, <2>2
  <2>4. i >= len - 1
    BY <2>3
  <2> QED
    BY <2>1, <2>2, <2>4 DEF LastTwo
<1>7. d \notin crowded => NamesUnique(d)
  BY <1>4 DEF NamesDiffer, NamesUnique
<1> QED
  BY <1>4, <1>5, <1>6, <1>7

LEMMA LoginsAre ==
  ASSUME NamesAreNames, IInv
  PROVE  AddedCanLogIn
<1> SUFFICES ASSUME NEW u \in added, ~cut, ~IsTorn(Root),
                    NEW i \in DOMAIN tree.child[Root], i >= Len(tree.child[Root]) - 1,
                    tree.name[tree.child[Root][i]] = u,
                    \A v \in Users \ {u} : <<u, v>> \notin Matches
             PROVE  CanLogIn(u)
  BY DEF AddedCanLogIn
<1>1. Shape(tree, cwd, home) /\ Exact(tree) /\ Lines(users, added)
  BY DEF IInv, Sound
<1>2. users \in Seq(Users \union {SU}) /\ u \in Users /\ users # NoFile
  BY <1>1, NameSpaceAssumption DEF Lines
<1>3. PICK p : LineOf(users, u, p)
  BY <1>1 DEF Lines
<1>4. p \in DOMAIN users /\ users[p] = u /\ DOMAIN users \subseteq Nat
  BY <1>2, <1>3 DEF LineOf
<1>5. PICK lines : lines = get_user_info_by_name(u)
  OBVIOUS
<1>6. lines = {p}
  <2>1. lines = {q \in DOMAIN users : <<u, users[q]>> \in Matches}
    BY <1>2, <1>5 DEF get_user_info_by_name
  <2>2. <<u, u>> \in Matches
    BY <1>2, NameSpaceAssumption
  <2>3. ASSUME NEW q \in DOMAIN users, q # p PROVE <<u, users[q]>> \notin Matches
    <3>1. q < p \/ q > p
      BY <1>4, <2>3
    <3> QED
      BY <1>3, <3>1 DEF LineOf
  <2> QED
    BY <1>4, <2>1, <2>2, <2>3
<1>7. Min(lines) = p /\ Max(lines) = p
  <2>1. p <= p /\ p >= p
    BY <1>4
  <2> QED
    BY <1>6, <2>1 DEF Min, Max
<1>8. /\ Root \in tree.live /\ tree.child[Root] \in Seq(Nodes \union {Junk})
      /\ Junk \notin ToSet(tree.child[Root])
  BY <1>1 DEF Shape, Trees, Dirs, IsTorn
<1>9. ToSet(tree.child[Root]) \subseteq tree.live
  BY <1>1, <1>8 DEF Exact
<1>10. PICK n : n = tree.child[Root][i]
  OBVIOUS
<1>11. LastTwo(tree, Root, n) /\ tree.name[n] = u
  BY <1>10 DEF LastTwo
<1>12. PICK b : b = Binary(tree, Root, u)
  OBVIOUS
<1>13. /\ tree.child[Root] # <<>> /\ b \in DOMAIN tree.child[Root]
       /\ tree.name[tree.child[Root][b]] = u
  BY <1>8, <1>9, <1>11, <1>12, LastFound
<1>14. tree.child[Root][b] \in tree.live
  BY <1>9, <1>13 DEF ToSet
<1>15. PICK r : r = get_ns_node(tree, Abs(<<u>>))
  OBVIOUS
<1>16. u \in Names /\ u # Upper
  BY <1>2 DEF Names, NamesAreNames
<1>17. Reaches(tree, u, r, b)
  BY <1>1, <1>15, <1>16, HomeLookup
<1>18. r.ret = 0 /\ r.node = tree.child[Root][b]
  BY <1>12, <1>13, <1>14, <1>17 DEF Reaches
<1>19. lines # {} /\ users[Max(lines)] = u /\ users[Min(lines)] = u
  BY <1>4, <1>6, <1>7
<1>20. r = get_ns_node(tree, Abs(<<users[Min(lines)]>>))
  BY <1>15, <1>19
<1> QED
  BY <1>5, <1>13, <1>14, <1>18, <1>19, <1>20 DEF CanLogIn
-----------------------------------------------------------------------------
LEMMA AlwaysIInv ==
  ASSUME NamesAreNames
  PROVE  Spec => []IInv
<1>1. Init => IInv
  BY InitKept
<1>2. IInv /\ [Next]_vars => IInv'
  BY NextKeeps
<1> QED
  BY <1>1, <1>2, PTL DEF Spec

(* nss.c as a whole: the tree, the two directories of the session and the file of
   the users stay of their types, whatever is asked and whichever allocation
   fails. *)
THEOREM NamespaceTypes ==
  ASSUME NamesAreNames
  PROVE  Spec => []TypeOK
<1>1. IInv => TypeOK
  BY TypesAre
<1> QED
  BY <1>1, AlwaysIInv, PTL

(* nss.c:162-262, with any number of nodes, names and paths: the arrays that
   mkfile() and rmfile() rebuild by hand list the files of their directory, each
   once, and a bad pointer is only followed for one of the four reasons. *)
THEOREM NamespacePointers ==
  ASSUME NamesAreNames
  PROVE  Spec => []PointersExact
<1>1. IInv => PointersExact
  BY ArraysAre
<1> QED
  BY <1>1, AlwaysIInv, PTL

(* nss.c:8-27, in an array of any length: the search that only goes right looks at
   the last two entries before it gives up, so that the file made last is found,
   and every file of a directory that never had more than two. *)
THEOREM NamespaceFinds ==
  ASSUME NamesAreNames
  PROVE  Spec => []FilesFound
<1>1. IInv => FilesFound
  BY FilesAre
<1> QED
  BY <1>1, AlwaysIInv, PTL

(* nss.c:312-468, with any number of users: who was added since the start, and
   whose home is one of the last two directories of the root, can log in, unless
   the name is part of the line of another user. *)
THEOREM NamespaceLogins ==
  ASSUME NamesAreNames
  PROVE  Spec => []AddedCanLogIn
<1>1. IInv => AddedCanLogIn
  BY LoginsAre
<1> QED
  BY <1>1, AlwaysIInv, PTL
=============================================================================
