---------------------------- MODULE RedBlackTree ----------------------------
(***************************************************************************)
(* The red-black tree of the namespace server, nss.c: nodes with a key i,  *)
(* a colour c and pointers l, r and p, and one sentinel NIL_NODE, which is *)
(* black and whose parent rb_delete() uses as a scratch field.  A step is  *)
(* rb_insert() or rb_delete() up to its fixup, or one turn of the loop of  *)
(* a fixup.  The code writes every case twice, for a left and for a right  *)
(* child: here s is the side of the child, "l" or "r", and Other(s) the    *)
(* other one.                                                              *)
(***************************************************************************)
EXTENDS Integers, FiniteSets

CONSTANTS
    Keys,     \* the keys, u32 in the code
    Nodes,    \* the nodes malloc() may return
    NIL_NODE  \* the sentinel

ASSUME TreeAssumption ==
    Keys \subseteq Nat /\ IsFiniteSet(Nodes) /\ NIL_NODE \notin Nodes

VARIABLES
    rbt,    \* the nodes and root
    at,     \* z of rb_insert_fixup(), x of rb_delete_fixup()
    step,   \* the loop under way
    keys,   \* history: the keys inserted and not deleted
    turns   \* history: the turns of that loop

vars == <<rbt, at, step, keys, turns>>

Pointers == Nodes \union {NIL_NODE}
NoKey == -1

TypeOK ==
    /\ rbt.i \in [Nodes -> Keys \union {NoKey}]
    /\ rbt.c \in [Pointers -> {"red", "black"}] /\ rbt.c[NIL_NODE] = "black"
    /\ \A s \in {"l", "r", "p"} : rbt[s] \in [Pointers -> Pointers]
    /\ rbt.root \in Pointers /\ at \in Pointers
    /\ step \in {"idle", "insert", "delete"}
    /\ keys \subseteq Keys
    /\ turns \in Nat

(* init_rbt().  What a node holds before new_rbt_node() and after the caller of
   rb_delete() has freed it is not used. *)
Init ==
    /\ rbt = [i |-> [n \in Nodes |-> NoKey], c |-> [n \in Pointers |-> "black"],
              l |-> [n \in Pointers |-> NIL_NODE], r |-> [n \in Pointers |-> NIL_NODE],
              p |-> [n \in Pointers |-> NIL_NODE], root |-> NIL_NODE]
    /\ at = NIL_NODE /\ step = "idle"
    /\ keys = {} /\ turns = 0
-----------------------------------------------------------------------------
Other(s) == IF s = "l" THEN "r" ELSE "l"

(* What a loop that goes from node to node comes to: Follow(n, next) for a next
   that maps the last node to itself. *)
Follow(n, next(_)) ==
    LET after[k \in 0 .. Cardinality(Nodes)] == IF k = 0 THEN n ELSE next(after[k - 1])
    IN after[Cardinality(Nodes)]

get_node_by_key(t, key) ==
    LET child(n) == IF key < t.i[n] THEN t.l[n] ELSE t.r[n]
        down(n) == IF n = NIL_NODE \/ t.i[n] = key \/ child(n) = NIL_NODE THEN n ELSE child(n)
    IN Follow(t.root, down)

(* rb_max() and rb_min(), ... *)
Outermost(t, z, s) ==
    LET down(n) == IF t[s][n] = NIL_NODE THEN n ELSE t[s][n] IN Follow(z, down)

NextOfParent(t, z, s) ==
    IF t[s][z] # NIL_NODE THEN Outermost(t, t[s][z], Other(s)) ELSE t.p[z]

(* ... rb_suc() with "r" for s, rb_pre() with "l". *)
NextOf(t, z, s) ==
    LET up(n) == IF t.p[n] # NIL_NODE /\ n = t[s][t.p[n]] THEN t.p[n] ELSE n IN
    IF t[s][z] # NIL_NODE THEN Outermost(t, t[s][z], Other(s)) ELSE t.p[Follow(z, up)]

(* The parent of x gets y for x. *)
Replace(t, x, y) ==
    LET above == t.p[x] IN
    IF above = NIL_NODE THEN [t EXCEPT !.root = y]
    ELSE IF t.l[above] = x THEN [t EXCEPT !.l[above] = y]
    ELSE [t EXCEPT !.r[above] = y]

(* left_rotate() with "l" for s, right_rotate() with "r": x goes down on side s. *)
RotateInnerLost(t, x, s) ==
    LET y == t[Other(s)][x]
        moved == Replace([t EXCEPT !.p[y] = t.p[x], ![Other(s)][x] = t[s][y]], x, y)
    IN [moved EXCEPT ![s][y] = x, !.p[x] = y]

Rotate(t, x, s) ==
    LET y == t[Other(s)][x]
        inner == t[s][y]
        moved == Replace([t EXCEPT !.p[y] = t.p[x], ![Other(s)][x] = inner], x, y)
        kept == IF inner = NIL_NODE THEN moved ELSE [moved EXCEPT !.p[inner] = x]
    IN [kept EXCEPT ![s][y] = x, !.p[x] = y]

SideOf(t, n) == IF n = t.l[t.p[n]] THEN "l" ELSE "r"

Blacken(t, n) == [t EXCEPT !.c[n] = "black"]
Redden(t, n) == [t EXCEPT !.c[n] = "red"]
IsRed(t, n) == t.c[n] = "red"
-----------------------------------------------------------------------------
(* rb_insert() of a node from new_rbt_node(): a key that is there already is
   not inserted, and the node goes back to the caller. *)
InTree(t) == {n \in Nodes : t.i[n] # NoKey}

LinkUnder(node, z, key) ==
    LET new == [rbt EXCEPT !.i[z] = key, !.c[z] = "red", !.p[z] = node] IN
    IF node = NIL_NODE THEN [new EXCEPT !.root = z]
    ELSE IF key < rbt.i[node] THEN [new EXCEPT !.l[node] = z]
    ELSE [new EXCEPT !.r[node] = z]

rb_insert(z, key) ==
    LET node == get_node_by_key(rbt, key) IN
    /\ step = "idle"
    /\ ~(node # NIL_NODE /\ rbt.i[node] = key)
    /\ rbt' = LinkUnder(node, z, key)
    /\ at' = z /\ step' = "insert"
    /\ keys' = keys \union {key}
    /\ turns' = 0

(* One turn of rb_insert_fixup(): the uncle y is red, ... *)
above == rbt.p[at]
high == rbt.p[above]

Recolour ==
    /\ rbt' = Redden(Blacken(Blacken(rbt, rbt[Other(SideOf(rbt, above))][high]), above), high)
    /\ at' = high

(* ... or z is the inner child, ... *)
TurnInner ==
    /\ rbt' = Rotate(rbt, above, SideOf(rbt, above))
    /\ at' = above

(* ... or the outer one. *)
TurnOuter ==
    /\ rbt' = Rotate(Redden(Blacken(rbt, above), high), high, Other(SideOf(rbt, above)))
    /\ UNCHANGED at

InsertTurn ==
    /\ step = "insert" /\ IsRed(rbt, above)
    /\ LET s == SideOf(rbt, above)
           y == rbt[Other(s)][high]
       IN \/ IsRed(rbt, y) /\ Recolour
          \/ ~IsRed(rbt, y) /\ at = rbt[Other(s)][above] /\ TurnInner
          \/ ~IsRed(rbt, y) /\ at # rbt[Other(s)][above] /\ TurnOuter
    /\ turns' = turns + 1
    /\ UNCHANGED <<step, keys>>

InsertDone ==
    /\ step = "insert" /\ ~IsRed(rbt, above)
    /\ rbt' = Blacken(rbt, rbt.root)
    /\ at' = NIL_NODE /\ step' = "idle"
    /\ UNCHANGED <<keys, turns>>
-----------------------------------------------------------------------------
(* rb_delete() of a key that is there: y, the node that is unlinked, has at most
   one child, x, which may be the sentinel, and the caller frees y. *)
Unlinked(z, y) ==
    LET x == IF rbt.l[y] # NIL_NODE THEN rbt.l[y] ELSE rbt.r[y]
        t == Replace([rbt EXCEPT !.p[x] = rbt.p[y]], y, x)
    IN IF y = z THEN t ELSE [t EXCEPT !.i[z] = rbt.i[y]]

Freed(t, y) ==
    [t EXCEPT !.i[y] = NoKey, !.c[y] = "black", !.l[y] = NIL_NODE, !.r[y] = NIL_NODE,
              !.p[y] = NIL_NODE]

FixesAlways(y) == TRUE
FixesAfterRed(y) == IsRed(rbt, y)
Fixes(y) == ~IsRed(rbt, y)

rb_delete(key) ==
    LET z == get_node_by_key(rbt, key)
        y == IF rbt.l[z] = NIL_NODE \/ rbt.r[z] = NIL_NODE THEN z ELSE NextOf(rbt, z, "r")
    IN
    /\ step = "idle"
    /\ z # NIL_NODE /\ rbt.i[z] = key
    /\ rbt' = Freed(Unlinked(z, y), y)
    /\ at' = IF ~Fixes(y) THEN NIL_NODE
             ELSE IF rbt.l[y] # NIL_NODE THEN rbt.l[y] ELSE rbt.r[y]
    /\ step' = IF Fixes(y) THEN "delete" ELSE "idle"
    /\ keys' = keys \ {key}
    /\ turns' = 0

(* One turn of rb_delete_fixup(), where w is the brother of x: w is red, ... *)
RedBrother(s, w) ==
    /\ rbt' = Rotate(Redden(Blacken(rbt, w), above), above, s)
    /\ UNCHANGED at

(* ... or its children are black, ... *)
BlackFamily(w) ==
    /\ rbt' = Redden(rbt, w)
    /\ at' = above

(* ... or only the outer one is, ... *)
InnerRed(s, w) ==
    /\ rbt' = Rotate(Redden(Blacken(rbt, rbt[s][w]), w), w, Other(s))
    /\ UNCHANGED at

(* ... or it is red, and x is root: the loop ends. *)
Painted(s, w) ==
    [rbt EXCEPT !.c[w] = rbt.c[above], !.c[above] = "black", !.c[rbt[Other(s)][w]] = "black"]

OuterRedGoesOn(s, w) == rbt' = Rotate(Painted(s, w), above, s) /\ UNCHANGED at

OuterRed(s, w) == rbt' = Rotate(Painted(s, w), above, s) /\ at' = rbt'.root

More == at # rbt.root /\ ~IsRed(rbt, at)

DeleteTurn ==
    /\ step = "delete" /\ More
    /\ LET s == SideOf(rbt, at)
           w == rbt[Other(s)][above]
           inner == IsRed(rbt, rbt[s][w])
           outer == IsRed(rbt, rbt[Other(s)][w])
       IN \/ IsRed(rbt, w) /\ RedBrother(s, w)
          \/ ~IsRed(rbt, w) /\ ~inner /\ ~outer /\ BlackFamily(w)
          \/ ~IsRed(rbt, w) /\ inner /\ ~outer /\ InnerRed(s, w)
          \/ ~IsRed(rbt, w) /\ outer /\ OuterRed(s, w)
    /\ turns' = turns + 1
    /\ UNCHANGED <<step, keys>>

DeleteDone ==
    /\ step = "delete" /\ ~More
    /\ rbt' = Blacken(rbt, at)
    /\ at' = NIL_NODE /\ step' = "idle"
    /\ UNCHANGED <<keys, turns>>

Next ==
    \/ \E key \in Keys : (\E z \in Nodes \ InTree(rbt) : rb_insert(z, key)) \/ rb_delete(key)
    \/ InsertTurn \/ InsertDone
    \/ DeleteTurn \/ DeleteDone

Spec == Init /\ [][Next]_vars
-----------------------------------------------------------------------------
(* n and the nodes above it. *)
Ancestors(n) ==
    LET up[k \in 0 .. Cardinality(Nodes)] == IF k = 0 THEN n ELSE rbt.p[up[k - 1]]
        top == {k \in 0 .. Cardinality(Nodes) : up[k] = rbt.root}
    IN IF top = {} THEN {}
       ELSE {up[k] : k \in {k \in 0 .. Cardinality(Nodes) : \A j \in top : k <= j}}

(* At every step, also between two turns, the tree holds the keys inserted and
   not deleted, each once, the smaller ones to the left. *)
SearchTree ==
    /\ {rbt.i[n] : n \in InTree(rbt)} = keys
    /\ \A n \in InTree(rbt) :
          /\ n \in Ancestors(n)
          /\ \A m \in InTree(rbt) :
                /\ rbt.l[m] \in Ancestors(n) => rbt.i[n] < rbt.i[m]
                /\ rbt.r[m] \in Ancestors(n) => rbt.i[n] > rbt.i[m]

(* When an operation returns, the tree is red-black: the root is black, a red
   node has no red child, and every way down passes as many black nodes. *)
BlackAbove(n) == Cardinality({a \in Ancestors(n) : ~IsRed(rbt, a)})

HasNoChild(n) == rbt.l[n] = NIL_NODE \/ rbt.r[n] = NIL_NODE

RedBlack ==
    step = "idle" =>
        /\ ~IsRed(rbt, rbt.root)
        /\ \A n \in InTree(rbt) : IsRed(rbt, n) => ~IsRed(rbt, rbt.p[n])
        /\ \A m, n \in InTree(rbt) :
              HasNoChild(m) /\ HasNoChild(n) => BlackAbove(m) = BlackAbove(n)

(* rb_suc() and rb_pre() go to the next key up and down, or to the sentinel. *)
NeighboursFound ==
    step = "idle" => \A n \in InTree(rbt) :
        LET larger == {k \in keys : k > rbt.i[n]}
            smaller == {k \in keys : k < rbt.i[n]}
            suc == NextOf(rbt, n, "r")
            pre == NextOf(rbt, n, "l")
        IN /\ IF larger = {} THEN suc = NIL_NODE
              ELSE rbt.i[suc] \in larger /\ \A k \in larger : rbt.i[suc] <= k
           /\ IF smaller = {} THEN pre = NIL_NODE
              ELSE rbt.i[pre] \in smaller /\ \A k \in smaller : rbt.i[pre] >= k

(* A fixup ends: it turns at most once for a level and twice more. *)
Levels == CHOOSE h \in 0 .. Cardinality(Nodes) :
    /\ \A n \in InTree(rbt) : Cardinality(Ancestors(n)) <= h
    /\ h = 0 \/ \E n \in InTree(rbt) : Cardinality(Ancestors(n)) = h

FixupsEnd == turns <= Levels + 2
=============================================================================
