------------------------------ MODULE FirstFit ------------------------------
(***************************************************************************)
(* The first-fit allocator, memallocator/first_fit_memalloc.c.  Addresses  *)
(* and sizes count units of HEADER_SZ bytes.  A block is a header and the  *)
(* size[header] units behind it; the free blocks form a ring, in the order *)
(* of their addresses, the lowest being base, a static header of size 0.   *)
(* Memory is the headers only: the rest belongs to the callers.            *)
(***************************************************************************)
EXTENDS Integers, FiniteSets

CONSTANTS
    MINALLOC,  \* the fewest units asked of sbrk()
    Requests,  \* the sizes asked of zz_malloc(), in units
    Gaps,      \* how far others may have moved the break since the last sbrk()
    MaxTop     \* bound: the highest break

ASSUME HeapAssumption ==
    /\ MINALLOC \in Nat \ {0} /\ MaxTop \in Nat \ {0}
    /\ Requests \subseteq Nat /\ Gaps \subseteq Nat

VARIABLES
    nfp, size,  \* the headers
    freep,      \* where the search starts
    top,        \* the break
    call,       \* the call under way and its local variables
    blocks,     \* history: the headers of all blocks
    used,       \* history: the blocks that are not to be in the ring
    emptied     \* history: the only block of the ring has been returned

vars == <<nfp, size, freep, top, call, blocks, used, emptied>>
heads == <<nfp, size>>

base == 0
NULL == -1
Addr == 0 .. MaxTop
Free == blocks \ used

(* step is where the call is: search is the loop of zz_malloc(), place that of
   zz_free(), which zz_malloc() reaches through morecore(). *)
Idle == [step |-> "idle", n |-> 0, at |-> base, bp |-> base, more |-> FALSE]

TypeOK ==
    /\ nfp \in [Addr -> Addr] /\ size \in [Addr -> 0..MaxTop]
    /\ freep \in Addr \union {NULL}
    /\ top \in 1 .. MaxTop
    /\ blocks \subseteq Addr /\ used \subseteq blocks
    /\ call \in [step : {"idle", "search", "place"}, n : Requests \union {0},
                 at : Addr, bp : Addr, more : BOOLEAN]
    /\ emptied \in BOOLEAN

Init ==
    /\ nfp = [a \in Addr |-> base] /\ size = [a \in Addr |-> 0]
    /\ freep = NULL /\ top = 1
    /\ blocks = {base} /\ used = {}
    /\ call = Idle /\ emptied = FALSE
-----------------------------------------------------------------------------
RingForgotten == freep
RingStart == IF freep = NULL THEN base ELSE freep

(* zz_malloc() of n units: the ring is made at the first call.  Bound: once
   the only block of the ring, which stays in it, is in the hands of a caller,
   nothing more is allocated. *)
Malloc(n) ==
    /\ call.step = "idle" /\ ~emptied
    /\ freep' = RingStart
    /\ call' = [Idle EXCEPT !.step = "search", !.n = n, !.at = freep']
    /\ UNCHANGED <<heads, top, blocks, used, emptied>>

(* The block after pre, call.at, is looked at; a larger one is cut and its end
   returned, an exact one leaves the ring. *)
p == nfp[call.at]
Fits == size[p] >= call.n

SizeWithoutHeader == size[p] - call.n
SizeLeft == size[p] - (call.n + 1)

StillTaken == p
BehindTaken == nfp[p]

Exact ==
    /\ call.step = "search" /\ size[p] = call.n
    /\ nfp' = [nfp EXCEPT ![call.at] = BehindTaken]
    /\ used' = used \union {p}
    /\ emptied' = (emptied \/ p = call.at)
    /\ UNCHANGED <<size, blocks>>

Cut ==
    /\ call.step = "search" /\ size[p] > call.n
    /\ LET end == p + SizeLeft + 1 IN
          /\ size' = [size EXCEPT ![p] = SizeLeft, ![end] = call.n]
          /\ blocks' = blocks \union {end}
          /\ used' = used \union {end}
    /\ UNCHANGED <<nfp, emptied>>

Take ==
    /\ Exact \/ Cut
    /\ freep' = call.at
    /\ call' = Idle
    /\ UNCHANGED top

LastButOne == nfp[p] = freep
Last == p = freep

SearchOn ==
    /\ call.step = "search" /\ ~Fits /\ ~Last
    /\ call' = [call EXCEPT !.at = p]
    /\ UNCHANGED <<heads, freep, top, blocks, used, emptied>>

(* morecore(), when the ring has been searched: sbrk(), a header, and zz_free()
   of the new block ... *)
MoreUnits == IF call.n + 1 < MINALLOC THEN MINALLOC ELSE call.n + 1

MoreCore(gap) ==
    /\ call.step = "search" /\ ~Fits /\ Last
    /\ top + gap + MoreUnits <= MaxTop
    /\ LET up == top + gap IN
          /\ top' = up + MoreUnits
          /\ size' = [size EXCEPT ![up] = MoreUnits - 1]
          /\ blocks' = blocks \union {up} /\ used' = used \union {up}
          /\ call' = [call EXCEPT !.step = "place", !.at = freep, !.bp = up, !.more = TRUE]
    /\ UNCHANGED <<nfp, freep, emptied>>

(* ... or no space: zz_malloc() returns NULL. *)
NoMoreCore ==
    /\ call.step = "search" /\ ~Fits /\ Last
    /\ call' = Idle
    /\ UNCHANGED <<heads, freep, top, blocks, used, emptied>>
-----------------------------------------------------------------------------
(* zz_free() of a block that a caller has: the place of bp in the ring ... *)
FreeBlock(b) ==
    /\ call.step = "idle" /\ b \in used
    /\ call' = [Idle EXCEPT !.step = "place", !.at = freep, !.bp = b]
    /\ UNCHANGED <<heads, freep, top, blocks, used, emptied>>

BelongsBetween(a, b) == a < b /\ b < nfp[a]

BelongsAfter(a, b) ==
    \/ a < b /\ b < nfp[a]
    \/ a >= nfp[a] /\ (b > a \/ b < nfp[a])

PlaceOn ==
    /\ call.step = "place" /\ ~BelongsAfter(call.at, call.bp)
    /\ call' = [call EXCEPT !.at = nfp[call.at]]
    /\ UNCHANGED <<heads, freep, top, blocks, used, emptied>>

(* ... is found: bp is joined with a neighbour or linked between the two. *)
JoinsBehindHeader(a, b) == a + size[a] + 1 = b
Joins(a, b) == a + size[a] = b

Splice ==
    LET at == call.at
        bp == call.bp
        next == nfp[at]
        up == Joins(bp, next)
        sizeUp == IF up THEN size[bp] + size[next] ELSE size[bp]
        nfpUp == IF up THEN nfp[next] ELSE next
        down == Joins(at, bp)
    IN
    /\ call.step = "place" /\ BelongsAfter(at, bp)
    /\ size' = [size EXCEPT ![bp] = sizeUp, ![at] = IF down THEN @ + sizeUp ELSE @]
    /\ nfp' = [nfp EXCEPT ![bp] = nfpUp, ![at] = IF down THEN nfpUp ELSE bp]
    /\ blocks' = blocks \ ((IF up THEN {next} ELSE {}) \union (IF down THEN {bp} ELSE {}))
    /\ used' = used \ {bp}
    /\ freep' = at
    /\ call' = IF call.more THEN [Idle EXCEPT !.step = "search", !.n = call.n, !.at = at] ELSE Idle
    /\ UNCHANGED <<top, emptied>>

Step == Take \/ SearchOn \/ (\E gap \in Gaps : MoreCore(gap)) \/ NoMoreCore \/ PlaceOn \/ Splice

Next ==
    \/ \E n \in Requests : Malloc(n)
    \/ \E b \in used : FreeBlock(b)
    \/ Step

Spec == Init /\ [][Next]_vars

(* A call that is under way goes on. *)
FairSpec == Spec /\ WF_vars(Step)
-----------------------------------------------------------------------------
(* No unit is in two blocks, free or not, nor above the break. *)
Disjoint ==
    \A b \in blocks :
        /\ b + size[b] < top
        /\ \A c \in blocks : b < c => b + size[b] < c

(* The ring holds exactly the free blocks, in the order of their addresses, and
   freep is one of them, until its only block is returned to a caller: that
   block is unlinked from itself. *)
After(b) == {c \in Free : c > b}

RingExact ==
    freep # NULL /\ ~emptied =>
        /\ freep \in Free
        /\ \A b \in Free :
              /\ nfp[b] \in Free
              /\ IF After(b) = {} THEN \A c \in Free : nfp[b] <= c
                 ELSE nfp[b] > b /\ \A c \in After(b) : nfp[b] <= c

(* The heap grows, and zz_malloc() fails, only when no free block is large
   enough, wherever freep was when the search began. *)
GrowsWhenNothingFits ==
    [][ (\E gap \in Gaps : MoreCore(gap)) \/ NoMoreCore =>
            \A b \in Free : size[b] < call.n ]_vars

(* No unit is lost: every unit below the break that was asked of sbrk() is in
   a block, so what was freed can be allocated again. *)
NothingLeaks ==
    [][ \A b \in blocks : \A u \in b .. b + size[b] :
            \E c \in blocks' : u \in c .. c + size'[c] ]_vars

(* Every call returns, unless the ring has been emptied: zz_free() of a block
   that is in the ring finds no place for it. *)
CallsReturn == call.step # "idle" ~> (call.step = "idle" \/ emptied)
=============================================================================
