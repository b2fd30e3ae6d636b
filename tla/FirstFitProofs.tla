--------------------------- MODULE FirstFitProofs ---------------------------
(***************************************************************************)
(* Proofs about the first-fit allocator, for every size of the heap, of    *)
(* the requests and of the gaps.                                           *)
(***************************************************************************)
EXTENDS FirstFit, TLAPS

(* The ring without the words of RingExact: next leads from every block of
   the set F to the one behind it, and from the last one to the first. *)
RingOn(next, F) ==
    \A b \in F :
        /\ next[b] \in F
        /\ \A c \in F : c > b => next[b] > b /\ next[b] <= c
        /\ next[b] <= b => \A c \in F : next[b] <= c

(* b is met on the way round from a, exclusive, to c, inclusive. *)
Between(a, b, c) ==
    \/ a < c /\ a < b /\ b <= c
    \/ c < a /\ (a < b \/ b <= c)

(* Besides TypeOK and Disjoint, what is kept: before the first call there is
   only base; *)
NoneYet == freep = NULL => call = Idle /\ blocks = {base} /\ used = {}

(* a block that is being freed is not in the ring; once the ring is emptied,
   nothing is searched; *)
CallAt ==
    /\ call.step = "place" => call.bp \in used
    /\ call.more => call.step = "place"
    /\ emptied => call.step # "search" /\ ~call.more

(* every pointer leads to a block; *)
Links ==
    /\ base \in blocks /\ call.at \in blocks
    /\ freep # NULL => freep \in blocks
    /\ \A a \in Addr : nfp[a] \in blocks

(* the ring is whole, and a call is at one of its blocks; *)
Ring ==
    ~emptied =>
        /\ RingOn(nfp, Free)
        /\ freep # NULL => freep \in Free
        /\ call.step # "idle" => call.at \in Free

(* the free blocks that a search has passed are too small. *)
Tried == call.step = "search" => \A b \in Free : Between(freep, b, call.at) => size[b] < call.n

IInv == TypeOK /\ Disjoint /\ NoneYet /\ CallAt /\ Links /\ Ring /\ Tried
-----------------------------------------------------------------------------
(* The ring is still one when a block is put between two neighbours ... *)
LEMMA RingInsert ==
  ASSUME NEW F, \A x \in F : x \in Nat, NEW f, NEW g, RingOn(f, F),
         NEW at \in F, NEW bp \in Nat, bp \notin F,
         \/ at < bp /\ bp < f[at]
         \/ at >= f[at] /\ (bp > at \/ bp < f[at]),
         g[at] = bp, g[bp] = f[at], \A b \in F \ {at} : g[b] = f[b]
  PROVE  RingOn(g, F \union {bp})
<1> SUFFICES ASSUME NEW b \in F \union {bp}
             PROVE  /\ g[b] \in F \union {bp}
                    /\ \A c \in F \union {bp} : c > b => g[b] > b /\ g[b] <= c
                    /\ g[b] <= b => \A c \in F \union {bp} : g[b] <= c
  BY DEF RingOn
<1>1. CASE b = bp
  <2>1. \A c \in F : c > bp => f[at] > bp /\ f[at] <= c
    BY DEF RingOn
  <2>2. f[at] \in F /\ (f[at] <= bp => \A c \in F : f[at] <= c)
    BY DEF RingOn
  <2> QED
    BY <1>1, <2>1, <2>2
<1>2. CASE b = at
  BY <1>2 DEF RingOn
<1>3. CASE b \in F \ {at}
  BY <1>3 DEF RingOn
<1> QED
  BY <1>1, <1>2, <1>3

(* ... and when a block is taken out from between two. *)
LEMMA RingRemove ==
  ASSUME NEW F, \A x \in F : x \in Nat, NEW f, NEW g, RingOn(f, F),
         NEW at \in F, f[at] # at,
         g[at] = f[f[at]], \A b \in F \ {at} : g[b] = f[b]
  PROVE  RingOn(g, F \ {f[at]})
<1> SUFFICES ASSUME NEW b \in F \ {f[at]}
             PROVE  /\ g[b] \in F \ {f[at]}
                    /\ \A c \in F \ {f[at]} : c > b => g[b] > b /\ g[b] <= c
                    /\ g[b] <= b => \A c \in F \ {f[at]} : g[b] <= c
  BY DEF RingOn
<1>1. CASE b = at
  BY <1>1 DEF RingOn
<1>2. CASE b # at
  BY <1>2 DEF RingOn
<1> QED
  BY <1>1, <1>2

(* A step along the ring passes one block; a step to where the walk began has
   passed them all. *)
LEMMA RingWalk ==
  ASSUME NEW F, \A x \in F : x \in Nat, NEW f, RingOn(f, F),
         NEW first \in F, NEW at \in F, NEW b \in F
  PROVE  /\ f[at] # first /\ Between(first, b, f[at]) => Between(first, b, at) \/ b = f[at]
         /\ f[at] = first => Between(first, b, at) \/ b = first
  BY DEF RingOn, Between

(* The ring in the words of RingExact. *)
LEMMA RingIsExact ==
  ASSUME \A x \in Free : x \in Nat, RingOn(nfp, Free), freep \in Free
  PROVE  RingExact
  BY DEF RingOn, RingExact, After

(* Requests, gaps and addresses are numbers, and NULL is no address. *)
LEMMA Numbers ==
  /\ MINALLOC \in Nat /\ MINALLOC > 0 /\ MaxTop \in Nat /\ MaxTop > 0
  /\ \A n \in Requests : n \in Nat
  /\ \A g \in Gaps : g \in Nat
  /\ \A a \in Addr : a \in Nat /\ a <= MaxTop
  /\ base \in Addr /\ NULL \notin Addr
  BY HeapAssumption DEF Addr, base, NULL

(* The parts of TypeOK that are numbers. *)
LEMMA NumbersIn ==
  ASSUME TypeOK
  PROVE  /\ call.n \in Nat /\ call.n \in Requests \union {0} /\ top \in Nat /\ top <= MaxTop
         /\ \A a \in Addr : size[a] \in Nat /\ size[a] <= MaxTop /\ nfp[a] \in Addr
         /\ call.at \in Addr /\ call.bp \in Addr
<1>1. call.n \in Requests \union {0} /\ call.at \in Addr /\ call.bp \in Addr
  BY DEF TypeOK
<1>2. top \in Nat /\ top <= MaxTop
  BY Numbers DEF TypeOK
<1>3. \A a \in Addr : size[a] \in 0 .. MaxTop /\ nfp[a] \in Addr
  BY DEF TypeOK
<1> QED
  BY <1>1, <1>2, <1>3, Numbers

(* Disjoint blocks are never taken for neighbours: the tests forget the header. *)
LEMMA NoJoin ==
  ASSUME TypeOK, Disjoint, NEW a \in blocks, NEW b \in blocks, a # b
  PROVE  ~Joins(a, b)
<1>1. a \in Addr /\ b \in Addr
  BY DEF TypeOK
<1> QED
  BY <1>1, Numbers, NumbersIn DEF Disjoint, Joins

(* What Splice does, then: bp is linked between at and its next. *)
LEMMA SpliceLinks ==
  ASSUME IInv, Splice
  PROVE  /\ call.bp # call.at /\ call.at \in Addr /\ call.bp \in Addr
         /\ size' = size /\ blocks' = blocks /\ used' = used \ {call.bp}
         /\ nfp' = [nfp EXCEPT ![call.bp] = nfp[call.at], ![call.at] = call.bp]
<1>1. /\ call.at \in Addr /\ call.bp \in Addr /\ nfp[call.at] \in Addr
      /\ call.at \in blocks /\ call.bp \in blocks /\ nfp[call.at] \in blocks
      /\ blocks \subseteq Addr /\ size \in [Addr -> 0 .. MaxTop] /\ nfp \in [Addr -> Addr]
  BY DEF IInv, TypeOK, CallAt, Links, Splice
<1>2. call.bp # call.at /\ call.bp # nfp[call.at]
  BY <1>1, Numbers DEF Splice, BelongsAfter
<1>3. ~Joins(call.bp, nfp[call.at]) /\ ~Joins(call.at, call.bp)
  BY <1>1, <1>2, NoJoin DEF IInv
<1>4. size' = [size EXCEPT ![call.bp] = size[call.bp], ![call.at] = size[call.at]]
  BY <1>1, <1>2, <1>3 DEF Splice
<1>5. size' = size
  BY <1>1, <1>4
<1>6. nfp' = [nfp EXCEPT ![call.bp] = nfp[call.at], ![call.at] = call.bp]
  BY <1>1, <1>2, <1>3 DEF Splice
<1>7. blocks' = blocks /\ used' = used \ {call.bp}
  BY <1>3 DEF Splice
<1> QED
  BY <1>1, <1>2, <1>5, <1>6, <1>7

(* Where Take leaves the ring and the blocks. *)
LEMMA TakeTypes ==
  ASSUME IInv, Take
  PROVE  /\ call.step = "search" /\ ~emptied /\ ~call.more
         /\ call.at \in Free /\ p \in Free /\ p \in Addr /\ call.at \in Addr
         /\ call.n \in Nat /\ size[p] \in Nat /\ size[p] >= call.n /\ p + size[p] < top
<1>1. call.step = "search" /\ ~emptied /\ ~call.more /\ (size[p] = call.n \/ size[p] > call.n)
  BY DEF IInv, CallAt, Take, Exact, Cut
<1>2. call.at \in Free /\ p \in Free
  BY <1>1 DEF IInv, Ring, RingOn, p
<1>3. p \in blocks /\ p \in Addr /\ call.at \in Addr
  BY <1>2 DEF IInv, TypeOK, Free
<1>4. call.n \in Nat /\ size[p] \in Nat
  BY <1>3, NumbersIn DEF IInv
<1>5. p + size[p] < top
  BY <1>3 DEF IInv, Disjoint
<1> QED
  BY <1>1, <1>2, <1>3, <1>4, <1>5
-----------------------------------------------------------------------------
(* The invariant holds before the first call ... *)
LEMMA InvInit == Init => IInv
<1> SUFFICES ASSUME Init PROVE IInv
  OBVIOUS
<1> USE Numbers
<1>1. TypeOK
  <2>1. nfp \in [Addr -> Addr] /\ size \in [Addr -> 0 .. MaxTop]
    BY DEF Init
  <2>2. top \in 1 .. MaxTop
    BY DEF Init
  <2> QED
    BY <2>1, <2>2 DEF Init, TypeOK, Idle
<1>2. Disjoint
  BY DEF Init, Disjoint, base
<1>3. NoneYet /\ CallAt /\ Links
  BY DEF Init, NoneYet, CallAt, Links, Idle
<1>4. Ring
  BY DEF Init, Ring, RingOn, Free, Idle, base, Addr
<1>5. Tried
  BY DEF Init, Tried, Idle
<1> QED
  BY <1>1, <1>2, <1>3, <1>4, <1>5 DEF IInv

(* ... and is kept by the beginning of a zz_malloc(), *)
LEMMA MallocKeeps ==
  ASSUME IInv, NEW n \in Requests, Malloc(n)
  PROVE  IInv'
<1> USE Numbers DEF IInv
<1>1. /\ freep' = RingStart /\ RingStart \in Free /\ RingStart \in Addr /\ ~emptied
      /\ call' = [step |-> "search", n |-> n, at |-> RingStart, bp |-> base, more |-> FALSE]
      /\ UNCHANGED <<nfp, size, top, blocks, used, emptied>>
  BY DEF Malloc, heads, RingStart, Ring, NoneYet, Free, Idle, TypeOK, base, NULL
<1>2. TypeOK' /\ Disjoint'
  BY <1>1 DEF TypeOK, Disjoint
<1>3. NoneYet' /\ CallAt' /\ Links'
  BY <1>1 DEF NoneYet, CallAt, Links, Free
<1>4. Ring'
  BY <1>1 DEF Ring, Free
<1>5. Tried'
  BY <1>1 DEF Tried, Between, Addr, Free, TypeOK
<1> QED
  BY <1>2, <1>3, <1>4, <1>5

(* the beginning of a zz_free(), *)
LEMMA FreeBlockKeeps ==
  ASSUME IInv, NEW b \in used, FreeBlock(b)
  PROVE  IInv'
<1> USE Numbers DEF IInv
<1>1. /\ freep # NULL /\ freep \in Addr /\ b \in Addr /\ b \in blocks
      /\ call' = [step |-> "place", n |-> 0, at |-> freep, bp |-> b, more |-> FALSE]
      /\ UNCHANGED <<nfp, size, freep, top, blocks, used, emptied>>
  BY DEF FreeBlock, heads, NoneYet, Idle, TypeOK
<1>2. TypeOK' /\ Disjoint'
  BY <1>1 DEF TypeOK, Disjoint
<1>3. NoneYet' /\ CallAt' /\ Links'
  BY <1>1 DEF NoneYet, CallAt, Links
<1>4. Ring' /\ Tried'
  BY <1>1 DEF Ring, Free, Tried
<1> QED
  BY <1>2, <1>3, <1>4

(* a turn of the loop of zz_malloc(), which adds p to what has been passed, *)
LEMMA SearchOnKeeps ==
  ASSUME IInv, SearchOn
  PROVE  IInv'
<1> USE Numbers DEF IInv
<1>1. /\ call.step = "search" /\ ~emptied /\ ~(size[p] >= call.n) /\ p # freep
      /\ call.at \in Free /\ freep \in Free /\ p \in Free /\ p \in Addr /\ p \in blocks
      /\ call' = [call EXCEPT !.at = p]
      /\ UNCHANGED <<nfp, size, freep, top, blocks, used, emptied>>
  BY DEF SearchOn, heads, Fits, Last, CallAt, Ring, RingOn, NoneYet, Idle, TypeOK, Free, p
<1>2. TypeOK' /\ Disjoint'
  BY <1>1 DEF TypeOK, Disjoint
<1>3. NoneYet' /\ CallAt' /\ Links'
  BY <1>1 DEF NoneYet, CallAt, Links, TypeOK
<1>4. Ring'
  BY <1>1 DEF Ring, Free, TypeOK
<1>5. Tried'
  <2>1. ASSUME NEW b \in Free, Between(freep, b, p) PROVE size[b] < call.n
    <3>1. Between(freep, b, call.at) \/ b = p
      BY <1>1, <2>1, RingWalk DEF Ring, p, Free, TypeOK
    <3> QED
      BY <1>1, <3>1 DEF Tried, TypeOK, Free
  <2> QED
    BY <1>1, <2>1 DEF Tried, TypeOK, Free
<1> QED
  BY <1>2, <1>3, <1>4, <1>5

(* a zz_malloc() that fails, *)
LEMMA NoMoreCoreKeeps ==
  ASSUME IInv, NoMoreCore
  PROVE  IInv'
<1> USE Numbers DEF IInv
<1>1. call.step = "search" /\ call' = Idle
      /\ UNCHANGED <<nfp, size, freep, top, blocks, used, emptied>>
  BY DEF NoMoreCore, heads
<1>2. TypeOK' /\ Disjoint'
  BY <1>1 DEF TypeOK, Disjoint, Idle
<1>3. NoneYet' /\ CallAt' /\ Links'
  BY <1>1 DEF NoneYet, CallAt, Links, Idle
<1>4. Ring' /\ Tried'
  BY <1>1 DEF Ring, Free, Tried, Idle
<1> QED
  BY <1>2, <1>3, <1>4

(* a turn of the loop of zz_free(), *)
LEMMA PlaceOnKeeps ==
  ASSUME IInv, PlaceOn
  PROVE  IInv'
<1> USE Numbers DEF IInv
<1>1. /\ call.step = "place" /\ call' = [call EXCEPT !.at = nfp[call.at]]
      /\ nfp[call.at] \in Addr /\ nfp[call.at] \in blocks
      /\ ~emptied => nfp[call.at] \in Free
      /\ UNCHANGED <<nfp, size, freep, top, blocks, used, emptied>>
  BY DEF PlaceOn, heads, TypeOK, Links, Ring, RingOn
<1>2. TypeOK' /\ Disjoint'
  BY <1>1 DEF TypeOK, Disjoint
<1>3. NoneYet' /\ CallAt' /\ Links'
  BY <1>1 DEF NoneYet, CallAt, Links, TypeOK, Idle
<1>4. Ring' /\ Tried'
  BY <1>1 DEF Ring, Free, Tried, TypeOK
<1> QED
  BY <1>2, <1>3, <1>4

(* the end of zz_free(), which puts bp between two neighbours, *)
LEMMA SpliceKeeps ==
  ASSUME IInv, Splice
  PROVE  IInv'
<1> USE Numbers DEF IInv
<1>1. /\ call.step = "place" /\ call.bp \in used /\ call.bp \in blocks /\ nfp[call.at] \in Addr
      /\ call.at \in blocks /\ nfp[call.at] \in blocks /\ freep # NULL /\ call.n \in Requests \union {0}
      /\ freep' = call.at /\ UNCHANGED <<top, emptied>>
      /\ call' = IF call.more THEN [Idle EXCEPT !.step = "search", !.n = call.n, !.at = call.at]
                 ELSE Idle
  BY DEF Splice, CallAt, Links, TypeOK, NoneYet, Idle
<1>2. /\ call.bp # call.at /\ call.at \in Addr /\ call.bp \in Addr
      /\ size' = size /\ blocks' = blocks /\ used' = used \ {call.bp}
      /\ nfp' = [nfp EXCEPT ![call.bp] = nfp[call.at], ![call.at] = call.bp]
  BY SpliceLinks
<1>3. \/ call.more /\ call' = [step |-> "search", n |-> call.n, at |-> call.at, bp |-> base,
                                more |-> FALSE]
      \/ call' = [step |-> "idle", n |-> 0, at |-> base, bp |-> base, more |-> FALSE]
  BY <1>1 DEF Idle
<1>4. TypeOK'
  <2>1. CASE call.more
    BY <1>1, <1>2, <2>1 DEF TypeOK, Idle
  <2>2. CASE ~call.more
    BY <1>1, <1>2, <2>2 DEF TypeOK, Idle
  <2> QED
    BY <2>1, <2>2
<1>5. Disjoint'
  BY <1>1, <1>2 DEF Disjoint
<1>6. NoneYet' /\ CallAt' /\ Links'
  <2>1. NoneYet'
    BY <1>1, <1>2 DEF NoneYet
  <2>2. CallAt'
    <3>1. call'.step \in {"search", "idle"} /\ call'.more = FALSE
      BY ONLY <1>3
    <3>2. emptied => call'.step = "idle"
      BY <1>3 DEF CallAt
    <3> QED
      BY <1>1, <3>1, <3>2 DEF CallAt
  <2>3. call'.at \in blocks
    BY <1>1, <1>3 DEF Links
  <2>4. \A a \in Addr : nfp'[a] \in blocks
    BY <1>1, <1>2 DEF TypeOK, Links
  <2> QED
    BY <1>1, <1>2, <2>1, <2>3, <2>4, <2>2 DEF Links
<1>7. Ring'
  <2> SUFFICES ASSUME ~emptied PROVE Ring'
    BY <1>1 DEF Ring
  <2>1. /\ Free' = Free \union {call.bp} /\ call.bp \notin Free /\ call.at \in Free
        /\ RingOn(nfp, Free) /\ call.bp \in Nat /\ \A x \in Free : x \in Nat
    BY <1>1, <1>2 DEF Free, Ring, TypeOK
  <2>2. /\ nfp'[call.at] = call.bp /\ nfp'[call.bp] = nfp[call.at]
        /\ \A b \in Free \ {call.at} : nfp'[b] = nfp[b]
    BY <1>2, <2>1 DEF TypeOK, Free
  <2>3. \/ call.at < call.bp /\ call.bp < nfp[call.at]
        \/ call.at >= nfp[call.at] /\ (call.bp > call.at \/ call.bp < nfp[call.at])
    BY DEF Splice, BelongsAfter
  <2>4. RingOn(nfp', Free \union {call.bp})
    BY ONLY <2>1, <2>2, <2>3, RingInsert
  <2> QED
    BY <1>1, <1>3, <2>1, <2>4 DEF Ring
<1>8. Tried'
  BY <1>1, <1>2, <1>3 DEF Tried, Between, Free, TypeOK
<1> QED
  BY <1>4, <1>5, <1>6, <1>7, <1>8

(* morecore(), whose block is above all others, *)
LEMMA MoreCoreKeeps ==
  ASSUME IInv, NEW gap \in Gaps, MoreCore(gap)
  PROVE  IInv'
<1> USE Numbers DEF IInv
<1> DEFINE up == top + gap
           units == MoreUnits
<1>1. units \in Nat /\ units > 0 /\ gap \in Nat /\ top \in Nat /\ top >= 1
  BY NumbersIn DEF MoreUnits, TypeOK
<1>2. /\ up \in Addr /\ up >= top /\ up + units \in 1 .. MaxTop /\ units - 1 \in 0 .. MaxTop
  BY <1>1 DEF MoreCore, Addr
<1>3. /\ call.step = "search" /\ ~emptied /\ freep # NULL /\ freep \in Addr /\ freep \in Free
      /\ freep \in blocks /\ call.at \in Free /\ call.n \in Requests \union {0}
  BY DEF MoreCore, CallAt, NoneYet, Idle, TypeOK, Ring, Links
<1>4. \A b \in blocks : b \in Nat /\ size[b] \in Nat /\ b < up /\ b + size[b] < up
  BY <1>1, <1>2, NumbersIn DEF Disjoint, TypeOK
<1>5. /\ top' = up + units /\ size' = [size EXCEPT ![up] = units - 1]
      /\ blocks' = blocks \union {up} /\ used' = used \union {up}
      /\ call' = [call EXCEPT !.step = "place", !.at = freep, !.bp = up, !.more = TRUE]
      /\ UNCHANGED <<nfp, freep, emptied>>
  BY DEF MoreCore
<1> HIDE DEF up, units
<1>6. TypeOK'
  BY <1>1, <1>2, <1>5, <1>3 DEF TypeOK
<1>7. Disjoint'
  BY <1>1, <1>2, <1>5, <1>4 DEF Disjoint, TypeOK
<1>8. NoneYet' /\ CallAt' /\ Links'
  BY <1>2, <1>5, <1>3 DEF NoneYet, CallAt, Links, TypeOK
<1>9. Free' = Free
  BY <1>2, <1>5, <1>4 DEF Free, TypeOK
<1>10. Ring' /\ Tried'
  BY <1>3, <1>5, <1>9 DEF Ring, Tried, TypeOK
<1> QED
  BY <1>6, <1>7, <1>8, <1>10

(* and the end of zz_malloc(), which takes a block from the ring or cuts it. *)
LEMMA TakeKeeps ==
  ASSUME IInv, Take
  PROVE  IInv'
<1> USE Numbers DEF IInv
<1>1. /\ call.step = "search" /\ ~emptied /\ ~call.more
      /\ call.at \in Free /\ p \in Free /\ p \in Addr /\ call.at \in Addr
      /\ call.n \in Nat /\ size[p] \in Nat /\ size[p] >= call.n /\ p + size[p] < top
  BY TakeTypes
<1>2. call' = Idle /\ freep' = call.at /\ top' = top /\ freep' # NULL
      /\ freep' \in blocks /\ call.at \in blocks
  BY <1>1 DEF Take, Free
<1>3. CASE Exact
  <2>1. /\ nfp' = [nfp EXCEPT ![call.at] = nfp[p]] /\ used' = used \union {p}
        /\ emptied' = (emptied \/ p = call.at) /\ UNCHANGED <<size, blocks>>
    BY <1>3 DEF Exact, BehindTaken
  <2>2. TypeOK'
    BY <1>1, <1>2, <2>1 DEF TypeOK, Idle, Free
  <2>3. Disjoint'
    BY <1>2, <2>1 DEF Disjoint
  <2>4. NoneYet' /\ CallAt' /\ Links' /\ Tried'
    BY <1>1, <1>2, <2>1 DEF NoneYet, CallAt, Links, Tried, TypeOK, Idle
  <2>5. Ring'
    <3> SUFFICES ASSUME p # call.at PROVE Ring'
      BY <2>1 DEF Ring
    <3>1. /\ Free' = Free \ {p} /\ nfp'[call.at] = nfp[p] /\ p = nfp[call.at]
          /\ \A b \in Free \ {call.at} : nfp'[b] = nfp[b]
          /\ RingOn(nfp, Free) /\ \A x \in Free : x \in Nat
      BY <1>1, <2>1 DEF Free, Ring, TypeOK, p
    <3>2. RingOn(nfp', Free')
      BY <1>1, <3>1, RingRemove
    <3> QED
      BY <1>1, <1>2, <3>1, <3>2 DEF Ring, Idle
  <2> QED
    BY <2>2, <2>3, <2>4, <2>5
<1>4. CASE Cut
  <2> DEFINE end == p + SizeLeft + 1
             left == SizeLeft
  <2>1. /\ left \in Nat /\ left < size[p] /\ end = p + left + 1 /\ end + call.n = p + size[p]
        /\ end > p /\ left \in 0 .. MaxTop /\ call.n \in 0 .. MaxTop
    BY <1>1, <1>4, NumbersIn DEF Cut, SizeLeft
  <2>2. end \in Addr
    BY <1>1, <2>1, NumbersIn DEF Addr
  <2>3. /\ size' = [size EXCEPT ![p] = left, ![end] = call.n]
        /\ blocks' = blocks \union {end} /\ used' = used \union {end}
        /\ UNCHANGED <<nfp, emptied>>
    BY <1>4 DEF Cut
  <2> HIDE DEF end, left
  <2>4. end \notin blocks /\ p \in blocks
    BY <1>1, <2>1, NumbersIn DEF Disjoint, TypeOK, Free
  <2>5. TypeOK'
    BY <1>1, <1>2, <2>1, <2>3, <2>2 DEF TypeOK, Idle
  <2>6. Disjoint'
    BY <1>1, <1>2, <2>1, <2>3, <2>4, <2>2, NumbersIn DEF Disjoint, TypeOK
  <2>7. NoneYet' /\ CallAt' /\ Links' /\ Tried'
    BY <1>1, <1>2, <2>3 DEF NoneYet, CallAt, Links, Tried, TypeOK, Idle
  <2>8. Free' = Free
    BY <2>3, <2>4 DEF Free, TypeOK
  <2>9. Ring'
    BY <1>1, <1>2, <2>3, <2>8 DEF Ring, Idle
  <2> QED
    BY <2>5, <2>6, <2>7, <2>9
<1> QED
  BY <1>3, <1>4 DEF Take

(* So every step keeps it ... *)
LEMMA InvStep == IInv /\ [Next]_vars => IInv'
<1> SUFFICES ASSUME IInv, [Next]_vars PROVE IInv'
  OBVIOUS
<1>1. ASSUME NEW n \in Requests, Malloc(n) PROVE IInv'
  BY <1>1, MallocKeeps
<1>2. ASSUME NEW b \in used, FreeBlock(b) PROVE IInv'
  BY <1>2, FreeBlockKeeps
<1>3. CASE Step
  BY <1>3, TakeKeeps, SearchOnKeeps, MoreCoreKeeps, NoMoreCoreKeeps, PlaceOnKeeps, SpliceKeeps
  DEF Step
<1>4. CASE UNCHANGED vars
  BY <1>4 DEF vars, IInv, TypeOK, Disjoint, NoneYet, CallAt, Links, Ring, RingOn, Tried, Between,
     Free
<1> QED
  BY <1>1, <1>2, <1>3, <1>4 DEF Next

(* ... and it always holds. *)
LEMMA InvAlways == Spec => []IInv
<1> QED
  BY InvInit, InvStep, PTL DEF Spec

(* The ring of the invariant, in the words of the property. *)
LEMMA InvRing == IInv => RingExact
<1> SUFFICES ASSUME IInv, freep # NULL, ~emptied PROVE RingExact
  BY DEF RingExact
<1>1. RingOn(nfp, Free) /\ freep \in Free /\ \A x \in Free : x \in Nat
  BY Numbers DEF IInv, Ring, Free, TypeOK
<1> QED
  BY <1>1, RingIsExact

(* When a search has come round, every free block is too small. *)
LEMMA InvTried ==
  ASSUME IInv, call.step = "search", ~Fits, Last, NEW b \in Free
  PROVE  size[b] < call.n
<1>1. /\ call.at \in Free /\ freep \in Free /\ p = freep /\ nfp[call.at] = freep
      /\ RingOn(nfp, Free) /\ \A x \in Free : x \in Nat
  BY Numbers DEF IInv, CallAt, Ring, NoneYet, Idle, Free, TypeOK, Last, p
<1>2. Between(freep, b, call.at) \/ b = freep
  BY <1>1, RingWalk
<1>3. size[freep] < call.n
  BY <1>1, NumbersIn DEF IInv, Fits, Free, TypeOK
<1> QED
  BY <1>2, <1>3 DEF IInv, Tried

(* No step takes a unit out of all blocks. *)
LEMMA StepKeepsUnits ==
  ASSUME IInv, Next, NEW b \in blocks, NEW u \in b .. b + size[b]
  PROVE  \E c \in blocks' : u \in c .. c + size'[c]
<1>1. CASE UNCHANGED <<size, blocks>>
  BY <1>1
<1>2. CASE Splice
  BY <1>2, SpliceLinks
<1>3. ASSUME NEW gap \in Gaps, MoreCore(gap) PROVE \E c \in blocks' : u \in c .. c + size'[c]
  <2>1. top + gap \notin blocks
    BY Numbers, NumbersIn DEF IInv, Disjoint, TypeOK
  <2>2. b \in blocks' /\ size'[b] = size[b]
    BY <1>3, <2>1 DEF MoreCore, IInv, TypeOK
  <2> QED
    BY <2>2
<1>4. CASE Take /\ Cut
  <2>1. /\ p \in blocks /\ p \in Addr /\ call.n \in Nat /\ size[p] \in Nat /\ size[p] > call.n
        /\ b \in Addr /\ size[b] \in Nat
    BY <1>4, TakeTypes, NumbersIn DEF Take, Cut, Free, IInv, TypeOK
  <2> DEFINE left == SizeLeft
             end == p + SizeLeft + 1
  <2>2. /\ left \in Nat /\ left < size[p] /\ end = p + left + 1 /\ end + call.n = p + size[p]
        /\ p \in Nat
    BY <2>1, Numbers DEF SizeLeft
  <2>3. size' = [size EXCEPT ![p] = left, ![end] = call.n] /\ blocks' = blocks \union {end}
    BY <1>4 DEF Cut
  <2>4. end \in Addr /\ end \notin blocks
    BY <1>4, <2>1, <2>2, Numbers, NumbersIn, TakeTypes DEF Take, Disjoint, IInv, Addr
  <2> HIDE DEF left, end
  <2>5. /\ size'[end] = call.n /\ size'[p] = left
        /\ \A c \in blocks \ {p} : size'[c] = size[c]
    BY <2>1, <2>2, <2>3, <2>4 DEF IInv, TypeOK
  <2>6. CASE b # p
    BY <2>3, <2>5, <2>6
  <2>7. CASE b = p
    <3>1. u \in Int /\ p <= u /\ u <= p + size[p]
      BY <2>1, <2>2, <2>7
    <3>2. CASE u <= p + left
      BY <2>1, <2>2, <2>3, <2>5, <3>1, <3>2
    <3>3. CASE u > p + left
      BY <2>1, <2>2, <2>3, <2>5, <3>1, <3>3
    <3> QED
      BY <2>2, <3>1, <3>2, <3>3
  <2> QED
    BY <2>6, <2>7
<1> QED
  BY <1>1, <1>2, <1>3, <1>4
  DEF Next, Malloc, FreeBlock, Step, Take, Exact, SearchOn, NoMoreCore, PlaceOn, heads
-----------------------------------------------------------------------------
(* first_fit_memalloc.c: addresses, sizes and the call under way are what they
   should be, whatever is asked for and freed, and however the heap grows. *)
THEOREM HeapTypeCorrect == Spec => []TypeOK
<1>1. IInv => TypeOK
  BY DEF IInv
<1> QED
  BY <1>1, InvAlways, PTL

(* No unit of the heap is ever in two blocks. *)
THEOREM BlocksDisjoint == Spec => []Disjoint
<1>1. IInv => Disjoint
  BY DEF IInv
<1> QED
  BY <1>1, InvAlways, PTL

(* The ring is exactly the free blocks in the order of their addresses, until
   its only block is returned. *)
THEOREM RingCorrect == Spec => []RingExact
<1> QED
  BY InvRing, InvAlways, PTL

(* sbrk() is asked, and zz_malloc() fails, only when every free block is too
   small. *)
THEOREM FirstFitComplete == Spec => GrowsWhenNothingFits
<1>1. IInv /\ [Next]_vars =>
        [(\E gap \in Gaps : MoreCore(gap)) \/ NoMoreCore => \A b \in Free : size[b] < call.n]_vars
  BY InvTried DEF MoreCore, NoMoreCore
<1> QED
  BY <1>1, InvAlways, PTL DEF Spec, GrowsWhenNothingFits

(* What was asked of sbrk() is in a block for ever. *)
THEOREM NoUnitLeaks == Spec => NothingLeaks
<1>1. IInv /\ [Next]_vars =>
        [\A b \in blocks : \A u \in b .. b + size[b] : \E c \in blocks' : u \in c .. c + size'[c]]_vars
  BY StepKeepsUnits DEF vars
<1> QED
  BY <1>1, InvAlways, PTL DEF Spec, NothingLeaks
=============================================================================
