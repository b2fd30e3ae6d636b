-------------------------- MODULE ThreadPoolProofs --------------------------
(***************************************************************************)
(* For any workers, adders and tasks: the invariant of ThreadPool is       *)
(* inductive, so the list of the pool is exact in every state.  The list   *)
(* is described by the positions of its tasks in order, which only grows   *)
(* at one end as started does at the other: no induction over the list.    *)
(***************************************************************************)
EXTENDS ThreadPool, TLAPS

USE PoolAssumption

Threads == Workers \union Adders

(* The list after AppendTask: the position added is the last. *)
LEMMA AppendExact ==
    ASSUME TypeOK, QueueExact, AtHand, NEW a \in Adders, destroyer = "idle", AppendTask(a)
    PROVE  QueueExact'
<1> DEFINE n == Len(order)
           k == Len(started)
<1>1. /\ mine[a] \in Tasks \ Range(order) /\ next[mine[a]] = None
      /\ order \in Seq(Tasks) /\ started \in Seq(Tasks)
      /\ next \in [Tasks -> Pointers] /\ destroyer' = destroyer
      /\ order' = Append(order, mine[a]) /\ started' = started
  BY DEF AtHand, TypeOK, AppendTask
<1>2. /\ k \in Nat /\ n \in Nat /\ k <= n
      /\ \A i \in 1..k : started[i] = order[i]
      /\ \A i, j \in 1..n : order[i] = order[j] => i = j
      /\ tsk_head = IF k < n THEN order[k + 1] ELSE None
      /\ tsk_tail = IF k < n THEN order[n] ELSE None
      /\ \A i \in 1..n : i > k => next[order[i]] = IF i < n THEN order[i + 1] ELSE None
      /\ \A i \in 1..n : order[i] \in Tasks /\ order[i] # mine[a]
  <2>1. k \in Nat /\ n \in Nat /\ \A i \in 1..n : order[i] \in Tasks /\ order[i] # mine[a]
    BY <1>1 DEF Range
  <2> QED  BY <1>1, <2>1 DEF QueueExact, Queued
<1>3. /\ Len(order') = n + 1 /\ order'[n + 1] = mine[a]
      /\ \A i \in 1..n : order'[i] = order[i]
  BY <1>1
<1> HIDE DEF n, k
<1>4. CASE tsk_head = None
  <2>1. k = n
    BY <1>2, <1>4
  <2>2. tsk_head' = mine[a] /\ tsk_tail' = mine[a] /\ next' = next
    BY <1>4 DEF AppendTask, LinkTail
  <2>3. \A i, j \in 1..(n + 1) : order'[i] = order'[j] => i = j
    BY <1>2, <1>3
  <2>4. \A i \in 1..k : started[i] = order'[i]
    BY <1>2, <1>3, <2>1
  <2> QED  BY <1>1, <1>2, <1>3, <2>1, <2>2, <2>3, <2>4 DEF QueueExact, Queued, n, k
<1>5. CASE tsk_head # None
  <2>1. k < n /\ tsk_tail = order[n]
    BY <1>2, <1>5
  <2>2. /\ tsk_head' = tsk_head /\ tsk_tail' = mine[a]
        /\ next' = [next EXCEPT ![order[n]] = mine[a]]
    BY <1>5, <2>1 DEF AppendTask, LinkTail
  <2>3. \A i, j \in 1..(n + 1) : order'[i] = order'[j] => i = j
    BY <1>2, <1>3
  <2>4. \A i \in 1..k : started[i] = order'[i]
    BY <1>2, <1>3, <2>1
  <2>5. \A i \in 1..(n + 1) : i > k =>
            next'[order'[i]] = IF i < n + 1 THEN order'[i + 1] ELSE None
    <3> TAKE i \in 1..(n + 1)
    <3>1. CASE i < n
      BY <1>1, <1>2, <1>3, <2>2, <3>1
    <3>2. CASE i = n
      BY <1>1, <1>2, <1>3, <2>2, <3>2
    <3>3. CASE i = n + 1
      BY <1>1, <1>2, <1>3, <2>1, <2>2, <3>3
    <3> QED  BY <1>2, <3>1, <3>2, <3>3
  <2>6. order'[k + 1] = order[k + 1]
    BY <1>2, <1>3, <2>1
  <2> QED  BY <1>1, <1>2, <1>3, <2>1, <2>2, <2>3, <2>4, <2>5, <2>6 DEF QueueExact, Queued, n, k
<1> QED  BY <1>4, <1>5

(* The list after Take: the first position has gone to started. *)
LEMMA TakeExact ==
    ASSUME TypeOK, QueueExact, AtHand, NEW w \in Workers, destroyer # "done", Take(w)
    PROVE  QueueExact' /\ tsk_head \in Tasks
<1> DEFINE n == Len(order)
           k == Len(started)
<1>1. /\ order \in Seq(Tasks) /\ started \in Seq(Tasks) /\ next \in [Tasks -> Pointers]
      /\ destroyer' = destroyer /\ order' = order /\ next' = next
      /\ started' = Append(started, tsk_head) /\ tsk_head # None
      /\ tsk_head' = next[tsk_head]
      /\ tsk_tail' = IF next[tsk_head] = None THEN None ELSE tsk_tail
  BY DEF AtHand, TypeOK, Take, TailAfter
<1>2. /\ k \in Nat /\ n \in Nat /\ k <= n
      /\ \A i \in 1..k : started[i] = order[i]
      /\ \A i, j \in 1..n : order[i] = order[j] => i = j
      /\ tsk_head = IF k < n THEN order[k + 1] ELSE None
      /\ tsk_tail = IF k < n THEN order[n] ELSE None
      /\ \A i \in 1..n : i > k => next[order[i]] = IF i < n THEN order[i + 1] ELSE None
      /\ \A i \in 1..n : order[i] \in Tasks
  BY <1>1 DEF QueueExact, Queued
<1>3. k < n /\ tsk_head = order[k + 1] /\ order[k + 1] \in Tasks
  BY <1>1, <1>2
<1>4. /\ Len(started') = k + 1 /\ started'[k + 1] = order[k + 1]
      /\ \A i \in 1..k : started'[i] = started[i]
  BY <1>1, <1>3
<1> HIDE DEF n, k
<1>5. \A i \in 1..(k + 1) : started'[i] = order[i]
  BY <1>2, <1>4
<1>6. next[tsk_head] = IF k + 1 < n THEN order[k + 2] ELSE None
  BY <1>2, <1>3
<1>7. tsk_tail' = IF k + 1 < n THEN order[n] ELSE None
  BY <1>1, <1>2, <1>3, <1>6
<1> QED  BY <1>1, <1>2, <1>3, <1>4, <1>5, <1>6, <1>7 DEF QueueExact, Queued, n, k
-----------------------------------------------------------------------------
(* AddTask writes the next pointer of a task that is not in the list. *)
LEMMA AddExact ==
    ASSUME TypeOK, QueueExact, NEW a \in Adders, AddTask(a)
    PROVE  QueueExact' /\ mine'[a] \in Tasks \ Range(order) /\ next'[mine'[a]] = None
<1>1. PICK t \in Tasks : /\ t \notin Range(order)
                        /\ mine' = [mine EXCEPT ![a] = t] /\ next' = [next EXCEPT ![t] = None]
  BY DEF AddTask
<1>2. mine'[a] = t /\ next'[t] = None /\ next \in [Tasks -> Pointers] /\ order \in Seq(Tasks)
  BY <1>1 DEF TypeOK
<1>3. \A i \in 1..Len(order) : next'[order[i]] = next[order[i]]
  <2> TAKE i \in 1..Len(order)
  <2>1. order[i] \in Tasks /\ order[i] # t
    BY <1>1, <1>2 DEF Range
  <2> QED  BY <1>1, <1>2, <2>1
<1>4. UNCHANGED <<tsk_head, tsk_tail, order, started, destroyer>>
  BY DEF AddTask
<1>5. QueueExact'
  <2> SUFFICES ASSUME destroyer # "done"
               PROVE  QueueExact'
    BY <1>4 DEF QueueExact
  <2>1. \A i \in 1..Len(order) : Queued(i) =>
            next'[order[i]] = IF i < Len(order) THEN order[i + 1] ELSE None
    BY <1>3 DEF QueueExact
  <2> QED  BY <1>4, <2>1 DEF QueueExact, Queued
<1> QED  BY <1>1, <1>2, <1>5

(* No other step touches the list, until the pool is freed. *)
Others ==
    \/ \E w \in Workers : Lock(w) \/ Test(w) \/ Sleep(w) \/ Run(w) \/ WakeSpuriously(w)
    \/ \E a \in Adders : Signal(a)
    \/ Destroy

LEMMA OthersExact ==
    ASSUME QueueExact, Others
    PROVE  QueueExact'
<1>1. CASE FreePool
  BY <1>1 DEF FreePool, QueueExact
<1>2. CASE ~FreePool
  <2>1. UNCHANGED <<listVars, order, started>> /\ (destroyer = "done" => destroyer' = "done")
    BY <1>2 DEF Others, Lock, Test, Sleep, Run, WakeSpuriously, Signal, Destroy,
                SetShutdown, Broadcast
  <2> QED  BY <2>1 DEF QueueExact, Queued, listVars
<1> QED  BY <1>1, <1>2

(* Whoever is between lock and unlock is alone there. *)
LEMMA Alone ==
    ASSUME TypeOK, NEW t \in Threads, NEW u \in Threads, pc[t] \in Inside, pc[u] \in Inside
    PROVE  t = u
BY DEF TypeOK, Threads

LEMMA TypeStep ==
    ASSUME IInv, Next
    PROVE  TypeOK'
<1> USE DEF Threads, IInv
<1>1. ASSUME NEW w \in Workers, Lock(w) \/ Test(w) \/ Sleep(w) \/ Run(w) \/ WakeSpuriously(w)
      PROVE  TypeOK'
  <2>1. CASE Lock(w)
    BY <2>1 DEF TypeOK, Lock, Acquire, Goto, Steps, Inside, listVars, Pointers
  <2>2. CASE Test(w)
    BY <2>2 DEF TypeOK, Test, Release, Goto, Steps, Inside, listVars, Pointers
  <2>3. CASE Sleep(w)
    BY <2>3 DEF TypeOK, Sleep, Release, Goto, Steps, Inside, listVars, Pointers
  <2>4. CASE Run(w)
    BY <2>4 DEF TypeOK, Run, Goto, Steps, Inside, listVars, Pointers
  <2>5. CASE WakeSpuriously(w)
    BY <2>5 DEF TypeOK, WakeSpuriously, Steps, Inside, listVars
  <2> QED  BY <1>1, <2>1, <2>2, <2>3, <2>4, <2>5
<1>2. ASSUME NEW w \in Workers, destroyer # "done", Take(w)
      PROVE  TypeOK'
  <2>1. tsk_head \in Tasks
    BY <1>2, TakeExact
  <2> QED  BY <1>2, <2>1 DEF TypeOK, Take, TailAfter, Release, Goto, Steps, Inside, Pointers
<1>3. ASSUME NEW a \in Adders, AddTask(a)
      PROVE  TypeOK'
  <2>1. PICK t \in Tasks : mine' = [mine EXCEPT ![a] = t] /\ next' = [next EXCEPT ![t] = None]
    BY <1>3 DEF AddTask
  <2> QED  BY <1>3, <2>1 DEF TypeOK, AddTask, Acquire, Goto, Steps, Inside, Pointers
<1>4. ASSUME NEW a \in Adders, AppendTask(a)
      PROVE  TypeOK'
  <2>1. mine[a] \in Tasks
    BY <1>4 DEF AtHand, AppendTask
  <2>2. next' \in [Tasks -> Pointers]
    BY <1>4, <2>1 DEF TypeOK, AppendTask, LinkTail, Pointers
  <2>3. order' \in Seq(Tasks) /\ started' \in Seq(Tasks)
    BY <1>4, <2>1 DEF TypeOK, AppendTask
  <2>4. /\ DOMAIN pc' = Threads
        /\ \A t \in Threads : pc'[t] \in Steps(t) /\ (pc'[t] \in Inside <=> mutex' = t)
    BY <1>4 DEF TypeOK, AppendTask, Release, Goto, Steps, Inside
  <2>5. /\ mutex' = None /\ tsk_head' \in Pointers /\ tsk_tail' \in Pointers
        /\ mine' \in [Threads -> Pointers]
        /\ UNCHANGED <<shutdown, waiting, destroyer>>
    BY <1>4, <2>1 DEF TypeOK, AppendTask, Release, Pointers
  <2> QED  BY <2>2, <2>3, <2>4, <2>5 DEF TypeOK
<1>5. ASSUME NEW a \in Adders, Signal(a)
      PROVE  TypeOK'
  BY <1>5 DEF TypeOK, Signal, Goto, Steps, Inside, listVars, Pointers
<1>6. ASSUME Destroy
      PROVE  TypeOK'
  BY <1>6 DEF TypeOK, Destroy, SetShutdown, Broadcast, FreePool, listVars, Steps, Inside, Pointers
<1> QED  BY <1>1, <1>2, <1>3, <1>4, <1>5, <1>6 DEF Next, Worker, Adder

LEMMA AtHandStep ==
    ASSUME IInv, Next
    PROVE  AtHand'
<1> USE DEF Threads, IInv
<1>1. ASSUME NEW w \in Workers, Lock(w) \/ Sleep(w) \/ Run(w) \/ WakeSpuriously(w)
      PROVE  AtHand'
  BY <1>1 DEF TypeOK, AtHand, Lock, Sleep, Run, WakeSpuriously, Goto, listVars, Range
<1>2. ASSUME NEW w \in Workers, Test(w)
      PROVE  AtHand'
  BY <1>2 DEF TypeOK, AtHand, Test, Goto, listVars, Range
<1>3. ASSUME NEW w \in Workers, destroyer # "done", Take(w)
      PROVE  AtHand'
  <2>1. \A t \in Threads : t # w => pc[t] \notin Inside
    BY <1>3, Alone DEF Take, Inside
  <2> QED  BY <1>3, <2>1 DEF TypeOK, AtHand, Take, Goto, Inside
<1>4. ASSUME NEW a \in Adders, AddTask(a)
      PROVE  AtHand'
  <2>1. \A t \in Threads : pc[t] \notin Inside
    BY <1>4 DEF TypeOK, AddTask
  <2>2. mine'[a] \in Tasks \ Range(order) /\ next'[mine'[a]] = None /\ order' = order
    BY <1>4, AddExact DEF AddTask
  <2> QED  BY <1>4, <2>1, <2>2 DEF TypeOK, AtHand, AddTask, Goto, Inside, Range
<1>5. ASSUME NEW a \in Adders, AppendTask(a)
      PROVE  AtHand'
  <2>1. \A t \in Threads : t # a => pc[t] \notin Inside
    BY <1>5, Alone DEF AppendTask, Inside
  <2> QED  BY <1>5, <2>1 DEF TypeOK, AtHand, AppendTask, Goto, Inside
<1>6. ASSUME NEW a \in Adders, Signal(a)
      PROVE  AtHand'
  BY <1>6 DEF TypeOK, AtHand, Signal, Goto, listVars, Range
<1>7. ASSUME Destroy
      PROVE  AtHand'
  BY <1>7 DEF AtHand, Destroy, SetShutdown, Broadcast, FreePool, listVars, Range
<1> QED  BY <1>1, <1>2, <1>3, <1>4, <1>5, <1>6, <1>7 DEF Next, Worker, Adder
-----------------------------------------------------------------------------
LEMMA PoolInit == Init => IInv
<1> SUFFICES ASSUME Init
             PROVE  IInv
  OBVIOUS
<1>1. order = <<>> /\ started = <<>> /\ Len(order) = 0 /\ Len(started) = 0
  BY DEF Init
<1>2. order \in Seq(Tasks) /\ started \in Seq(Tasks)
  BY <1>1
<1>3. TypeOK
  BY <1>2 DEF Init, TypeOK, Steps, Inside, Pointers
<1>4. QueueExact
  BY <1>1 DEF Init, QueueExact, Queued
<1>5. AtHand
  BY DEF Init, AtHand
<1> QED  BY <1>3, <1>4, <1>5 DEF IInv

LEMMA PoolStep == IInv /\ [Next]_vars => IInv'
<1> SUFFICES ASSUME IInv, [Next]_vars
             PROVE  IInv'
  OBVIOUS
<1>1. CASE Next
  <2>1. QueueExact'
    <3>1. CASE Others
      BY <3>1, OthersExact DEF IInv
    <3>2. ASSUME NEW w \in Workers, destroyer # "done", Take(w)
          PROVE  QueueExact'
      BY <3>2, TakeExact DEF IInv
    <3>3. ASSUME NEW a \in Adders, AddTask(a)
          PROVE  QueueExact'
      BY <3>3, AddExact DEF IInv
    <3>4. ASSUME NEW a \in Adders, destroyer = "idle", AppendTask(a)
          PROVE  QueueExact'
      BY <3>4, AppendExact DEF IInv
    <3> QED  BY <1>1, <3>1, <3>2, <3>3, <3>4 DEF Next, Worker, Adder, Others
  <2> QED  BY <1>1, <2>1, TypeStep, AtHandStep DEF IInv
<1>2. CASE UNCHANGED vars
  BY <1>2 DEF IInv, TypeOK, QueueExact, AtHand, vars, listVars, Steps, Queued, Range
<1> QED  BY <1>1, <1>2

(* In every state the fields of every thread are of their types, and the mutex
   belongs to the one thread between lock and unlock. *)
THEOREM PoolTypeCorrect == Spec => []TypeOK
<1>1. IInv => TypeOK
  BY DEF IInv
<1> QED  BY PoolInit, PoolStep, <1>1, PTL DEF Spec

(* The list of the pool is exactly the tasks added and not taken, in order,
   for any number of workers, adders and tasks. *)
THEOREM PoolCorrect == Spec => []QueueExact
<1>1. IInv => QueueExact
  BY DEF IInv
<1> QED  BY PoolInit, PoolStep, <1>1, PTL DEF Spec
=============================================================================
