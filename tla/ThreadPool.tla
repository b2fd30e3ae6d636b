----------------------------- MODULE ThreadPool -----------------------------
(***************************************************************************)
(* The thread pool, threadpool/threadpool.c: workers wait on a condition   *)
(* variable for tasks, which are kept in a linked list with a tail         *)
(* pointer, first in first out.                                            *)
(*                                                                         *)
(* thread_pool_destroy() takes no mutex: it sets shutdown, broadcasts,     *)
(* sleeps for a second and frees the pool.  A sleep orders nothing, so a   *)
(* worker may be anywhere when the pool is freed; what it does with the    *)
(* pool from then on is not defined, and it has no more steps here.        *)
(***************************************************************************)
EXTENDS Integers, Sequences, FiniteSets

CONSTANTS
    Workers,  \* the threads of the pool
    Adders,   \* the threads that call thread_pool_add_tsk()
    Tasks,    \* the task_runners they add
    None      \* a NULL pointer, or no thread

ASSUME PoolAssumption ==
    /\ None \notin Workers \union Adders \union Tasks
    /\ Workers \intersect Adders = {}

VARIABLES
    mutex,               \* the thread that holds it, or None
    tsk_head, tsk_tail,  \* the list
    next,                \* the next pointer of each task_runner
    shutdown,
    pc,                  \* of workers and adders
    mine,                \* tskr of each worker and adder
    waiting,             \* the workers in pthread_cond_wait()
    destroyer,           \* progress of thread_pool_destroy()
    order,               \* history: the tasks in the order they were added
    started              \* history: the tasks in the order they were taken

listVars == <<tsk_head, tsk_tail, next>>
vars == <<mutex, listVars, shutdown, pc, mine, waiting, destroyer, order, started>>

Pointers == Tasks \union {None}
Range(s) == {s[i] : i \in DOMAIN s}

(* A worker or an adder is at one of its own steps; the one between lock and
   unlock has the mutex. *)
Steps(t) ==
    IF t \in Workers THEN {"lock", "test", "sleep", "take", "run", "gone"}
    ELSE {"idle", "append", "signal"}

Inside == {"test", "sleep", "take", "append"}

TypeOK ==
    /\ \A t \in Workers \union Adders : pc[t] \in Steps(t) /\ (pc[t] \in Inside <=> mutex = t)
    /\ mutex \in Workers \union Adders \union {None}
    /\ tsk_head \in Pointers /\ tsk_tail \in Pointers
    /\ next \in [Tasks -> Pointers]
    /\ shutdown \in BOOLEAN
    /\ DOMAIN pc = Workers \union Adders
    /\ mine \in [Workers \union Adders -> Pointers]
    /\ waiting \subseteq Workers
    /\ destroyer \in {"idle", "broadcast", "free", "done"}
    /\ order \in Seq(Tasks) /\ started \in Seq(Tasks)

(* thread_pool_init(), all of whose calls succeed. *)
Init ==
    /\ mutex = None
    /\ tsk_head = None /\ tsk_tail = None
    /\ next = [t \in Tasks |-> None]
    /\ shutdown = FALSE
    /\ pc = [t \in Workers \union Adders |-> IF t \in Workers THEN "lock" ELSE "idle"]
    /\ mine = [t \in Workers \union Adders |-> None]
    /\ waiting = {}
    /\ destroyer = "idle"
    /\ order = <<>> /\ started = <<>>
-----------------------------------------------------------------------------
Goto(t, step) == pc' = [pc EXCEPT ![t] = step]

Acquire(t) == mutex = None /\ mutex' = t
Keep(t) == mutex' = t
Release(t) == mutex' = None

(* thread_run(): the mutex, also after a wake-up, ... *)
Lock(w) ==
    /\ pc[w] = "lock" /\ w \notin waiting
    /\ Acquire(w)
    /\ Goto(w, "test")
    /\ UNCHANGED <<listVars, shutdown, mine, waiting, destroyer, order, started>>

(* ... the conditions, with shutdown read while it may change, ... *)
Test(w) ==
    /\ pc[w] = "test"
    /\ \/ tsk_head = None /\ ~shutdown /\ Goto(w, "sleep") /\ UNCHANGED mutex
       \/ shutdown /\ Goto(w, "gone") /\ Release(w)
       \/ tsk_head # None /\ ~shutdown /\ Goto(w, "take") /\ UNCHANGED mutex
    /\ UNCHANGED <<listVars, shutdown, mine, waiting, destroyer, order, started>>

(* ... pthread_cond_wait(), which gives the mutex back, ... *)
Sleep(w) ==
    /\ pc[w] = "sleep"
    /\ waiting' = waiting \union {w}
    /\ Release(w)
    /\ Goto(w, "lock")
    /\ UNCHANGED <<listVars, shutdown, mine, destroyer, order, started>>

(* ... or the task at the head of the list, ... *)
TailKept(h) == tsk_tail
TailAfter(h) == IF h = None THEN None ELSE tsk_tail

Take(w) ==
    /\ pc[w] = "take"
    /\ mine' = [mine EXCEPT ![w] = tsk_head]
    /\ tsk_head' = next[tsk_head]
    /\ tsk_tail' = TailAfter(next[tsk_head])
    /\ started' = Append(started, tsk_head)
    /\ Release(w)
    /\ Goto(w, "run")
    /\ UNCHANGED <<next, shutdown, waiting, destroyer, order>>

(* ... which the worker runs and frees. *)
Run(w) ==
    /\ pc[w] = "run"
    /\ mine' = [mine EXCEPT ![w] = None]
    /\ Goto(w, "lock")
    /\ UNCHANGED <<mutex, listVars, shutdown, waiting, destroyer, order, started>>

(* pthread_cond_wait() may return without a signal. *)
WakeSpuriously(w) ==
    /\ waiting' = waiting \ {w} /\ w \in waiting
    /\ UNCHANGED <<mutex, listVars, shutdown, pc, mine, destroyer, order, started>>
-----------------------------------------------------------------------------
(* thread_pool_add_tsk(): a new task_runner, the mutex, ... *)
AddTask(a) ==
    /\ pc[a] = "idle" /\ mutex = None
    /\ \E t \in Tasks :
          /\ t \notin Range(order) /\ \A b \in Adders : mine[b] # t
          /\ mine' = [mine EXCEPT ![a] = t]
          /\ next' = [next EXCEPT ![t] = None]
    /\ Acquire(a)
    /\ Goto(a, "append")
    /\ UNCHANGED <<tsk_head, tsk_tail, shutdown, waiting, destroyer, order, started>>

(* ... the list, the end of the critical section, ... *)
LinkTail(t) == next' = IF tsk_head = None THEN next ELSE [next EXCEPT ![tsk_tail] = t]

AppendTask(a) ==
    /\ pc[a] = "append"
    /\ LinkTail(mine[a])
    /\ tsk_head' = IF tsk_head = None THEN mine[a] ELSE tsk_head
    /\ tsk_tail' = mine[a]
    /\ order' = Append(order, mine[a])
    /\ mine' = [mine EXCEPT ![a] = None]
    /\ Release(a)
    /\ Goto(a, "signal")
    /\ UNCHANGED <<shutdown, waiting, destroyer, started>>

(* ... and the signal, which wakes one of the workers that wait by then. *)
SignalForgotten(a) ==
    /\ pc[a] = "signal" /\ Goto(a, "idle")
    /\ UNCHANGED <<mutex, listVars, shutdown, mine, waiting, destroyer, order, started>>

Signal(a) ==
    /\ pc[a] = "signal"
    /\ \/ waiting = {} /\ UNCHANGED waiting
       \/ \E w \in waiting : waiting' = waiting \ {w}
    /\ Goto(a, "idle")
    /\ UNCHANGED <<mutex, listVars, shutdown, mine, destroyer, order, started>>
-----------------------------------------------------------------------------
(* thread_pool_destroy(), called by main() when it has added its tasks. *)
SetShutdown ==
    /\ destroyer = "idle" /\ \A a \in Adders : pc[a] = "idle"
    /\ shutdown' = TRUE
    /\ destroyer' = "broadcast"
    /\ UNCHANGED <<mutex, listVars, pc, mine, waiting, order, started>>

Broadcast ==
    /\ destroyer = "broadcast"
    /\ waiting' = {}
    /\ destroyer' = "free"
    /\ UNCHANGED <<mutex, listVars, shutdown, pc, mine, order, started>>

(* After the sleep: the threads array, the tasks left and the pool itself. *)
FreePool ==
    /\ destroyer = "free"
    /\ tsk_head' = None
    /\ destroyer' = "done"
    /\ UNCHANGED <<mutex, tsk_tail, next, shutdown, pc, mine, waiting, order, started>>

Destroy == SetShutdown \/ Broadcast \/ FreePool
Worker(w) == Lock(w) \/ Test(w) \/ Sleep(w) \/ Take(w) \/ Run(w)
Adder(a) == AddTask(a) \/ AppendTask(a) \/ Signal(a)

Next ==
    \/ /\ destroyer # "done"
       /\ \E w \in Workers : Worker(w) \/ WakeSpuriously(w)
    \/ /\ destroyer = "idle"
       /\ \E a \in Adders : Adder(a)
    \/ Destroy

Spec == Init /\ [][Next]_vars

(* A thread that can go on does; main() may or may not call
   thread_pool_destroy(), and need not add a task. *)
FairSpec ==
    /\ Spec
    /\ \A w \in Workers : WF_vars(destroyer # "done" /\ Worker(w))
    /\ \A a \in Adders : WF_vars(destroyer = "idle" /\ (AppendTask(a) \/ Signal(a)))
-----------------------------------------------------------------------------
(* The list holds exactly the tasks added and not taken, in the order they
   were added, and tasks are taken in that order: none is lost, run twice or
   overtaken, and tsk_tail is where the next one belongs. *)
Queued(i) == i \in Len(started) + 1 .. Len(order)

QueueExact ==
    destroyer # "done" =>
        /\ Len(started) <= Len(order)
        /\ \A i \in 1..Len(started) : started[i] = order[i]
        /\ \A i, j \in 1..Len(order) : order[i] = order[j] => i = j
        /\ tsk_head = IF Len(started) < Len(order) THEN order[Len(started) + 1] ELSE None
        /\ tsk_tail = IF Len(started) < Len(order) THEN order[Len(order)] ELSE None
        /\ \A i \in 1..Len(order) : Queued(i) =>
              next[order[i]] = IF i < Len(order) THEN order[i + 1] ELSE None

(* The rest of the inductive invariant: a task about to be appended is new and
   ends the list, and a worker about to take a task finds one. *)
AtHand ==
    /\ \A a \in Adders : pc[a] = "append" =>
          mine[a] \in Tasks \ Range(order) /\ next[mine[a]] = None
    /\ destroyer # "done" => \A w \in Workers : pc[w] = "take" => tsk_head # None

IInv == TypeOK /\ QueueExact /\ AtHand

(* No wake-up is lost: a task that is added is started, unless the pool is
   shut down first. *)
TasksStart ==
    \A t \in Tasks : (t \in Range(order)) ~> (t \in Range(started) \/ shutdown)

(* The comment in thread_pool_destroy(): "sleep for a while, wake all the
   threads and let them exit".  None is asleep when the pool is freed. *)
NoneLeftAsleep == destroyer = "done" => waiting = {}
=============================================================================
