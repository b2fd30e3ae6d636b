# Specifications of somerubbish

somerubbish is a collection of C programs from the making of a cache file
system: a lock server for file metadata, a write-back cache in front of a data
centre, a thread pool, an allocator, a namespace server, two programs that
bring a file up to date over a socket, and a good number of exercises.  This
directory holds TLA+ specifications of its core logic, the TLC configurations
that check them on small instances, and proofs, checked by TLAPS, that the most
important properties hold for every value of the constants.

    tlc -workers 2 -config mutex_table.cfg MCMdMutexTable.tla
    tlapm MdMutexTableProofs.tla

`PROJECT.json` lists the components, the runs, for every definition the lines
of code it models, for every property a change of the code that breaks it, the
disagreements found between code and comments, and the hazards.


## 1. The system and its parts

### Metadata mutex (`md_distribute_mutex/`)

*State.* The server keeps a table of mutexes, each with a file name, a pthread
mutex and `count`, "how many threads are using this mutex"; all but the pthread
mutexes is guarded by `glob_mutex`.  There are two servers: one with a fixed
array of `MUTEX_NUM` entries (`md_mutex_server_process.c`), one with hash chains
of allocated entries (`new_md_mutex_server.c`, `hash.c`).

*Operations.* `MD_LOCK`, `MD_TRY_LOCK` and `MD_UNLOCK`, one per connection.
Clients are `lock_file`, `try_lock_file` and `unlock_file`, and `modify_md`,
which locks, sleeps and unlocks whatever the lock answered.

*Interaction.* A client connects over TCP and writes one packet; the
accept loop reads it and starts a detached thread, which finds or makes the
entry, uses its mutex, and answers.

*Hard.* The mutex a thread waits for is named by a pointer that it has from an
earlier critical section; a lock is taken by one thread and released by
another; entries are reused for other files; clients die between any two steps,
and one that dies before it writes asks for the lock of the name "", because the
end of file is not tested (`md_mutex_server_process.c:289`); the hash server
reads the head of a chain before it takes `glob_mutex`.

*Correct if:* two clients are never told at once that they hold one file, the
counts are exact, there is one entry per name, the server never runs into its
own `exit()`, and requests that need not wait are answered.

### Write-back cache (`4xm/`)

*State.* Three Tokyo Tyrant databases: metadata of each file (`md`: dirty flag,
first and last io_node), the chain of io_nodes (`ion`), and the data of each
(`iod`); in memory of the super server, `file_node_list`, the files to be
flushed, with `file_node_list_head` and `update`, which points to its other end.

*Operations.* Clients (`posix_api.c`, `md_func.c`): create, write, read, remove.
Super server (`super_serv_process.c`): `que_out_serv` records a request at the
end of the chain of its file and puts the file at the head of the list;
`flush2data_center` takes the file at the other end, writes its chain to the
data centre, clears it and removes the node.

*Interaction.* A client writes its data to `iod`, then sends a request; the two
threads of the server share the databases under `md_mutex` and the list under
`file_node_list_mutex`, but `rm_fn_from_list()` does not take the latter, and
clients create and remove metadata under neither.

*Hard.* Three databases change one after the other with nothing that makes it
atomic; the server may die between any two of the calls; a call may fail; the
list is lost at a restart; requests for the file that is first, last or in the
middle; data that is looked up when it is gone, which gives zeros; names that are
looked up by prefix (`strncmp`) and copied without their terminator, so that a node
may have the name of another file.

*Correct if:* what was recorded stays on the chain in order until it is in the
data centre, neither older data nor zeros overwrite what is there, and dirty files
are on the list.

### Thread pool (`threadpool/`)

*State.* A list of tasks (`tsk_head`, `tsk_tail`), a mutex, a condition variable
and `shutdown`.  *Operations:* adding a task, the loop of a worker, destroying
the pool.  *Hard:* lost and spurious wake-ups, the tail pointer when the list
becomes empty, and a shutdown that takes no mutex and joins nobody.
*Correct if:* the list is what was added and not taken, in order, every task
starts, once, and no worker stays behind in a pool that is freed.

### First-fit allocator (`memallocator/`)

*State.* The headers of blocks, a ring of the free ones, `freep`.  *Operations:*
`zz_malloc`, `morecore`, `zz_free`.  *Hard:* sizes that do not count the header,
the search that starts anywhere in the ring, exact fits, heaps with gaps.
*Correct if:* blocks are disjoint, the ring is exactly the free blocks, no
memory is lost, and calls return.

### Namespace server (`nss.c`, `nss.h`, `namespace_server.c`)

*State.* A tree of `ns_node`s in memory, each directory with an array of
children; the current directory, the home and the shared directory, the current
user; a file with a line for each user; and a red-black tree meant for users.
*Operations:* path look-up (`get_ns_node()`), `mkfile`, `rmfile`, `cd`, `ls`,
`adduser`, `user_login`, `init_ns()` at every start; the tree's search,
insertion, deletion, successor and predecessor.
*Interaction.* `adduser` and `init_ns` go through `mkfile` and the look-up like
any caller; users are looked up by `grep` in their file, homes in the tree.
*Hard:* the fixups of the tree; a binary search with an unsigned result
(`nss.c:18`) that also says where a new file goes; nodes freed while the current
directory or the home points to them (`nss.c:258`); allocations that fail in the
middle of `mkfile` (`nss.c:214`); a restart, which the file of the users survives
and their homes do not.  *Correct if:* the tree is a red-black search tree of its
keys; a path names at most one node, which is found until it is removed; no
pointer to a freed node is followed; a user who was added can log in.

The commit is in the middle of a change: `nss.c` uses `file_type` and `acl`,
which the `ns_node` of `nss.h` no longer has, so it does not compile as it
stands, and the macros that test a type (`IS_DIR_FILE`, `SHARED_FLAG`, ...) are
defined nowhere.  The functions of the red-black tree use nothing of that;
`NameSpace` models the others as they are written, with the types for what
their names say.

### Block synchronisation (`data_sync/`)

*State.* A file at each end; `c_sync` has two threads with one descriptor.
*Operations.* The client asks for a file; the server sends its length and block
number; the client cuts its file and sends the MD5 of every block, the server
answers each with "same" or the bytes.  *Hard:* both threads move the one file
offset; both ends write while both sockets may be full; files of different
lengths; an `open()` that fails without an answer.  *Correct if:* the client ends
with the server's file, and ends.

### Rolling-checksum synchronisation (`rsync/`)

*State.* At `dst`, its file and `file.rep`, the replica it builds; at `src`, the
array of entries received and the hash chains through it, a buffer of the file
(`buf_file_off`, `buf_bytes`), and the list of delta blocks.  *Operations.* `dst`
sends a header and, for each block, a rolling checksum and an MD5; `src` links
the entries, looks for the blocks in its file a byte at a time, and sends
what it did not find; `dst` writes that to `file.rep`.  *Interaction.* One
connection, one session.  *Hard:* chains linked by hand in the order of the
checksums; sums that wrap in 32 bits; offsets that wrap at 2^64; a protocol in
which each end counts the other's messages; `dst` that dies.  *Correct if:*
every entry is found in its chain, the sum derived is the sum computed, `dst`
ends with the file of `src` or with its own untouched, and both end.

### The rest

The super node (`sn_main.c`, `sn_cli.c`, `xml_msg.c` and others) forks a process
for each XML message.  `tt_func.c`, `tokyotyrant/`, `utility.c`, `posix_func.c`,
`errmsg.c` wrap database and system calls.  `graph/`, `algorithm/`,
`dynamic_programming/` and `externc/` are exercises; `bash/`, `data_trans/` and
`ceph4_bkup/` scripts.  Section 7 says why these are left out.


## 2. The modules

| Module | What it is |
|---|---|
| `MdMutexClient` | the client programs, their connection, the accept loop, which both servers share |
| `MdLockService` | abstract: what the lock server promises |
| `MdMutexTable` | the server with the fixed table; EXTENDS `MdMutexClient`; implements `MdLockService` |
| `MdMutexTableProofs` | its invariants, and that it implements `MdLockService`, proved |
| `MdMutexHash`, `MdMutexHashProofs` | the server with hash chains; EXTENDS `MdMutexClient`; and its theorems |
| `CacheClient` | the databases and what client calls do to them |
| `WriteBack`, `WriteBackProofs` | the super server, both threads; EXTENDS `CacheClient`; and its theorems |
| `ThreadPool`, `ThreadPoolProofs` | the pool, and its theorems |
| `FirstFit`, `FirstFitProofs` | the allocator, and its theorems |
| `RedBlackTree`, `RedBlackTreeProofs` | the red-black tree of the namespace server, and its theorems |
| `NameSpace`, `NameSpaceProofs` | its directories and users, and their theorems |
| `DataSync` | `c_sync`, `s_sync` and the connection |
| `RollingSync` | `src`, `dst` and the connection |
| `SyncProofs` | the theorems of both synchronisations, whose definitions have different names for that (`SyncInit`, `SyncNext`, ... in `DataSync`) |
| `MC...` | constants, and symmetry where it is sound, for TLC |

An action is what happens between two points where another thread, process or
message can make a difference.

**Metadata mutex.**  A client is in one of the steps of a connection (`pc`), with
its request and the answer; `sess` follows `modify_md` and the pair lock /
unlock.  Each critical section of `glob_mutex` is one action: `Get` is
`get_z_mutex()`, `Put` is `put_z_mutex()`; the pthread mutex of an entry is
another (`Lock`, `TryLock`, `Unlock`).  It is a default mutex, which glibc lets
any thread unlock without an error; the server relies on that, and so does the
model.  In `MdMutexHash`, `ReadHead` is the read of `mutex_hash[hash]` before
`glob_mutex` is taken and `Scan` the walk from there; an access to a freed entry
has no defined outcome, and `UndefinedBehaviour` ends the run there.

**Write-back cache.**  `md`, `ion` and `iod` are functions from the keys that
exist; `dtc` is what has reached the data centre.  `qs` and `fl` are the two
threads, with a step for each database call (`PutTail`, `PutIon`, `PutMd`;
`Open`, `WriteIod`, `OutIod`, `OutIon`, `ClearMd`) and each critical section of the
list (`GetFn`, `AddToHead`; `Pick`, `Unlink`, `Free`).  A `file_node` has an address
out of `Nodes`, so that a freed one can be met again, and a name out of `FileNames`:
the name of its file or, since it is copied without its terminator into memory that
is not cleared (`super_serv_process.c:57`), any name which that begins, of another
file or of none (`NewNodes`).  `CallFails` is a database call of a flush that
fails because `print_ion()` has the database open, `Restart` the death of the process
and a new one.

`tc_get()` tests its own argument and not what the database returned
(`md_func.c:38`).  For metadata and io_nodes that are not there it copies from a NULL
pointer: the process dies, `state = "fault"`.  For data that is not there it copies
nothing, because `get_db()` gives the length 0 (`md_func.c:14`), and succeeds: the
flush writes the zeros of its buffer to the data centre (`Zeros`), finds nothing
to delete (`OutIod`) and gives the file up, and `print_ion()` goes on.

**Thread pool.**  `Lock`, `Test`, `Sleep`, `Take`, `Run` are the loop of a worker;
`AddTask`, `AppendTask` and `Signal` the three parts of adding; `SetShutdown`,
`Broadcast` and `FreePool` those of `thread_pool_destroy()`.  The list is the
pointers `tsk_head`, `tsk_tail` and `next`, as in the code.

**First-fit allocator.**  Addresses and sizes count units of `HEADER_SZ` bytes.
An iteration of the loop of `zz_malloc()` or `zz_free()` is an action, so that
a loop that never ends is a behaviour; `MoreCore` is `morecore()` up to its call
of `zz_free()`.  The allocator is sequential: one call at a time.

**Red-black tree.**  `rbt` holds the fields of the nodes and the root, the sentinel
included, whose parent `rb_delete()` sets.  Every turn of a fixup loop is an
action.  The code writes each case twice, mirrored; the model has one operator
with the side as a parameter, and "map" names both halves.

**Block synchronisation.**  `main`, `thread` and `server` are the three threads of
control; `offset` is that of the descriptor which `main` and `thread` share, with
`lseek()` and `read()` or `write()` as steps of their own.  The two sockets hold
`Buffer` messages each.

**Namespace.**  `tree` holds the fields of the nodes and which of them are
allocated (`live`).  A call is one action: the program is sequential.
`get_ns_node` applies `Turn`, one turn of the loop in the code, to the components of
the path one after the other, and returns what the code returns: the node, the
index and one of five results.  `AfterMkfile` and `AfterRmfile` are the tree a call
leaves, so that `adduser` can make its two directories with the same operators.
`calloc()` returns any node of `Fresh`, or fails; `realloc()` may fail.  A pointer to
no node that is followed ends the run with its kind in `fault`; `Restart` is
`init_ns()` anew, with the file of the users as it was.

**Rolling-checksum synchronisation.**  `dstAt` and `srcAt` say where the programs
are; a message read or written whole is an action.  `chain` is `head`, `next` and `pre`
as indices into `entries`; `Walk`, `LinkHead`, `LinkBefore` and `LinkBehind` are
the insertion.  `SrcFill` is a turn of `fill_buf()` with the offset that wraps.  A
`Read()` of more than a file has is a step that is never enabled.  `garbled` is the
header whose file name has no terminator (`dst.c:51`), `DstDies` the death of `dst`,
`DstFails` its own exits: a connection that is refused, an `unlink()`, `ftruncate()`
or `open()` of `file.rep` that fails.

Histories (`recorded`, `hurt`, `stray`, `calm`, `order`, `started`, `blocks`, `used`,
`emptied`, `keys`, `turns`, `torn`, `newest`, `crowded`, `added`, `cut`, `was`,
`garbled`, `dead`, `failed`) are what properties need to speak of
the past, and are marked so where they are declared.  What the code does never
depends on one; what is asked of it may: `Malloc` stops once `emptied` (below), a
caller frees a block it has (`used`), an added task is one not added before, and
a write to a connection fails only when the other end is `dead`.


## 3. The runs

Twelve runs, one per question.  "Bounds" says why the instance is enough for its
question: which of the interesting cases happen in it.

| Run | Question | Bounds |
|---|---|---|
| `mutex_table` | Is the table server correct when it is full and clients die? `MutualExclusion`, `CountIsUse`, `OneEntryPerFile` | 3 clients: a holder, one waiting, one that frees or takes the entry between; 2 files, the name "", 2 entries: the table is full. No `modify_md` (see NoOverflow) |
| `mutex_modify` | Does it implement the lock service and answer? `ImplementsService`, `NonBlockingAnswered`, `LockReleased` | 3 clients, 2 of them `modify_md`, the third may keep its lock for ever; 1 file and "", 2 entries; fair; no symmetry |
| `mutex_hash` | Is the hash server sound? `ChainsWellFormed`, `CorrectUnlessStale` | 3 clients, one chain of up to 3 entries: first, middle and last are unlinked |
| `write_back` | Is anything lost, reordered or forgotten? `NothingLost`, `DirtyIsQueued`, `InOrder` | 2 files, one name a prefix of the other and both of a name of no file, so that a node is found under another name, misread as the other file and as none; 3 calls, 3 nodes, 1 waiting request, 1 restart, removal or creation; failing calls without bound; 1.78 million states, about 130 s |
| `write_back_update` | violation of `UpdateIsNode` | 1 file, 2 calls |
| `thread_pool` | `QueueExact`, `TasksStart` | 2 workers, 2 adders, 3 tasks: the list becomes empty and grows again, signals meet nobody |
| `thread_pool_destroy` | violation of `NoneLeftAsleep` | 1 worker |
| `first_fit` | `Disjoint`, `RingExact`, `GrowsWhenNothingFits`, `NothingLeaks`, `CallsReturn` | requests of 0, 1 and 2 units, a heap of 6 units, 0 or 1 unit of gap, `MINALLOC` 2: exact fits, cuts, several `morecore()`, no memory; 0.9 million states, about 75 s |
| `red_black` | `SearchTree`, `RedBlack`, `NeighboursFound`, `FixupsEnd` | 6 keys and nodes: every tree of up to 6 keys that insertions and deletions reach, in which every case of both fixups occurs |
| `data_sync` | `SyncedUnlessTorn`, `SyncEnds` | blocks of 2 bytes, files up to 5: whole and short last blocks, shorter and longer files, files that differ in any block; 1 message per socket, the fullest they can be |
| `name_space` | Does the namespace find what was made, and follow no bad pointer? `PointersExact`, `FilesFound`, `AddedCanLogIn` | 5 nodes, 2 of them in use from the start; 2 starts, 3 calls that change the tree in each; 2 users, the name of one in the line of the other; 10 paths, absolute and relative, with "..", with a trailing slash, below a user's home: directories of 3 and more files, removals in the middle of an array, removal of the current directory, allocations that fail, users who outlive their homes |
| `rolling_sync` | Does `dst` get its replica, and do both end? `ChainsExact`, `RollingExact`, `Replica`, `Ends` | blocks of 2 bytes, sums modulo 4 (of 2^4 in a `u32`), 2 chains, reads of 3, room for 4, offsets modulo 32; every file of `dst` up to 5 bytes over three values (3 blocks: all insertions into a chain, same entries, a padded last block), files of `src` of 0 to 5 bytes or none, `file.rep` absent, short or long; a `dst` that is killed or whose calls fail; 0.25 million states |

**What the passing runs show.**  Within the bounds:

* *Table server.*  No two clients are told at once that they hold one file, the
  counts are exact at every step, and no name has two entries, with a full
  table and with clients that die anywhere.  With room for every name, so that no
  `modify_md` unlocks what it was refused, the server implements `MdLockService`:
  a lock is given only when free, reported only while held, taken only from
  a holder that asked.  try_lock and unlock are answered however many lock
  requests wait.  `LockReleased`: a lock that `modify_md` has, and one for which an
  unlock has been sent, is given back; one of `lock_file` may stay for ever, since
  nobody has to run `unlock_file`.
* *Hash server.*  The chains stay whole (`pre` and `next` agree, nothing freed is
  linked) under every interleaving; exclusion, counts and uniqueness hold until a
  walk starts from a head that is no longer the head.  `CorrectUnlessStale` puts the
  whole fault at that one line.
* *Write-back.*  `NothingLost`: a recorded key is in the data centre or on the chain
  of its file, in order, unless that file was removed, created again, or cut short
  in the middle of a flush or a recording by a restart or a failing call
  (`hurt`, one file at a time).  `InOrder`: the data centre never goes back to an
  older write, and zeros get only into a file that is hurt.  `DirtyIsQueued`: every
  dirty file is on the list or about to be put there, through restarts, repeated
  requests for the head and flushes that fail.  What it leaves out is named: a file
  whose last request was listed under another name, which the flush gave up, or which
  was dirty at a restart (`stray`, until it is listed again under its name); and all
  files after one of two events (`calm`): a node was added while
  `rm_fn_from_list()` removed the head, or one was freed that was its own `prev`.
* *Thread pool.*  The linked list is exactly the tasks added and not taken; every task
  added before the shutdown starts.
* *Allocator.*  Blocks are disjoint, the ring is the free blocks in order, no unit is
  lost, the heap grows only when nothing fits, and calls return until the only
  block of a ring is given away (below).
* *Red-black tree.*  After any sequence of calls it is a red-black search tree of its
  keys, and a search tree at every turn of a fixup too; fixups end within the
  height.
* *Namespace.*  The arrays of children are exact unless a `realloc()` failed or the
  current or home directory was removed, and pointers to no node are followed
  only then, or because `home_dir` or `shared_dir` is not set.  `FilesFound` says how far the
  one-sided search still works: directories that never had more than two files,
  and the file made last in any, which is what `adduser()` relies on.
* *Block synchronisation.*  From every pair of files `c_sync` ends with the server's
  file, unless the two threads have met at the offset.
* *Rolling synchronisation.*  The chains and the checksums are right; a `dst` that ends
  by itself has the replica, or its file deleted or emptied as that of `src` is, or
  untouched; one whose call failed has left both its files as they were.  But `Ends` needs `ClosedEarly`: every session
  between two files that are not empty ends without a delta.

**What the violation runs show** is a disagreement between the code and what one
of its own comments says; each is a finding with the quoted line.

1. `write_back_update`: a request for the file at the head makes its node its own
   `prev`; the flush then frees the node `update` goes on pointing to
   (`super_serv_process.c:104`).
2. `thread_pool_destroy`: a worker between its test of `shutdown` and its wait
   misses the broadcast and sleeps in freed memory (`threadpool.c:152`).

Defects met that have no run of their own (nothing in the repository states the
contrary in words), and how the modules treat them:

* *Hash server.*  The head of a chain is read before `glob_mutex` is taken
  (`new_md_mutex_server.c:74`): two requests for one name read the same empty
  head, each makes an entry, and both clients have the lock.
  `CorrectUnlessStale` names it as the only cause.
* *c_sync.*  `main()` moves the offset between `lseek()` and `write()` of the thread,
  and the block goes elsewhere (`c_sync.c:49`).  `torn` records it;
  `SyncedUnlessTorn` names it as the only cause.
* *Namespace.*  The search of a directory goes right only (`nss.c:18`); `rmfile` frees
  the current or home directory or one above, and never what is below what it frees
  (`nss.c:258`); the count of a directory is raised in the argument of a `realloc()`
  that may fail (`nss.c:214`); `shared_dir` is never assigned, so a path through a
  directory with a flag ends at a null pointer; after a restart the users in the
  file have no home and cannot be added again (`nss.c:894`).  The properties name
  each: `crowded`, `cut`, `torn`, `home = NULL`, `added`.
* *rsync.*  `fill_buf(offset - 1)` at offset 0 asks for offset 2^64 - 1
  (`src.c:181`); the test of what is left of a file is the wrong way round
  (`src.c:48`), so that a file of less than a block is announced as a whole
  block, which `Read()` never gets, and a longer one is sent as one block, of any
  length, into a buffer of a fixed one; the name in the header has no terminator
  (`dst.c:51`); `file.rep` is not emptied (`dst.c:140`).  In the model as they are;
  `ClosedEarly`, `Unsendable`, `garbled` and the end of `Replica` name them.
* A pool of one block that is returned by an exact fit is unlinked from itself,
  stays in the ring, and `zz_free()` of it never ends; `zz_malloc(0)` reaches this with
  `base` itself (`first_fit_memalloc.c:105`).  The model has the step; `emptied`
  records it, `RingExact` and `CallsReturn` name it as their exception, and
  nothing is allocated after it.
* The tests for a neighbour forget the header (`first_fit_memalloc.c:33,45`), so
  adjacent free blocks are never joined.  The model has the tests as they are.
  `NothingLeaks` shows that repairing only the tests would lose a unit per join:
  that is the mutant of that property.
* A file the server does not have: it closes without the header that carries
  the error, and the client's `Read()`, which takes 0 for progress, never returns
  (`s_sync.c:61`).  `SyncEnds` names it as its exception.  The same `Read()` at the end of
  a file that the other thread has made shorter is a `torn` read.
* A flush of a removed file kills the super server (`md_func.c:38`): state `fault`.
* A flush that was cut short between `iod_out` and `ion_out` is repeated from the same
  key: zeros are written over the data that was flushed (`md_func.c:14`,
  `super_serv_process.c:469-484`), and the file is never clean again.  `InOrder` names
  the cause: `Zeros` only in a file that is `hurt`.
* A file node may have the name of another existing file (`super_serv_process.c:57`):
  the flush writes that one and forgets the first.  `stray` names it.


## 4. Assumptions, bounds and fairness

* *Fairness* is weak throughout, per thread: a server thread that can run does, a
  client goes on until it dies, the accept loop accepts.  pthreads and the kernel
  give that.  No lock is assumed to be handed to waiters fairly: starvation of
  one lock request by others is possible with default mutexes and not excluded.
  In `MdMutexClient` no client is obliged to start; `modify_md` goes on to its unlock,
  a holder from `lock_file` or `try_lock_file` is not obliged to ask for one, since
  both programs end with the lock held (`lock_file.c:4-23`); in `ThreadPool` no one is obliged
  to add or to destroy; in `FirstFit` only a call under way goes on; in `DataSync`
  all three threads go on and the connection is reliable, as a TCP socket of
  two live processes is; in `RollingSync` both programs go on, `dst` until it is
  killed.  `RedBlackTree` and `NameSpace` state no fairness: their calls are
  steps, and `FixupsEnd` bounds the turns instead.
* *Deadlock* is checked in `first_fit` and `red_black`.  It is not where the system may
  stop: all clients may die (mutex), all calls may be used up (cache: a bound), a
  pool without work waits, `c_sync`, `src` and `dst` end, and the namespace server
  stops at a bad pointer or at its bounds.
* *Symmetry* is used only in runs without liveness, over clients and nodes or
  addresses, which no definition orders (`name_space`: over the nodes).  Files of `write_back` are not symmetric
  (`IsPrefix`).
* *Bounds in guards:* `MaxCalls`, `MaxBacklog`, `MaxTroubles` (`WriteBack`: client calls;
  requests waiting in the socket; restarts, removals and creations), `MaxTop`
  (`FirstFit`: the highest break, where `sbrk()` fails, as it may in any state),
  `Buffer` (`DataSync`), `MaxStarts` and `MaxChanges` (`NameSpace`: starts of the program,
  changes of the tree since the last).
* *NoOverflow.*  `modify_md` unlocks after a lock that was refused, and an unlock of
  somebody else's lock releases it: with a full table and such clients the
  server is not correct and is not claimed to be.  `NoOverflow` is
  `Modifiers = {} \/ MUTEX_NUM > Cardinality(Files)`: no modify_md, or room for
  every name and "".
* *Keys* of io_nodes are unique: the programs that write do one write per process;
  two in one second of one process would have one key (`posix_api.c:243`).
* *Undefined behaviour:* a freed entry (`MdMutexHash`), a freed or null node
  (`NameSpace`) and a write past a buffer (`RollingSync`) end the run in a state of
  their own; a file name without a terminator is read as any name which that begins
  (`WriteBack`), or is found or not (`RollingSync`).
* *Nodes and names.*  `WriteBack` names two assumptions: the addresses that `malloc()`
  can return are finitely many, and no name is the null pointer (`PoolAssumption`).
  Which names begin which is given (`IsPrefix`): any set of pairs of a file and a name.
* *Files* are sequences of numbers, and a missing or unreadable file is not one
  (`SyncFilesAssumption` of `DataSync`, `FilesAssumption` of `RollingSync`).
* *Names* of the namespace: the super user, the shared directory and ".." have three
  names, and the line of a user contains the name of that user
  (`NameSpaceAssumption`).
* *MD5* is injective: a digest is the bytes it was computed from.


## 5. Proofs

All for every value of the constants that satisfies the named assumptions.

**`MdMutexTableProofs`**
* `TypeCorrect`: `Spec => []TypeOK`.
* `TableCorrect`: if `NoOverflow`, then
  `Spec => [](MutualExclusion /\ CountIsUse /\ OneEntryPerFile /\ NeverExits)`.
  `CountsExact` and `OneEntry` state two of the four by themselves.  `NeverExits`
  (no thread finds a count below 0 and ends the server) is stated here only: it
  follows from `CountIsUse` and has no run of its own.

  None of the four is inductive alone.  `MutualExclusion` speaks of what clients
  were told; it holds because a client that was told owns the pthread mutex of an
  entry of its file (`OwnersOwn`) and there is one entry per file.  There is one
  entry per file because an entry is given a new name only when its count is 0,
  and a count of 0 means nobody uses it: `CountIsUse`.  `CountIsUse` is kept because the
  thread that decrements is one that was counted: `AtEntry` says what a thread at
  each step has.  And an unlock finds its entry because nobody unlocks what it was
  refused: `NoneRefused`, which needs `NoOverflow` (lemma `RoomForModifier`, a
  pigeonhole: a full table of distinct names has every name).
  `IInv` is their conjunction; a lemma per action shows that it is kept.
  Cardinalities are dealt with in `ClientsCount`, `UseBounds` and `CountFrame`, from the
  library's theorems on finite sets.

* `TableImplementsService`: if `NoOverflow`, then `Spec => ImplementsService`, which is
  `MdLockService`'s specification under the refinement mapping of `MdMutexTable`.

  From the same `IInv`: the holder of a name is the owner of the one entry in force for
  it (`HolderIsOwner`); `Get` and `Put` are stutters, since an entry is given a new name
  only when nobody owns its mutex (`GetServes`); `TakeServes` and `UnlockServes` are
  `Acquire` and `Release`; the answer and the next request of a client are `Tell` and
  `AskRelease` (`ClientServes`).

**`MdMutexHashProofs`**
* `HashTypeCorrect`: `Spec => []TypeOK`.
* `ChainsSurvive`: `Spec => []ChainsWellFormed`, stale walks and freed entries included.
* `SoundUnlessStale`: `Spec => []CorrectUnlessStale`.

  `ChainsWellFormed` says what a walk along `next` reaches, which is not a local fact.
  `Linked` is: a head starts the chain of its own index (`HeadsStart`), an entry
  without `pre` is a head and any other is the `next` of its `pre` (`PreLeadsBack`), a
  `next` is live, leads back and has the same index (`NextLeadsOn`).  That leaves room for
  a ring without a head, which `Depths` rules out: there is a function that counts
  the links between the head and each entry.  An insertion adds one to the count of
  every entry of its chain, a removal takes one from those behind.  In a
  linked state a walk is an iteration of "next, or None" (`StepTo`), which visits
  depth 0, 1, 2, ... and so comes to every entry of the chain (`LinkedChains`).

  `CorrectUnlessStale` follows as for the table, from `Sound`: a walk that started at the
  head in force finds the entry of its file if there is one, so that a second
  one is not made.  The invariant is `Chained /\ (~staleUse => Sound)`: the chains are
  whole in any case, the rest until a stale head is used.

**`WriteBackProofs`**
* `CacheTypeCorrect`: `Spec => []TypeOK`.
* `NothingRecordedLost`: `Spec => []NothingLost`.
* `ReplayedInOrder`: `Spec => InOrder`, the action property, for hurt files too.
* `DirtyFilesQueued`: `Spec => []DirtyIsQueued`.

  All four hold with restarts, failing calls, removals and any number of clients.
  `Typed` adds to `TypeOK` whose turn it is with `md_mutex`.  `Records` and `Waiting`
  say that a key is in one place only: with its client, in a request, in the hand of
  `que_out_serv`, or recorded once; and links lead to keys recorded later
  (`LinksForward`).  `Heads` says of every file, hurt or not, that a head from which the
  flush could still write, with io_node and data in place, is not earlier than what the
  data centre has: that gives the order.  The zeros come only from a head
  whose data is gone, and of a file that is not hurt the head is stored (`NoZeros`,
  from `Standings`): that gives the rest of `InOrder`.

  `Standings` is what `NothingLost` needs.  For a file that is not hurt there is a
  position d in `recorded[f]` such that the first d writes are in the data centre and
  those from d + 1 on are chained, stored and named by the metadata.  What that means
  in the middle of a call is said by `Last`, `Known` and `Stored`, by the step of
  each thread: the last link is set and the metadata is not, the data is written
  and the key is not yet removed, and so on.  `KeyFrame`, `DbFrame` and
  `StandingStays` are what the steps have in common that leave a file alone, failures
  and restarts among them.  `NothingLost` itself walks `ion` from the head;
  `ChainIsRest` shows that the walk gives the positions from d + 1 to the end, and
  `FewRecorded`, by a pigeonhole, that it is long enough.

  `DirtyIsQueued` rests on `ListInv`.  While the list is calm all `next` are NULL (the
  code writes them so), and the nodes that the flush has not come to form a sequence
  q without repetitions, from `update` along `prev` to the head, which may be its own
  `prev` and may be the node the flush has at hand (`Queued`).  The sequence has every
  dirty file that nobody has in hand (`Attended`).  A request appends to it
  (`NewNodeQueued`) or puts the head back (`HeadQueued`), the flush takes from its front
  (`TailQueued`), and a restart empties it together with what it has to have, since all
  files that are dirty then are `stray`.  What keeps a file from being forgotten when
  its node is freed is `FlushedClean`: by then it is clean, or put aside.  `QueueAhead` shows that the
  nodes `Ahead` computes by following `prev` are those of q; q is no longer than
  `Nodes`, again a pigeonhole.

**`ThreadPoolProofs`**
* `PoolTypeCorrect`: `Spec => []TypeOK`, which has the exclusion of the critical
  sections in it.
* `PoolCorrect`: `Spec => []QueueExact`.

  `QueueExact` describes the linked list by positions in the history `order`: the
  task at position i is followed by the one at i + 1, `tsk_head` is the first that has
  not started and `tsk_tail` the last.  So a list of any length is covered without
  induction.  `AtHand` adds what a thread relies on between its steps: the task an adder
  is about to append is new and has no `next`, and a worker that is about to take
  finds a list that is not empty.  `AppendExact` and `TakeExact` are the two steps that
  change the list; `AddExact` is the new task that is not linked yet; the rest leaves
  it alone (`OthersExact`).

**`FirstFitProofs`**
* `HeapTypeCorrect`, `BlocksDisjoint`, `RingCorrect`: `Spec => []TypeOK`,
  `[]Disjoint` and `[]RingExact`.
* `FirstFitComplete`, `NoUnitLeaks`: `Spec => GrowsWhenNothingFits` and
  `Spec => NothingLeaks`, the two action properties.

  All from one `IInv`.  `RingExact` says "next is the least free block above", which
  is hard to carry over a step; `RingOn` says the same of one block at a time, and three
  lemmas about any function and any set of numbers do all the reasoning about
  rings: `RingInsert`, `RingRemove`, and `RingWalk`, by which a walk that comes
  back to its start has met every block.  From this `Tried`, "the free blocks that a
  search has passed are too small", gives `FirstFitComplete` wherever `freep` was.
  `CallAt` and `Links` say where a call stands; `Ring` stops at `emptied`, as the
  property does.  `NoJoin` shows from `Disjoint` that the code's tests for a
  neighbour are never true, so joins need no case.

**`SyncProofs`**, the theorems of `DataSync`
* `SyncTypeCorrect`: `SyncSpec => []SyncTypeOK`.
* `SyncCorrect`: `SyncSpec => []SyncedUnlessTorn`, for files of any length and content
  (`SyncFilesAssumption`: sequences of numbers), any block size and socket buffer.

  `Counters` relates the three threads: what `main()` has sent is what the server has
  read and what is in the socket, and so for the answers.  `Lanes` says that the
  k-th message in a socket belongs to the k-th block from there on, and what an
  answer holds.  `Content`, as long as nothing is `torn`: the blocks the thread has
  passed are in place, the bytes of every digest under way are still in the file,
  and so is a block that was answered "same".  The heart is `WriteBlockKeeps`: the
  thread writes a block before those whose digests are under way, so that it
  disturbs none (`WrittenInPlace`), and every byte is in a block (`BlocksCover`).

**`SyncProofs`**, the theorems of `RollingSync`
* `RsyncTypeCorrect`: `Spec => []TypeOK`.
* `ReplicaExact`: `Spec => []Replica`, with a `dst` killed at any step, or that ends
  because a call of its failed.
* `ChainsHold`: `Spec => []ChainsExact`.
* `DerivedChecksums`: `Spec => []RollingExact`.

  *Checksums.*  The model sums over a set (`MapThenSumSet`), which takes its elements
  in no order; `FoldIsSum` and `SumsAlong` bring that to sums from the first byte on
  (`Prefix`).  When a window moves by a byte, the plain sum loses the first byte and gets
  the last, and the weighted sum loses the first byte as often as the window is long
  and gets the new plain sum (`NextWindow`).  The rest is about remainders: of a sum of
  remainders (`TwoRemainders`), and that reducing modulo the square of
  `ROLLING_CHKSUM_M` first, which is what a wrap of 32 bits is, changes nothing
  (`WrapKeeps`).  No induction theorem is needed but `Induction`.

  *Replica.*  What `src` sends is one stream, known from the start: the reply, the
  number of delta blocks, the block.  `Stages` says how much of it has been sent, that
  what is between the programs is the part that `dst` has not read (`InFlight`), and where
  both stand.  Its key is a fact about the code that a reader would not expect: the
  list of delta blocks is always one block (`OneDelta`), and with a `dst` that is not
  empty `src` never comes to send any.

  *Chains.*  Each chain is a sequence q of positions (`Order`): exactly the first of
  the same entries with its hash, by their checksums, linked as `Links` says.  `WalkIs` shows
  that the walk of the code comes to a halt at the first place of q where it should;
  `Representative` that an entry which is the same as the new one is always met, although
  the walk stops at a greater checksum; `HeadLinks`, `BeforeLinks` and `BehindLinks` that each
  of the three insertions links the new entry at its place of q, and `InsertLinks` and
  `OtherLinks` that all chains are then whole.  `VisitedIs` brings that to the property,
  which follows `next`; q is no longer than the entries, a pigeonhole (`Short`).

**`RedBlackTreeProofs`**
* `TypeCorrect`: `Spec => []TypeOK`.
* `OrderKept`: `Spec => []SearchTree`, between two turns of a fixup too.
* `BalanceRestored`: `Spec => []RedBlack`.
* `NeighboursAreNext`: `Spec => []NeighboursFound`.
* `TurnsBounded`: `Spec => []FixupsEnd`.

  The properties speak of `Ancestors`, which follow `p` up to the root.  The invariant
  describes a tree from the other side, and locally: there is a function g that
  gives for every node the nodes at it and below it (`Below`: those of a child are
  the ones whose keys belong on its side), and a function h that counts the black
  nodes on the way down (`Counted`).  A rotation changes g and h for two nodes only.
  A fact about a whole tree needs no induction then: take a node for which it fails
  and g is smallest, or largest.  `Ancestors(n)` are the nodes with n in their
  g, which turns `Search` into `SearchTree` and `Balanced` into `RedBlack`.

  During `rb_delete_fixup()` the counts differ at one place: below side e of node q one
  black node is `Missing`, and `x` is there.  Each case of the fixup either mends that or
  moves it up.  The turns are bounded by what is left of the way: `InsertPhase` and
  `DeletePhase` say how many black nodes a fixup has climbed, the turn after a
  rotation being the last or the last but one, and `LongWay` that a tree with that many black
  nodes on a way has as many levels.

**`NameSpaceProofs`**
* `NamespaceTypes`: `Spec => []TypeOK`.
* `NamespacePointers`: `Spec => []PointersExact`.
* `NamespaceFinds`: `Spec => []FilesFound`.
* `NamespaceLogins`: `Spec => []AddedCanLogIn`.

  With any number of nodes, users, names, paths, starts and calls, and every allocation
  able to fail.  One hypothesis is stated with each: no user is named ".."
  (`NamesAreNames`).  `adduser()` takes any name (`nss.c:312`), and with that one its
  look-ups would go to the parent instead of the home it has made; the users of the
  run are named otherwise.

  The invariant has three parts.  `Causes` says for which reason a bad pointer may have
  been followed.  `Lines` says of a user added that there is a line for that user,
  that no earlier line contains the name, and that all later lines are of other users:
  this is what `grep` in `user_login()` needs.  `Sound` is the tree.  Always
  (`Shape`): the live files in the array of a directory have it as their parent
  (`Housed`), and a directory with the shared flag is nobody's parent and never the
  current one or the home (`Flags`).  Until the current directory, the home or one
  above them has been removed (`cut`): the arrays are exact (`Exact`); `newest` and `crowded` tell what was
  made last and where there were more than two (`Recorded`); and there is a set of
  live nodes that has the current directory and the home in it, which no step
  up or down leaves, and in which only the root is above itself (`Kept`).

  A look-up is followed turn by turn (`TurnOnWay`, `LookupFinds`), so that the induction
  is over the turns of one look-up.  The binary search, of an array of any length,
  looks at the last two entries before it gives up (`BinaryIs`, `LastFound`), and
  `mkfile()` inserts at the index where it gave up, that of the last (`MayMake`), so
  that the file made is one of the last two (`AddedRecorded`).  That is `FilesFound`.
  `rmfile()` of a node that is not above the current directory or the home leaves
  them and all above them in place (`AboveHas`, `WithoutKept`).
  `SoundGrown`, `SoundWithout`, `SoundMarked` and `SoundMoved` are the four changes that
  calls consist of; a lemma per call puts them together.

Several of these modules need induction over numbers.  The library's induction
theorems take an operator as a parameter, which no prover here instantiates; the
lemma `Induction` is over a *set* of numbers instead, from the fact that the inclusion
of finite sets is well-founded.  From it come `CanIterate` (a function can be applied
n times) and `InitialSegment`.

**Only model-checked:** all liveness properties (`NonBlockingAnswered`, `LockReleased`,
`TasksStart`, `CallsReturn`, `SyncEnds`, `Ends`), since TLAPS has no backend here for
`ENABLED` or for liveness under fairness.  Every invariant and every action property
of a passing run is stated by a theorem.


## 6. Not modelled within the modelled parts

* `malloc()` and `pthread_create()` that fail in the mutex servers end the process;
  `show_mutex_*` only read.
* Offsets, lengths and open flags of the cache; two writes with one key; a client
  that dies between `iod_put` and its request; the descriptor leaked by a
  short read; `listenfd` closed by the stale descriptor of
  `super_serv_process.c:527` (that of a client's connection is modelled:
  `CloseStaleFd`); database calls that fail for another reason than the
  other thread's, and a `write()` to the data centre that fails or is short (both leave
  the flush by the way of `CallFails`).  That a flush happens in the end is not
  claimed: the races on the list make it false.  A file that is removed and created
  again while the flush has it open is flushed to the new file in the model, and to
  the deleted one in the code: the model has more outcomes here, in a file that is
  `hurt`.
* Calls that fail in `thread_pool_init()`.
* `print_free()`, the tree's prints, `malloc()` failing in `new_rbt_node()`.
* System calls of `c_sync` and `s_sync` that fail, other than `open()` of the server; a
  file that changes on the server meanwhile.
* uid, gid and acl of the namespace, which nothing reads; allocations that fail
  inside `init_ns()`; a freed node that becomes another while something still
  points to it (to follow that pointer is undefined anyway); the prints.
* In `rsync/`: system calls that fail inside `Read()` and `Write()`, which add the -1
  to the count and go on; a `write()` of `dst` to `file.rep` that fails (it goes the
  same way); calls of `src` that fail, other than the `open()` of its file; the search
  for duplicates after its first read, and a duplicate in the
  delta.  No execution reaches them: `SrcFill` shows that the buffer never serves the
  first read.  What they would do (duplicates listed but not counted, the bytes after
  the last duplicate not sent) is therefore not behaviour of this program.


## 7. Parts left out

* *Super node*: a process per message, which answers a fixed text; no state is
  shared between messages, so that what remains is formatting.
* *Wrappers*: no state of their own; the programs that use them are modelled.
* *Exercises*: programs of their own that read an input and print a result;
  nothing of the storage system calls them.
* *Scripts.*


## 8. Plan

The order was: the lock server, since the safety of everything else in the file
system would rest on it; the write-back cache, which is the largest concurrent
program; the pool; then the sequential parts with intricate data structures; the
namespace; the two synchronisations; and proofs along the way.  All of it is done.
What is left is beyond the tools used here: the liveness properties for every value
of the constants.
