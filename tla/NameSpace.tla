----------------------------- MODULE NameSpace -----------------------------
(***************************************************************************)
(* The namespace of the cache file system, nss.c: a tree of ns_node, each  *)
(* directory with an array of children, and the file of the users.  The    *)
(* tree is in memory and init_ns() makes it anew at every start; the file  *)
(* of the users stays.  The types that nss.c tests (IS_DIR_FILE,           *)
(* SHARED_FLAG, ...) are defined nowhere in the repository: they are here  *)
(* what their names say.  uid, gid and acl are stored and never read.      *)
(*                                                                         *)
(* A step that dereferences a pointer to no node is undefined: the program *)
(* stops there, and fault says which kind of pointer it was.               *)
(***************************************************************************)
EXTENDS Integers, FiniteSets, SequencesExt

CONSTANTS
    Nodes,     \* the nodes calloc() may return
    Root,      \* cfs_root_dir, a static
    NULL,      \* the null pointer
    Junk,      \* a pointer read beyond the end of an array
    SU,        \* the name of the super user
    Shared,    \* SHARED_DIR_NAME
    Upper,     \* UPPER_DIR_NAME, ".."
    Users,     \* the names given to adduser()
    Matches,   \* <<u, v>>: the line of v in the file of the users contains u
    Paths,     \* the paths given: [abs, comps, slash], slash for a trailing one
    NoFile,    \* there is no file of the users
    MaxStarts, \* bound: the starts of the program
    MaxChanges \* bound: the calls that change the tree, from a start on

ASSUME NameSpaceAssumption ==
    /\ IsFiniteSet(Nodes) /\ Root \notin Nodes
    /\ {NULL, Junk} \cap (Nodes \union {Root}) = {} /\ NULL # Junk
    /\ SU # Shared /\ Shared # Upper /\ SU # Upper
    /\ \A u \in Users \union {SU} : <<u, u>> \in Matches
    /\ \A p \in Paths : p.comps \in Seq(ToSet(p.comps)) /\ {p.abs, p.slash} \subseteq BOOLEAN
    /\ NoFile \notin Seq(Users \union {SU})
    /\ MaxStarts \in Nat \ {0} /\ MaxChanges \in Nat

VARIABLES
    tree,     \* the nodes: live, and the name, type, parent and child of each
    cwd,      \* current_working_dir
    home,     \* home_dir
    users,    \* USER_INFO_FILE: the users, a line each
    fault,    \* the kind of a bad pointer that was followed
    starts,   \* how often the program was started
    changes,  \* how often the tree was changed since
    newest,   \* history: the node mkfile() made last in each directory
    crowded,  \* history: the directories that have had more than two children
    added,    \* history: the users added since the start
    cut,      \* history: rmfile() was given cwd, home or a directory above
    torn      \* history: a realloc() failed

vars == <<tree, cwd, home, users, fault, starts, changes, newest, crowded, added, cut, torn>>
count == <<starts, changes>>
history == <<newest, crowded, added, cut, torn>>

Dirs == Nodes \union {Root}

TypeOK ==
    /\ tree.live \subseteq Dirs /\ Root \in tree.live
    /\ tree.parent \in [Dirs -> Dirs]
    /\ DOMAIN tree.child = Dirs
    /\ \A d \in Dirs : ToSet(tree.child[d]) \subseteq Nodes \union {Junk}
    /\ cwd \in Dirs /\ home \in Dirs \union {NULL}
    /\ users = NoFile \/ ToSet(users) \subseteq Users \union {SU}
    /\ fault \in {"none", "null", "junk", "freed", "literal", "memory", "mkfile"}
    /\ starts \in 1 .. MaxStarts /\ changes \in 0 .. MaxChanges
    /\ crowded \subseteq Dirs /\ added \subseteq Users
-----------------------------------------------------------------------------
(* binary_seach_file(): the result of strcmp() is kept in a u32, which is never
   below 0, and the search only goes right. *)
Binary(t, d, name) ==
    LET n == Len(t.child[d])
        search[low \in 1 .. n] ==
            LET mid == (low + n) \div 2 IN
            IF low = n THEN low
            ELSE IF t.child[d][mid] \notin t.live \/ t.name[t.child[d][mid]] = name THEN mid
            ELSE search[mid + 1]
    IN search[1]

FaultAt(n) == IF n = NULL THEN "null" ELSE IF n = Junk THEN "junk" ELSE "freed"

(* The tail of a turn of get_ns_node(): shared_dir is never assigned. *)
shared_dir == NULL

Arrive(t, s, ret, n) ==
    IF n \notin t.live THEN [s EXCEPT !.fault = FaultAt(n)]
    ELSE [s EXCEPT !.ret = ret, !.node = IF {"dir", "flag"} \subseteq t.type[n] THEN shared_dir
                                         ELSE n]

(* A turn: the next component, name, of the path is looked up in s.node. *)
Turn(t, s, name) ==
    IF s.fault # "none" \/ s.ret \in {1, 4} THEN s
    ELSE IF s.ret = 3 THEN [s EXCEPT !.ret = 4]
    ELSE IF s.node \notin t.live THEN [s EXCEPT !.fault = FaultAt(s.node)]
    ELSE IF "dir" \notin t.type[s.node] THEN [s EXCEPT !.ret = 1]
    ELSE IF name = Upper THEN
        Arrive(t, s, 2, IF "shared" \in t.type[s.node] THEN home ELSE t.parent[s.node])
    ELSE IF t.child[s.node] = <<>> THEN [s EXCEPT !.ret = 3, !.index = 1, !.name = name]
    ELSE LET i == Binary(t, s.node, name)
             n == t.child[s.node][i]
         IN IF n \notin t.live THEN [s EXCEPT !.fault = FaultAt(n)]
            ELSE IF t.name[n] # name THEN [s EXCEPT !.ret = 3, !.index = i, !.name = name]
            ELSE Arrive(t, [s EXCEPT !.index = i], 0, n)

(* get_ns_node(): the node it reaches, its index in the array of its directory
   (from 1 here), and the return value.  A path of no component leaves in the
   index the length of the path. *)
get_ns_node(t, path) ==
    LET start == IF path.abs THEN Root ELSE cwd
        s == [ret |-> 0, node |-> start, name |-> Upper, index |-> IF path.abs THEN 2 ELSE 1,
              fault |-> IF start \in t.live THEN "none" ELSE "freed"]
        after[k \in 0 .. Len(path.comps)] ==
            IF k = 0 THEN s ELSE Turn(t, after[k - 1], path.comps[k])
        end == after[Len(path.comps)]
    IN IF end.ret = 3 /\ path.slash THEN [end EXCEPT !.ret = 4] ELSE end

Abs(comps) == [abs |-> TRUE, comps |-> comps, slash |-> FALSE]

(* The caller of get_ns_node() reads the node: what a lookup comes to. *)
Reached(r) ==
    IF r.fault # "none" THEN r.fault
    ELSE IF r.node = NULL THEN "null" ELSE "none"
-----------------------------------------------------------------------------
(* The nodes calloc() may return.  That a freed node which something points to
   becomes another node is left out: following the pointer is undefined anyway. *)
Fresh(t) ==
    Nodes \ (t.live \union {t.parent[n] : n \in t.live} \union {cwd, home}
                    \union UNION {ToSet(t.child[n]) : n \in t.live})

(* What the allocations of mkfile() come to: a node, NULL when a calloc() fails,
   Junk when the realloc() does. *)
Allocations(t) == Fresh(t) \union {NULL, Junk}

FrontPlace(r) == 1
PlaceOf(r) == r.index

(* mkfile(): the tree after it.  When the realloc() fails how_many_children has
   been incremented. *)
AfterMkfile(t, path, type, new) ==
    LET r == get_ns_node(t, path) IN
    IF r.fault # "none" \/ r.ret # 3 \/ new = NULL THEN t
    ELSE IF new = Junk THEN [t EXCEPT !.child[r.node] = Append(@, Junk)]
    ELSE [live |-> t.live \union {new},
          name |-> [t.name EXCEPT ![new] = r.name],
          type |-> [t.type EXCEPT ![new] = type],
          parent |-> [t.parent EXCEPT ![new] = r.node],
          child |-> [t.child EXCEPT ![r.node] = InsertAt(@, PlaceOf(r), new), ![new] = <<>>]]

(* What the history becomes when the tree becomes t. *)
Remember(t, madeIn) ==
    /\ crowded' = {d \in t.live : d \in crowded \/ Len(t.child[d]) > 2}
    /\ newest' = [d \in Dirs |->
                    LET made == {n \in t.live \cap madeIn : d \in t.live /\ t.parent[n] = d} IN
                    IF made # {} THEN CHOOSE n \in made : TRUE
                    ELSE IF newest[d] \in t.live /\ d \in t.live /\ t.parent[newest[d]] = d
                         THEN newest[d] ELSE NULL]

Running == fault = "none"
MayChange == changes < MaxChanges
Count == changes' = IF tree' = tree THEN changes ELSE changes + 1

mkfile(path, type, new) ==
    LET r == get_ns_node(tree, path) IN
    /\ Running /\ MayChange
    /\ tree' = AfterMkfile(tree, path, type, new)
    /\ fault' = r.fault
    /\ torn' = (torn \/ (new = Junk /\ tree' # tree))
    /\ Count
    /\ Remember(tree', {new})
    /\ UNCHANGED <<cwd, home, users, starts, added, cut>>
-----------------------------------------------------------------------------
(* n and the directories above it. *)
Above(n) ==
    LET up[k \in 0 .. Cardinality(Nodes)] == IF k = 0 THEN n ELSE tree.parent[up[k - 1]]
    IN {up[k] : k \in 0 .. Cardinality(Nodes)}

(* rmfile(): the children of the node, if there are any, are not freed. *)
Removed(r, i) ==
    [live |-> tree.live \ {r.node},
     name |-> [tree.name EXCEPT ![r.node] = Upper],
     type |-> [tree.type EXCEPT ![r.node] = {"dir"}],
     parent |-> [tree.parent EXCEPT ![r.node] = Root],
     child |-> [tree.child EXCEPT ![tree.parent[r.node]] = RemoveAt(@, i), ![r.node] = <<>>]]

AfterRmfileNext(r) ==
    Removed(r, IF r.index < Len(tree.child[tree.parent[r.node]]) THEN r.index + 1 ELSE r.index)

AfterRmfile(r) == Removed(r, r.index)

RmfileFault(r) ==
    IF Reached(r) # "none" THEN Reached(r)
    ELSE IF tree.parent[r.node] \notin tree.live THEN "freed"
    ELSE IF r.node = Root THEN "literal" ELSE "none"

rmfile(path) ==
    LET r == get_ns_node(tree, path)
        bad == RmfileFault(r)
    IN
    /\ Running /\ MayChange /\ (r.ret = 0 \/ r.fault # "none")
    /\ \/ /\ bad = "none"
          /\ tree' = AfterRmfile(r)
          /\ cut' = (cut \/ r.node \in Above(cwd) \/ (home # NULL /\ r.node \in Above(home)))
          /\ fault' = "none"
       \/ /\ bad = "none" => Len(tree.child[tree.parent[r.node]]) > 1
          /\ fault' = IF bad = "none" THEN "memory" ELSE bad
          /\ UNCHANGED <<tree, cut>>
    /\ Count
    /\ Remember(tree', {})
    /\ UNCHANGED <<cwd, home, users, starts, added, torn>>

(* cd(): a directory with a flag is refused, one reached by ".." never. *)
cd(path) ==
    LET r == get_ns_node(tree, path)
        bad == IF r.ret = 0 THEN Reached(r) ELSE r.fault
    IN
    /\ Running
    /\ fault' = bad
    /\ cwd' = IF bad = "none" /\ (r.ret = 2 \/ (r.ret = 0 /\ tree.type[r.node] = {"dir"}))
              THEN r.node ELSE cwd
    /\ UNCHANGED <<tree, home, users, count, history>>

(* ls() changes nothing. *)
ls(path) ==
    LET r == get_ns_node(tree, path) IN
    /\ Running
    /\ fault' = IF r.ret \in {0, 2} THEN Reached(r) ELSE r.fault
    /\ UNCHANGED <<tree, cwd, home, users, count, history>>
-----------------------------------------------------------------------------
(* get_user_info_by_name() greps the file for the name: the lines it prints. *)
get_user_info_by_name(name) ==
    IF users = NoFile THEN {} ELSE {i \in DOMAIN users : <<name, users[i]>> \in Matches}

HomeFlagged(t, hd, user_shared_dir) ==
    [t EXCEPT !.type = [n \in Dirs |-> IF n = hd THEN {"dir", "flag"} ELSE @[n]]]

Flagged(t, hd, user_shared_dir) == [t EXCEPT !.type[user_shared_dir] = @ \union {"flag"}]

(* adduser() writes the line, makes the home directory and, without a look at
   what mkfile() returned, sets the flag of the directory it made below. *)
adduser(name, newHome, newShared) ==
    LET t == AfterMkfile(tree, Abs(<<name>>), {"dir"}, newHome)
        r == get_ns_node(t, Abs(<<name, Shared>>))
        u == AfterMkfile(t, Abs(<<name, Shared>>), {"dir"}, newShared)
        first == get_ns_node(tree, Abs(<<name>>)).fault
        bad == IF first # "none" THEN first
               ELSE IF r.fault # "none" THEN r.fault
               ELSE IF r.ret # 3 \/ newShared \in {NULL, Junk} THEN "mkfile" ELSE "none"
    IN
    /\ Running /\ MayChange
    /\ users # NoFile /\ get_user_info_by_name(name) = {}
    /\ newHome \in Allocations(tree) /\ newShared \in Allocations(t)
    /\ users' = Append(users, name)
    /\ fault' = bad
    /\ tree' = IF bad = "none" THEN Flagged(u, newHome, newShared) ELSE u
    /\ torn' = (torn \/ (newHome = Junk /\ t # tree) \/ (newShared = Junk /\ u # t))
    /\ Count
    /\ Remember(tree', {newHome, newShared})
    /\ added' = IF bad = "none" /\ newHome \in tree'.live \ tree.live THEN added \union {name}
                ELSE added
    /\ UNCHANGED <<cwd, home, starts, cut>>

(* user_login(): the password is compared with the end of what grep printed, and
   the home directory is that of its first line.  pw is whose password it is. *)
user_login(name, pw) ==
    LET lines == get_user_info_by_name(name)
        r == get_ns_node(tree, Abs(<<users[Min(lines)]>>))
    IN
    /\ Running
    /\ lines # {} /\ users[Max(lines)] = pw
    /\ fault' = r.fault
    /\ IF r.fault = "none" /\ r.ret \in {0, 2} THEN cwd' = r.node /\ home' = r.node
       ELSE UNCHANGED <<cwd, home>>
    /\ UNCHANGED <<tree, users, count, history>>
-----------------------------------------------------------------------------
NoParent == NULL
RootParent == Root

(* init_ns(): the root, and below it the home of the super user and the shared
   directory, made in this order by mkfile(). *)
NewTree(su, shared) ==
    [live |-> {Root, su, shared},
     name |-> [n \in Dirs |-> IF n = su THEN SU ELSE IF n = shared THEN Shared ELSE Upper],
     type |-> [n \in Dirs |-> IF n = shared THEN {"dir", "shared"} ELSE {"dir"}],
     parent |-> [n \in Dirs |-> IF n = Root THEN RootParent ELSE Root],
     child |-> [n \in Dirs |-> IF n = Root THEN <<shared, su>> ELSE <<>>]]

Registered(file) == IF file = NoFile THEN NoFile ELSE Append(file, SU)

Init ==
    /\ \E su, shared \in Nodes : su # shared /\ tree = NewTree(su, shared)
    /\ cwd = Root /\ home = NULL /\ fault = "none" /\ starts = 1 /\ changes = 0
    /\ \E file \in {NoFile, <<>>} : users = Registered(file)
    /\ newest = [d \in Dirs |-> NULL] /\ crowded = {} /\ added = {}
    /\ cut = FALSE /\ torn = FALSE

(* The program ends, or is ended, and is started again. *)
Restart ==
    /\ starts < MaxStarts
    /\ \E su, shared \in Nodes : su # shared /\ tree' = NewTree(su, shared)
    /\ cwd' = Root /\ home' = NULL /\ fault' = "none" /\ starts' = starts + 1 /\ changes' = 0
    /\ users' = Registered(users)
    /\ newest' = [d \in Dirs |-> NULL] /\ crowded' = {} /\ added' = {}
    /\ cut' = FALSE /\ torn' = FALSE

Next ==
    \/ \E path \in Paths :
          \/ \E type \in {{"reg"}, {"dir"}}, new \in Allocations(tree) : mkfile(path, type, new)
          \/ rmfile(path) \/ cd(path) \/ ls(path)
    \/ \E name \in Users : \E newHome, newShared \in Nodes \union {NULL, Junk} :
          adduser(name, newHome, newShared)
    \/ \E name, pw \in Users \union {SU} : user_login(name, pw)
    \/ Restart

Spec == Init /\ [][Next]_vars
-----------------------------------------------------------------------------
IsTorn(d) == Junk \in ToSet(tree.child[d])

(* nss.c:162-262, the arrays of children that mkfile() and rmfile() rebuild by
   hand: a file is in the array of its directory, once, whose entries are files
   that are there and have that directory for parent.  What a failed realloc()
   has left behind is the only exception, and what rmfile() leaves when it is
   given the current or home directory or one above.  So a pointer to no node is
   only followed for one of these reasons, or because home_dir is not set before
   the login and shared_dir, which nothing assigns, never is. *)
ArrayExact(d) ==
    /\ ToSet(tree.child[d]) \ {Junk} = {n \in tree.live \ {Root} : tree.parent[n] = d}
    /\ \A i, j \in DOMAIN tree.child[d] :
          tree.child[d][i] = tree.child[d][j] => i = j \/ tree.child[d][i] = Junk
    /\ IsTorn(d) => torn

PointersExact ==
    /\ ~cut => \A d \in tree.live : ArrayExact(d)
    /\ fault = "junk" => torn
    /\ fault = "freed" => cut
    /\ fault = "null" => home = NULL \/ \E n \in tree.live : "flag" \in tree.type[n]

(* nss.c:8-27, the search that only goes right, which mkfile() also asks where to
   put a new file: it finds every file of a directory that never had more than
   two, and no such directory has a name twice.  However crowded a directory is,
   and whatever was removed from it since, the name of the file made last in it
   is found: adduser() makes a directory and looks it up to make another in it. *)
Finds(d, name) ==
    tree.child[d] # <<>> /\ tree.name[tree.child[d][Binary(tree, d, name)]] = name

NamesUnique(d) ==
    \A i, j \in DOMAIN tree.child[d] :
        tree.name[tree.child[d][i]] = tree.name[tree.child[d][j]] => i = j

FilesFound ==
    \A d \in tree.live : ~IsTorn(d) /\ ~cut =>
        /\ d \notin crowded =>
              NamesUnique(d) /\ \A n \in ToSet(tree.child[d]) : Finds(d, tree.name[n])
        /\ newest[d] # NULL => Finds(d, tree.name[newest[d]])

(* nss.c:312-468 together: who was added in this run of the program, and whose
   home is one of the last two directories of the root, can log in with their own
   password and come to their home, unless their name is in a later line. *)
CanLogIn(u) ==
    LET lines == get_user_info_by_name(u)
        r == get_ns_node(tree, Abs(<<users[Min(lines)]>>))
    IN lines # {} /\ users[Max(lines)] = u /\ r.ret = 0 /\ r.node \in tree.live /\ tree.name[r.node] = u

AddedCanLogIn ==
    \A u \in added :
        /\ ~cut /\ ~IsTorn(Root)
        /\ \E i \in DOMAIN tree.child[Root] :
              i >= Len(tree.child[Root]) - 1 /\ tree.name[tree.child[Root][i]] = u
        /\ \A v \in Users \ {u} : <<u, v>> \notin Matches
        => CanLogIn(u)
=============================================================================
