------------------------- MODULE MdMutexTableProofs -------------------------
(***************************************************************************)
(* Proofs about MdMutexTable for every number of clients, files and table  *)
(* entries.                                                                *)
(***************************************************************************)
EXTENDS MdMutexTable, FiniteSetTheorems, TLAPS

USE ClientAssumption, TableAssumption

(* Every step keeps the variables in their types, whatever clients do. *)
LEMMA TypeStep == TypeOK /\ [Next]_vars => TypeOK'
<1> SUFFICES ASSUME TypeOK, [Next]_vars PROVE TypeOK'
  OBVIOUS
<1> USE DEF TypeOK, ClientTypeOK, tableVars, NoRequest, Names, Ops, ThreadSteps
<1>1. CASE Accept /\ UNCHANGED tableVars
  BY <1>1 DEF Accept
<1>2. ASSUME NEW c \in Clients, ClientStep(c), UNCHANGED tableVars
      PROVE  TypeOK'
  <2>1. CASE BeginSession(c)
    BY <1>2, <2>1 DEF BeginSession, Connect
  <2>2. CASE EndSession(c)
    BY <1>2, <2>2 DEF EndSession, Connect
  <2>3. CASE Write(c)
    BY <1>2, <2>3 DEF Write
  <2>4. CASE Crash(c)
    BY <1>2, <2>4 DEF Crash
  <2>5. CASE ReadRequest(c)
    BY <1>2, <2>5 DEF ReadRequest
  <2>6. CASE ReadEof(c)
    BY <1>2, <2>6 DEF ReadEof
  <2>7. CASE Reply(c)
    BY <1>2, <2>7 DEF Reply, AfterReply
  <2> QED
    BY <1>2, <2>1, <2>2, <2>3, <2>4, <2>5, <2>6, <2>7 DEF ClientStep
<1>3. ASSUME NEW c \in Clients, Get(c) PROVE TypeOK'
  <2>0. OpStep(req[c].op) \in ThreadSteps
    BY DEF OpStep
  <2>1. CASE Exit
    BY <2>1 DEF Exit
  <2>2. CASE GetMatch(c)
    BY <2>0, <2>2 DEF GetMatch, CountUse, Goto
  <2>3. CASE GetAlloc(c)
    BY <2>0, <2>3 DEF GetAlloc, Goto
  <2>4. CASE GetFail(c)
    BY <2>4 DEF GetFail, Goto
  <2> QED
    BY <1>3, <2>1, <2>2, <2>3, <2>4 DEF Get
<1>4. ASSUME NEW c \in Clients, Lock(c) \/ TryLock(c) PROVE TypeOK'
  <2>1. UNCHANGED <<up, backlog, reading, req, sess, alive, count, file_name>>
    BY <1>4 DEF Lock, TryLock
  <2>2. CASE TakeMutex(c)
    BY <2>1, <2>2 DEF TakeMutex, Done, Goto
  <2>3. CASE UNCHANGED <<owner, slot>> /\ ok' = [ok EXCEPT ![c] = FALSE] /\ Goto(c, "put")
    BY <2>1, <2>3 DEF Goto
  <2> QED
    BY <1>4, <2>2, <2>3 DEF Lock, TryLock
<1>5. ASSUME NEW c \in Clients, Unlock(c) PROVE TypeOK'
  BY <1>5 DEF Unlock, Goto
<1>6. ASSUME NEW c \in Clients, Put(c) PROVE TypeOK'
  <2>1. count' \in [Slots -> Int]
    <3>1. CASE slot[c] \in Slots
      BY <1>6, <3>1 DEF Put
    <3>2. CASE slot[c] \notin Slots
      <4>1. count' = count
        BY <1>6, <3>2 DEF Put
      <4> QED
        BY <4>1
    <3> QED
      BY <3>1, <3>2
  <2> QED
    BY <1>6, <2>1 DEF Put, Done, Goto
<1>7. CASE UNCHANGED vars
  BY <1>7 DEF vars, clientVars
<1> QED
  BY <1>1, <1>2, <1>3, <1>4, <1>5, <1>6, <1>7 DEF Next, Thread

(* TypeOK holds of every behaviour. *)
THEOREM TypeCorrect == Spec => []TypeOK
<1>1. Init => TypeOK
  BY DEF Init, ClientInit, TypeOK, ClientTypeOK, NoRequest, Names, Ops, ThreadSteps
<1> QED
  BY <1>1, TypeStep, PTL DEF Spec
-----------------------------------------------------------------------------
(* Sets of clients are finite, so the users of an entry can be counted. *)
LEMMA ClientsCount ==
  ASSUME NEW U \in SUBSET Clients
  PROVE  IsFiniteSet(U) /\ Cardinality(U) \in Nat
BY FS_Subset, FS_CardinalityType

(* No count is negative, and an entry that counts nobody is not in use. *)
LEMMA UseBounds ==
  ASSUME TypeOK, CountIsUse, NEW s \in Slots
  PROVE  /\ count[s] >= 0
         /\ count[s] = 0 => owner[s] = None /\ Users(s) = {}
<1>1. Users(s) \in SUBSET Clients
  BY DEF Users
<1>2. IsFiniteSet(Users(s)) /\ Cardinality(Users(s)) \in Nat
  BY <1>1, ClientsCount
<1>3. CountFits(s)
  BY DEF CountIsUse
<1>4. count[s] >= 0 /\ (count[s] = 0 => owner[s] = None /\ Cardinality(Users(s)) = 0)
  BY <1>2, <1>3 DEF CountFits, TypeOK
<1> QED
  BY <1>2, <1>4, FS_EmptySet

(* What a step leaves in place keeps its count right. *)
LEMMA CountFrame ==
  ASSUME CountIsUse, NEW s \in Slots,
         count'[s] = count[s], owner'[s] = owner[s], Users(s)' = Users(s)
  PROVE  CountFits(s)'
BY DEF CountIsUse, CountFits

(* A table with room for every name never turns a modify_md away. *)
LEMMA RoomForModifier ==
  ASSUME TypeOK, OneEntryPerFile, NoOverflow, NEW c \in Modifiers,
         \A s \in Slots : count[s] > 0
  PROVE  \E s \in Slots : Matches(s, req[c].file)
<1> SUFFICES ASSUME \A s \in Slots : ~Matches(s, req[c].file) PROVE FALSE
  OBVIOUS
<1> DEFINE Others == Names \ {req[c].file}
<1>1. file_name \in [Slots -> Others]
  BY DEF TypeOK, Matches
<1>2. IsFiniteSet(Slots) /\ Cardinality(Slots) = MUTEX_NUM
  BY FS_Interval DEF Slots
<1>3. /\ IsFiniteSet(Names)
      /\ Cardinality(Names) = Cardinality(Files) + 1
  BY FS_AddElement DEF Names
<1>4. req[c].file \in Names
  BY DEF TypeOK, ClientTypeOK
<1>5. IsFiniteSet(Others) /\ Cardinality(Others) = Cardinality(Names) - 1
  BY <1>3, <1>4, FS_RemoveElement
<1>6. Cardinality(Files) \in Nat /\ Cardinality(Others) < Cardinality(Slots)
  BY <1>2, <1>3, <1>5, FS_CardinalityType DEF NoOverflow
<1>7. \E s, t \in Slots : s # t /\ file_name[s] = file_name[t]
  BY <1>1, <1>2, <1>5, <1>6, FS_PigeonHole
<1> QED
  BY <1>7 DEF OneEntryPerFile
-----------------------------------------------------------------------------
(* The clients and the accept loop keep the invariant: they touch no entry,
   and start an unlock only where a lock is in force. *)
LEMMA ClientKeeps ==
  ASSUME IInv, TypeOK', UNCHANGED tableVars,
         Accept \/ \E c \in Clients : ClientStep(c)
  PROVE  IInv'
<1> USE DEF IInv, tableVars
<1>1. CASE Accept
  <2>1. UNCHANGED <<up, pc, req, ok, sess, alive>>
    BY <1>1 DEF Accept
  <2> QED
    BY <2>1 DEF NeverExits, OneEntryPerFile, CountIsUse, CountFits, Users,
                AtEntry, ThreadAt, OwnersOwn, MustOwn, NoneRefused
<1>2. ASSUME NEW c \in Clients, ClientStep(c) PROVE IInv'
  <2> USE DEF BeginSession, EndSession, Connect, Write, Crash, ReadRequest,
              ReadEof, Reply, AfterReply, NoRequest
  <2>0. BeginSession(c) \/ EndSession(c) \/ Write(c) \/ Crash(c)
        \/ ReadRequest(c) \/ ReadEof(c) \/ Reply(c)
    BY <1>2 DEF ClientStep
  <2>1. /\ up' = up
        /\ \A d \in Clients : d # c => /\ pc'[d] = pc[d] /\ req'[d] = req[d]
                                     /\ ok'[d] = ok[d] /\ sess'[d] = sess[d]
    BY <2>0 DEF TypeOK, ClientTypeOK
  <2>2. \/ /\ pc[c] \in {"idle", "connected", "sent", "reply"}
           /\ pc'[c] \in {"idle", "connected", "sent", "get"}
        \/ pc'[c] = pc[c] /\ req'[c] = req[c] /\ ok'[c] = ok[c]
    BY <2>0 DEF TypeOK, ClientTypeOK
  <2>3. NeverExits' /\ OneEntryPerFile'
    BY <2>1 DEF NeverExits, OneEntryPerFile
  <2>4. CountIsUse'
    <3>1. ASSUME NEW s \in Slots PROVE Users(s)' = Users(s)
      BY <2>1, <2>2 DEF Users
    <3> QED
      BY <3>1, CountFrame DEF CountIsUse
  <2>5. AtEntry'
    BY <2>1, <2>2 DEF AtEntry, ThreadAt
  <2>6. OwnersOwn'
    <3> SUFFICES ASSUME NEW d \in Clients, MustOwn(d)'
                 PROVE  \E s \in Slots : owner[s] = d /\ file_name[s] = req'[d].file
      BY DEF OwnersOwn
    <3>1. CASE d # c
      BY <2>1, <3>1 DEF OwnersOwn, MustOwn
    <3>2. CASE d = c
      <4> USE <3>2 DEF MustOwn, TypeOK, ClientTypeOK
      <4>1. MustOwn(c) /\ req'[c].file = req[c].file
        <5>1. CASE BeginSession(c)
          BY <5>1
        <5>2. CASE EndSession(c)
          BY <5>2 DEF NoneRefused
        <5>3. CASE Write(c) \/ Crash(c) \/ ReadRequest(c)
          BY <5>3
        <5>4. CASE ReadEof(c)
          BY <5>4
        <5>5. CASE Reply(c)
          BY <5>5
        <5> QED
          BY <2>0, <5>1, <5>2, <5>3, <5>4, <5>5
      <4> QED
        BY <3>2, <4>1 DEF OwnersOwn
    <3> QED
      BY <3>1, <3>2
  <2>7. NoneRefused'
    BY <2>0 DEF NoneRefused, TypeOK, ClientTypeOK
  <2> QED
    BY <2>3, <2>4, <2>5, <2>6, <2>7
<1> QED
  BY <1>1, <1>2
-----------------------------------------------------------------------------
(* What a request thread leaves alone: the other threads and the clients. *)
OthersKeep(c) ==
    /\ UNCHANGED <<up, req, sess>>
    /\ \A d \in Clients \ {c} : pc'[d] = pc[d] /\ slot'[d] = slot[d] /\ ok'[d] = ok[d]

(* get_z_mutex() keeps the invariant: it never meets a negative count, an
   unlock finds the entry its client owns, and an entry is taken only when no
   entry in use stands for the file. *)
LEMMA GetKeeps ==
  ASSUME IInv, TypeOK', NoOverflow, NEW c \in Clients, Get(c)
  PROVE  IInv'
<1> USE DEF IInv
<1> DEFINE f == req[c].file
<1>1. ~Aborts(c)
  BY UseBounds DEF Aborts, TypeOK
<1>2. up /\ pc[c] = "get" /\ (GetMatch(c) \/ GetAlloc(c) \/ GetFail(c))
  BY <1>1 DEF Get
<1>3. \A s \in Slots : c \notin Users(s)
  BY <1>2 DEF Users
<1>4. /\ OpStep(req[c].op) \in {"lock", "trylock", "unlock"}
      /\ OpStep(req[c].op) = "unlock" <=> req[c].op = "UNLOCK"
      /\ OpStep(req[c].op) = "trylock" <=> req[c].op = "TRY"
  BY DEF OpStep, TypeOK, ClientTypeOK, Ops
<1>5. ASSUME req[c].op = "UNLOCK"
      PROVE  \E s \in Slots : owner[s] = c /\ Matches(s, f)
  <2>1. PICK s \in Slots : owner[s] = c /\ file_name[s] = f
    BY <1>2, <1>5 DEF OwnersOwn, MustOwn
  <2>2. count[s] # 0
    BY <2>1, UseBounds
  <2> QED
    BY <2>1, <2>2, UseBounds DEF Matches, TypeOK
<1>6. CASE GetMatch(c)
  <2>1. PICK s \in Slots : /\ Matches(s, f) /\ CountUse(c, s)
                          /\ slot' = [slot EXCEPT ![c] = s]
    BY <1>6 DEF GetMatch
  <2>2. /\ OthersKeep(c) /\ UNCHANGED <<ok, file_name, owner>>
        /\ pc'[c] = OpStep(req[c].op) /\ slot'[c] = s
    BY <1>6, <2>1 DEF GetMatch, Goto, OthersKeep, TypeOK, ClientTypeOK
  <2>3. \A t \in Slots : count'[t] > 0 => count[t] > 0
    BY <2>1 DEF CountUse, Matches, TypeOK
  <2>4. OneEntryPerFile'
    BY <2>2, <2>3 DEF OneEntryPerFile
  <2>5. CountIsUse'
    <3> SUFFICES ASSUME NEW t \in Slots PROVE CountFits(t)'
      BY DEF CountIsUse
    <3>1. CASE t = s /\ req[c].op # "UNLOCK"
      <4>1. Users(t)' = Users(t) \union {c}
        BY <1>4, <2>2, <3>1 DEF Users, OthersKeep
      <4>2. Users(t) \in SUBSET Clients
        BY DEF Users
      <4>3. Cardinality(Users(t)') = Cardinality(Users(t)) + 1
        BY <1>3, <4>1, <4>2, ClientsCount, FS_AddElement
      <4>4. count'[t] = count[t] + 1
        BY <2>1, <3>1 DEF CountUse, TypeOK
      <4> QED
        BY <2>2, <4>2, <4>3, <4>4, ClientsCount DEF CountFits, CountIsUse, TypeOK
    <3>2. CASE t # s \/ req[c].op = "UNLOCK"
      <4>1. Users(t)' = Users(t)
        BY <1>2, <1>4, <2>2, <3>2 DEF Users, OthersKeep
      <4>2. count'[t] = count[t]
        BY <2>1, <3>2 DEF CountUse, TypeOK
      <4> QED
        BY <2>2, <4>1, <4>2, CountFrame
    <3> QED
      BY <3>1, <3>2
  <2>6. req[c].op = "UNLOCK" => owner[s] = c
    BY <1>5, <2>1 DEF OneEntryPerFile, Matches
  <2>7. AtEntry'
    BY <1>4, <2>1, <2>2, <2>6 DEF AtEntry, ThreadAt, OthersKeep, Matches
  <2>8. OwnersOwn'
    BY <1>2, <1>4, <2>2 DEF OwnersOwn, MustOwn, OthersKeep
  <2>9. NeverExits' /\ NoneRefused'
    BY <2>2 DEF NeverExits, NoneRefused, OthersKeep
  <2> QED
    BY <2>4, <2>5, <2>7, <2>8, <2>9
<1>7. CASE GetAlloc(c)
  <2>1. PICK s \in Slots : /\ count[s] = 0
                          /\ count' = [count EXCEPT ![s] = 1]
                          /\ file_name' = [file_name EXCEPT ![s] = f]
                          /\ slot' = [slot EXCEPT ![c] = s]
    BY <1>7 DEF GetAlloc
  <2>2. /\ OthersKeep(c) /\ UNCHANGED <<ok, owner>> /\ NoMatch(c)
        /\ pc'[c] = OpStep(req[c].op) /\ slot'[c] = s /\ req[c].op # "UNLOCK"
    BY <1>7, <2>1 DEF GetAlloc, Goto, OthersKeep, TypeOK, ClientTypeOK
  <2>3. owner[s] = None /\ Users(s) = {}
    BY <2>1, UseBounds
  <2>4. \A t \in Slots \ {s} : count'[t] = count[t] /\ file_name'[t] = file_name[t]
    BY <2>1 DEF TypeOK
  <2>5. count'[s] = 1 /\ file_name'[s] = f
    BY <2>1 DEF TypeOK
  <2>6. OneEntryPerFile'
    BY <2>2, <2>4, <2>5 DEF OneEntryPerFile, NoMatch, Matches
  <2>7. CountIsUse'
    <3> SUFFICES ASSUME NEW t \in Slots PROVE CountFits(t)'
      BY DEF CountIsUse
    <3>1. CASE t = s
      <4>1. Users(t)' = {c}
        BY <1>4, <2>2, <2>3, <3>1 DEF Users, OthersKeep
      <4> QED
        BY <2>2, <2>3, <2>5, <3>1, <4>1, FS_Singleton DEF CountFits
    <3>2. CASE t # s
      <4>1. Users(t)' = Users(t)
        BY <1>2, <2>2, <3>2 DEF Users, OthersKeep
      <4> QED
        BY <2>2, <2>4, <3>2, <4>1, CountFrame
    <3> QED
      BY <3>1, <3>2
  <2>8. AtEntry'
    <3> SUFFICES ASSUME NEW d \in Clients PROVE ThreadAt(d)'
      BY DEF AtEntry
    <3>1. CASE d = c
      BY <1>4, <2>2, <2>5, <3>1 DEF ThreadAt, OthersKeep
    <3>2. CASE d # c
      <4>1. d \notin Users(s)
        BY <2>3
      <4> QED
        BY <2>2, <2>3, <2>4, <3>2, <4>1 DEF AtEntry, ThreadAt, OthersKeep, Users
    <3> QED
      BY <3>1, <3>2
  <2>9. OwnersOwn'
    <3>1. \A d \in Clients : MustOwn(d)' => MustOwn(d) /\ d # c
      BY <1>2, <1>4, <2>2 DEF MustOwn, OthersKeep
    <3>2. \A t \in Slots : owner[t] \in Clients => t # s
      BY <2>3
    <3> QED
      BY <2>2, <2>4, <3>1, <3>2 DEF OwnersOwn, OthersKeep
  <2>10. NeverExits' /\ NoneRefused'
    BY <2>2 DEF NeverExits, NoneRefused, OthersKeep
  <2> QED
    BY <2>6, <2>7, <2>8, <2>9, <2>10
<1>8. CASE GetFail(c)
  <2>1. /\ OthersKeep(c) /\ UNCHANGED tableVars
        /\ pc'[c] = "reply" /\ ok'[c] = FALSE
    BY <1>8 DEF GetFail, Goto, OthersKeep, TypeOK, ClientTypeOK, tableVars
  <2>2. c \notin Modifiers
    <3> SUFFICES ASSUME c \in Modifiers PROVE FALSE
      OBVIOUS
    <3>1. \A s \in Slots : ~Matches(s, f)
      BY <1>8 DEF GetFail, NoMatch
    <3>2. \A s \in Slots : count[s] > 0
      BY <1>5, <1>8, <3>1, UseBounds DEF GetFail, TypeOK
    <3> QED
      BY <3>1, <3>2, RoomForModifier
  <2>3. CountIsUse'
    <3>1. ASSUME NEW s \in Slots PROVE Users(s)' = Users(s)
      BY <1>2, <2>1 DEF Users, OthersKeep, tableVars
    <3> QED
      BY <2>1, <3>1, CountFrame DEF CountIsUse, tableVars
  <2>4. OwnersOwn'
    BY <1>2, <2>1 DEF OwnersOwn, MustOwn, OthersKeep, tableVars
  <2>5. AtEntry' /\ NoneRefused'
    BY <2>1, <2>2 DEF AtEntry, ThreadAt, NoneRefused, OthersKeep, tableVars
  <2> QED
    BY <2>1, <2>3, <2>4, <2>5 DEF NeverExits, OneEntryPerFile, OthersKeep, tableVars
<1> QED
  BY <1>2, <1>6, <1>7, <1>8
-----------------------------------------------------------------------------
(* A thread that takes the free mutex of its entry stops using the entry and
   starts holding it: the count stays right. *)
LEMMA TakeKeeps ==
  ASSUME IInv, NEW c \in Clients, TakeMutex(c), pc[c] \in {"lock", "trylock"},
         UNCHANGED <<up, req, sess, count, file_name>>
  PROVE  IInv' \/ ~TypeOK'
<1> SUFFICES ASSUME TypeOK' PROVE IInv'
  OBVIOUS
<1> USE DEF IInv
<1> DEFINE s == slot[c]
<1>1. s \in Slots /\ file_name[s] = req[c].file /\ req[c].op # "UNLOCK"
  BY DEF AtEntry, ThreadAt
<1>2. /\ OthersKeep(c) /\ owner[s] = None /\ UNCHANGED ok
      /\ pc'[c] = "reply" /\ slot'[c] = None
      /\ owner'[s] = c /\ \A t \in Slots \ {s} : owner'[t] = owner[t]
  BY <1>1 DEF TakeMutex, Done, Goto, OthersKeep, TypeOK, ClientTypeOK
<1>3. CountIsUse'
  <2> SUFFICES ASSUME NEW t \in Slots PROVE CountFits(t)'
    BY DEF CountIsUse
  <2>1. CASE t = s
    <3>1. Users(t)' = Users(t) \ {c} /\ c \in Users(t)
      BY <1>1, <1>2, <2>1 DEF Users, OthersKeep
    <3>2. Users(t) \in SUBSET Clients
      BY DEF Users
    <3>3. Cardinality(Users(t)') = Cardinality(Users(t)) - 1
      BY <3>1, <3>2, ClientsCount, FS_RemoveElement
    <3> QED
      BY <1>1, <1>2, <2>1, <3>2, <3>3, ClientsCount DEF CountFits, CountIsUse, TypeOK
  <2>2. CASE t # s
    <3>1. Users(t)' = Users(t)
      BY <1>1, <1>2, <2>2 DEF Users, OthersKeep
    <3> QED
      BY <1>2, <2>2, <3>1, CountFrame
  <2> QED
    BY <2>1, <2>2
<1>4. AtEntry'
  BY <1>1, <1>2 DEF AtEntry, ThreadAt, OthersKeep
<1>5. OwnersOwn'
  <2> SUFFICES ASSUME NEW d \in Clients, MustOwn(d)'
               PROVE  \E t \in Slots : owner'[t] = d /\ file_name[t] = req[d].file
    BY DEF OwnersOwn
  <2>1. CASE d = c
    BY <1>1, <1>2, <2>1
  <2>2. CASE d # c
    <3>1. PICK t \in Slots : owner[t] = d /\ file_name[t] = req[d].file
      BY <1>2, <2>2 DEF OwnersOwn, MustOwn, OthersKeep
    <3> QED
      BY <1>2, <3>1
  <2> QED
    BY <2>1, <2>2
<1> QED
  BY <1>2, <1>3, <1>4, <1>5 DEF NeverExits, OneEntryPerFile, NoneRefused, OthersKeep

(* A failed try_lock goes on using the entry until it puts it back. *)
LEMMA TryFailKeeps ==
  ASSUME IInv, TypeOK', NEW c \in Clients, TryLock(c), ~TakeMutex(c)
  PROVE  IInv'
<1> USE DEF IInv
<1>1. /\ pc[c] = "trylock" /\ pc'[c] = "put" /\ ok'[c] = FALSE /\ slot'[c] = slot[c]
      /\ OthersKeep(c) /\ UNCHANGED <<count, file_name, owner>>
  BY DEF TryLock, Goto, OthersKeep, TypeOK, ClientTypeOK
<1>2. c \notin Modifiers
  BY <1>1 DEF AtEntry, ThreadAt, NoneRefused, TypeOK, ClientTypeOK
<1>3. CountIsUse'
  <2>1. ASSUME NEW s \in Slots PROVE Users(s)' = Users(s)
    BY <1>1 DEF Users, OthersKeep
  <2> QED
    BY <1>1, <2>1, CountFrame DEF CountIsUse
<1>4. AtEntry'
  BY <1>1 DEF AtEntry, ThreadAt, OthersKeep
<1>5. OwnersOwn'
  BY <1>1 DEF OwnersOwn, MustOwn, OthersKeep
<1> QED
  BY <1>1, <1>2, <1>3, <1>4, <1>5
  DEF NeverExits, OneEntryPerFile, NoneRefused, OthersKeep

(* An unlock ends the lock of its own client and no other's. *)
LEMMA UnlockKeeps ==
  ASSUME IInv, TypeOK', NEW c \in Clients, Unlock(c)
  PROVE  IInv'
<1> USE DEF IInv
<1> DEFINE s == slot[c]
<1>1. s \in Slots /\ owner[s] = c /\ req[c].op = "UNLOCK" /\ pc[c] = "unlock"
  BY DEF Unlock, AtEntry, ThreadAt
<1>2. /\ OthersKeep(c) /\ UNCHANGED <<ok, count, file_name>>
      /\ pc'[c] = "put" /\ slot'[c] = s
      /\ owner'[s] = None /\ \A t \in Slots \ {s} : owner'[t] = owner[t]
  BY <1>1 DEF Unlock, Goto, OthersKeep, TypeOK, ClientTypeOK
<1>3. CountIsUse'
  <2> SUFFICES ASSUME NEW t \in Slots PROVE CountFits(t)'
    BY DEF CountIsUse
  <2>1. CASE t = s
    <3>1. Users(t)' = Users(t) \union {c} /\ c \notin Users(t)
      BY <1>1, <1>2, <2>1 DEF Users, OthersKeep
    <3>2. Users(t) \in SUBSET Clients
      BY DEF Users
    <3>3. Cardinality(Users(t)') = Cardinality(Users(t)) + 1
      BY <3>1, <3>2, ClientsCount, FS_AddElement
    <3> QED
      BY <1>1, <1>2, <2>1, <3>2, <3>3, ClientsCount DEF CountFits, CountIsUse, TypeOK
  <2>2. CASE t # s
    <3>1. Users(t)' = Users(t)
      BY <1>1, <1>2, <2>2 DEF Users, OthersKeep
    <3> QED
      BY <1>2, <2>2, <3>1, CountFrame
  <2> QED
    BY <2>1, <2>2
<1>4. AtEntry'
  <2> SUFFICES ASSUME NEW d \in Clients PROVE ThreadAt(d)'
    BY DEF AtEntry
  <2>1. CASE d = c
    BY <1>1, <1>2, <2>1 DEF ThreadAt, OthersKeep
  <2>2. CASE d # c
    BY <1>1, <1>2, <2>2 DEF AtEntry, ThreadAt, OthersKeep
  <2> QED
    BY <2>1, <2>2
<1>5. OwnersOwn'
  <2> SUFFICES ASSUME NEW d \in Clients, MustOwn(d)'
               PROVE  \E t \in Slots : owner'[t] = d /\ file_name[t] = req[d].file
    BY <1>2 DEF OwnersOwn, OthersKeep
  <2>1. d # c
    BY <1>2 DEF MustOwn
  <2>2. PICK t \in Slots : owner[t] = d /\ file_name[t] = req[d].file
    BY <1>2, <2>1 DEF OwnersOwn, MustOwn, OthersKeep
  <2> QED
    BY <1>1, <1>2, <2>1, <2>2
<1> QED
  BY <1>2, <1>3, <1>4, <1>5 DEF NeverExits, OneEntryPerFile, NoneRefused, OthersKeep

(* put_z_mutex() takes its thread off the count. *)
LEMMA PutKeeps ==
  ASSUME IInv, TypeOK', NEW c \in Clients, Put(c)
  PROVE  IInv'
<1> USE DEF IInv
<1> DEFINE s == slot[c]
<1>1. s \in Slots /\ pc[c] = "put" /\ (req[c].op = "UNLOCK" \/ ~ok[c])
  BY DEF Put, AtEntry, ThreadAt
<1>2. /\ OthersKeep(c) /\ UNCHANGED <<ok, owner, file_name>>
      /\ pc'[c] = "reply" /\ slot'[c] = None
      /\ count'[s] = count[s] - 1 /\ \A t \in Slots \ {s} : count'[t] = count[t]
  BY <1>1 DEF Put, Done, Goto, OthersKeep, TypeOK, ClientTypeOK
<1>3. CountIsUse'
  <2> SUFFICES ASSUME NEW t \in Slots PROVE CountFits(t)'
    BY DEF CountIsUse
  <2>1. CASE t = s
    <3>1. Users(t)' = Users(t) \ {c} /\ c \in Users(t)
      BY <1>1, <1>2, <2>1 DEF Users, OthersKeep
    <3>2. Users(t) \in SUBSET Clients
      BY DEF Users
    <3>3. Cardinality(Users(t)') = Cardinality(Users(t)) - 1
      BY <3>1, <3>2, ClientsCount, FS_RemoveElement
    <3> QED
      BY <1>1, <1>2, <2>1, <3>2, <3>3, ClientsCount DEF CountFits, CountIsUse, TypeOK
  <2>2. CASE t # s
    <3>1. Users(t)' = Users(t)
      BY <1>1, <1>2, <2>2 DEF Users, OthersKeep
    <3> QED
      BY <1>2, <2>2, <3>1, CountFrame
  <2> QED
    BY <2>1, <2>2
<1>4. AtEntry'
  BY <1>1, <1>2 DEF AtEntry, ThreadAt, OthersKeep
<1>5. OwnersOwn'
  BY <1>1, <1>2 DEF OwnersOwn, MustOwn, OthersKeep
<1>6. OneEntryPerFile'
  <2>1. \A t \in Slots : count'[t] > 0 => count[t] > 0
    BY <1>1, <1>2 DEF TypeOK
  <2> QED
    BY <1>2, <2>1 DEF OneEntryPerFile
<1> QED
  BY <1>2, <1>3, <1>4, <1>5, <1>6 DEF NeverExits, NoneRefused, OthersKeep
-----------------------------------------------------------------------------
(* The invariant is inductive. *)
LEMMA InvStep == NoOverflow /\ IInv /\ [Next]_vars => IInv'
<1> SUFFICES ASSUME NoOverflow, IInv, [Next]_vars PROVE IInv'
  OBVIOUS
<1>1. TypeOK'
  BY TypeStep DEF IInv
<1>2. CASE Accept /\ UNCHANGED tableVars
  BY <1>1, <1>2, ClientKeeps
<1>3. ASSUME NEW c \in Clients, ClientStep(c), UNCHANGED tableVars PROVE IInv'
  BY <1>1, <1>3, ClientKeeps
<1>4. ASSUME NEW c \in Clients, Thread(c) PROVE IInv'
  <2>1. CASE Get(c)
    BY <1>1, <2>1, GetKeeps
  <2>2. CASE Lock(c)
    BY <1>1, <2>2, TakeKeeps DEF Lock
  <2>3. CASE TryLock(c)
    <3>1. CASE TakeMutex(c)
      BY <1>1, <2>3, <3>1, TakeKeeps DEF TryLock
    <3> QED
      BY <1>1, <2>3, <3>1, TryFailKeeps
  <2>4. CASE Unlock(c)
    BY <1>1, <2>4, UnlockKeeps
  <2>5. CASE Put(c)
    BY <1>1, <2>5, PutKeeps
  <2> QED
    BY <1>4, <2>1, <2>2, <2>3, <2>4, <2>5 DEF Thread
<1>5. CASE UNCHANGED vars
  <2>1. UNCHANGED <<up, pc, req, ok, sess, count, file_name, owner, slot>>
    BY <1>5 DEF vars, clientVars, tableVars
  <2>2. CountIsUse'
    <3>1. ASSUME NEW s \in Slots PROVE Users(s)' = Users(s)
      BY <2>1 DEF Users
    <3> QED
      BY <2>1, <3>1, CountFrame DEF IInv, CountIsUse
  <2>3. AtEntry' /\ OwnersOwn'
    BY <2>1 DEF IInv, AtEntry, ThreadAt, OwnersOwn, MustOwn
  <2> QED
    BY <1>1, <2>1, <2>2, <2>3 DEF IInv, NeverExits, OneEntryPerFile, NoneRefused
<1> QED
  BY <1>2, <1>3, <1>4, <1>5 DEF Next

LEMMA InvInit == Init => IInv
<1> SUFFICES ASSUME Init PROVE IInv
  OBVIOUS
<1> USE DEF Init, ClientInit, NoRequest
<1>1. TypeOK
  BY DEF TypeOK, ClientTypeOK, Names, Ops, ThreadSteps
<1>2. CountIsUse
  <2> SUFFICES ASSUME NEW s \in Slots PROVE CountFits(s)
    BY DEF CountIsUse
  <2>1. Users(s) = {}
    BY DEF Users
  <2>2. Cardinality(Users(s)) = 0
    BY <2>1, FS_EmptySet
  <2>3. count[s] = 0 /\ owner[s] = None
    OBVIOUS
  <2> QED
    BY <2>2, <2>3 DEF CountFits
<1> QED
  BY <1>1, <1>2 DEF IInv, NeverExits, OneEntryPerFile, AtEntry, ThreadAt, OwnersOwn,
     MustOwn, NoneRefused

(* Two clients that hold the same file own the same entry. *)
LEMMA InvExcludes == IInv => MutualExclusion
<1> SUFFICES ASSUME IInv, NEW c \in Clients, NEW d \in Clients, NEW f \in Names,
                    Holding(c, f), Holding(d, f)
             PROVE  c = d
  BY DEF MutualExclusion
<1>1. \A e \in {c, d} : \E s \in Slots : owner[s] = e /\ file_name[s] = f
  BY DEF IInv, Holding, OwnersOwn, MustOwn
<1>2. \A s \in Slots : owner[s] \in {c, d} => count[s] > 0
  BY UseBounds DEF IInv, TypeOK
<1> QED
  BY <1>1, <1>2 DEF IInv, OneEntryPerFile

(* With a table that has room for every name, or without modify_md clients,
   no two clients hold the same file, every count is the number of threads
   that use the entry, no file has two entries, and the server never exits:
   whatever the number of clients and the order of their requests, and whoever
   dies. *)
THEOREM TableCorrect ==
  ASSUME NoOverflow
  PROVE  Spec => [](MutualExclusion /\ CountIsUse /\ OneEntryPerFile /\ NeverExits)
<1>1. Init => IInv
  BY InvInit
<1>2. IInv /\ [Next]_vars => IInv'
  BY InvStep
<1>3. IInv => MutualExclusion /\ CountIsUse /\ OneEntryPerFile /\ NeverExits
  BY InvExcludes DEF IInv
<1> QED
  BY <1>1, <1>2, <1>3, PTL DEF Spec

(* Alone: every count is the number of threads that use the entry, so that it
   never falls below 0 and get_z_mutex() never exits. *)
THEOREM CountsExact ==
  ASSUME NoOverflow
  PROVE  Spec => []CountIsUse
<1> QED
  BY TableCorrect, PTL

(* Alone: a file never has two entries in use, whichever threads look for it. *)
THEOREM OneEntry ==
  ASSUME NoOverflow
  PROVE  Spec => []OneEntryPerFile
<1> QED
  BY TableCorrect, PTL
-----------------------------------------------------------------------------
(***************************************************************************)
(* That the table server, MdMutexTable, implements the abstract lock       *)
(* service, MdLockService.  The invariant above says why each step is one  *)
(* of the service: taking the pthread mutex of an entry acquires the lock  *)
(* of its name, unlocking it releases it, and the answers and the next     *)
(* requests of clients change what they have been told.                    *)
(***************************************************************************)

(* The refinement mapping of ImplementsService, by name. *)
HolderOf(f) ==
    IF \E s \in Slots : InForce(f, s)
    THEN owner[CHOOSE s \in Slots : InForce(f, s)] ELSE None

holderMap == [f \in Names |-> HolderOf(f)]
toldSet == {cf \in Clients \X Names : Holding(cf[1], cf[2])}

(* The lock of a name is held by the owner of the one entry in force for it. *)
LEMMA HolderIsOwner ==
  ASSUME IInv
  PROVE  /\ \A s \in Slots : owner[s] # None => HolderOf(file_name[s]) = owner[s]
         /\ \A f \in Names : (\A s \in Slots : ~InForce(f, s)) => HolderOf(f) = None
<1> USE DEF IInv
<1>1. \A s \in Slots : owner[s] # None => count[s] > 0
  BY UseBounds DEF TypeOK
<1>2. ASSUME NEW s \in Slots, owner[s] # None
      PROVE  HolderOf(file_name[s]) = owner[s]
  <2>1. InForce(file_name[s], s)
    BY <1>2 DEF InForce
  <2>2. \A t \in Slots : InForce(file_name[s], t) => t = s
    BY <1>1, <1>2 DEF InForce, OneEntryPerFile
  <2> QED
    BY <2>1, <2>2 DEF HolderOf
<1> QED
  BY <1>2 DEF HolderOf

(* A step that leaves the entries in force alone leaves the holders alone. *)
LEMMA HoldersKept ==
  ASSUME owner' = owner, \A f \in Names, s \in Slots : InForce(f, s)' <=> InForce(f, s)
  PROVE  holderMap' = holderMap
<1>1. \A f \in Names : HolderOf(f)' = HolderOf(f)
  BY DEF HolderOf
<1> QED
  BY <1>1 DEF holderMap

(* What clients have been told changes only at a client's own steps. *)
LEMMA ToldKept ==
  ASSUME \A d \in Clients, f \in Names : Holding(d, f)' <=> Holding(d, f)
  PROVE  toldSet' = toldSet
<1>1. \A cf \in Clients \X Names : cf[1] \in Clients /\ cf[2] \in Names
  OBVIOUS
<1>2. \A cf \in Clients \X Names : Holding(cf[1], cf[2])' <=> Holding(cf[1], cf[2])
  BY <1>1
<1> QED
  BY <1>2 DEF toldSet
-----------------------------------------------------------------------------
(* A client's step tells it, once the answer is there, that it holds a file,
   or asks for its release, or is a stutter. *)
LEMMA ClientServes ==
  ASSUME IInv, UNCHANGED tableVars, Accept \/ \E c \in Clients : ClientStep(c)
  PROVE  [Service!Next]_<<holderMap, toldSet>>
<1> USE DEF tableVars
<1>1. holderMap' = holderMap
  BY HoldersKept DEF InForce
<1>2. CASE Accept
  <2>1. toldSet' = toldSet
    BY <1>2, ToldKept DEF Accept, Holding
  <2> QED
    BY <1>1, <2>1
<1>3. ASSUME NEW c \in Clients, ClientStep(c)
      PROVE  [Service!Next]_<<holderMap, toldSet>>
  <2> USE DEF IInv, TypeOK, ClientTypeOK
  <2>1. CASE BeginSession(c) \/ Write(c) \/ Crash(c) \/ ReadRequest(c) \/ ReadEof(c)
    <3>1. \A d \in Clients, f \in Names : Holding(d, f)' <=> Holding(d, f)
      BY <2>1 DEF BeginSession, Connect, Write, Crash, ReadRequest, ReadEof, Holding
    <3> QED
      BY <1>1, <3>1, ToldKept
  <2>2. CASE EndSession(c)
    <3> DEFINE f == req[c].file
    <3>1. f \in Names /\ pc[c] = "idle" /\ sess[c] = "locked"
      BY <2>2 DEF EndSession, Connect, NoneRefused
    <3>2. Holding(c, f)
      BY <3>1 DEF Holding
    <3>3. \A d \in Clients, g \in Names : Holding(d, g)' <=> Holding(d, g) /\ d # c
      BY <2>2 DEF EndSession, Connect, Holding
    <3>4. \A d \in Clients, g \in Names : Holding(d, g)' <=> Holding(d, g) /\ <<d, g>> # <<c, f>>
      BY <3>3 DEF Holding
    <3>5. <<c, f>> \in toldSet /\ toldSet' = toldSet \ {<<c, f>>}
      BY <3>1, <3>2, <3>4 DEF toldSet
    <3> QED
      BY <1>1, <3>1, <3>5 DEF Service!Next, Service!AskRelease, holderMap, HolderOf, toldSet
  <2>3. CASE Reply(c)
    <3> DEFINE f == req[c].file
    <3>1. CASE AfterReply(c) = "locked"
      <4>1. ok[c] /\ req[c].op # "UNLOCK" /\ pc[c] = "reply" /\ f \in Names
        BY <2>3, <3>1 DEF Reply, AfterReply
      <4>2. \E s \in Slots : owner[s] = c /\ file_name[s] = f
        BY <4>1 DEF OwnersOwn, MustOwn
      <4>3. holderMap[f] = c
        BY <4>1, <4>2, HolderIsOwner, ClientAssumption DEF holderMap
      <4>4. \A d \in Clients, g \in Names : Holding(d, g)' <=> Holding(d, g) \/ <<d, g>> = <<c, f>>
        BY <2>3, <3>1, <4>1 DEF Reply, Holding
      <4>5. toldSet' = toldSet \union {<<c, f>>}
        BY <4>1, <4>4 DEF toldSet
      <4> QED
        BY <1>1, <4>1, <4>3, <4>5 DEF Service!Next, Service!Tell, holderMap, HolderOf, toldSet
    <3>2. CASE AfterReply(c) # "locked"
      <4>1. \A d \in Clients, g \in Names : Holding(d, g)' <=> Holding(d, g)
        BY <2>3, <3>2 DEF Reply, Holding
      <4> QED
        BY <1>1, <4>1, ToldKept
    <3> QED
      BY <3>1, <3>2
  <2> QED
    BY <1>3, <2>1, <2>2, <2>3 DEF ClientStep
<1> QED
  BY <1>2, <1>3
-----------------------------------------------------------------------------
(* A request thread tells its client nothing before it has answered. *)
LEMMA ThreadTells ==
  ASSUME IInv, NEW c \in Clients, Get(c) \/ Lock(c) \/ TryLock(c) \/ Unlock(c) \/ Put(c), up' = up
  PROVE  toldSet' = toldSet
<1>1. /\ pc[c] # "idle" /\ pc'[c] # "idle"
      /\ UNCHANGED <<req, sess>>
      /\ \A d \in Clients \ {c} : pc'[d] = pc[d]
  BY DEF Get, Exit, GetMatch, GetAlloc, GetFail, Lock, TryLock, TakeMutex, Unlock, Put,
         Done, Goto, OpStep, IInv, TypeOK, ClientTypeOK, Ops
<1>2. \A d \in Clients, f \in Names : Holding(d, f)' <=> Holding(d, f)
  BY <1>1 DEF Holding
<1> QED
  BY <1>2, ToldKept

(* get_z_mutex() and put_z_mutex() change no lock: an entry is given a new
   name only when nobody owns its mutex. *)
LEMMA GetServes ==
  ASSUME IInv, NEW c \in Clients, Get(c) \/ Put(c)
  PROVE  [Service!Next]_<<holderMap, toldSet>>
<1> USE DEF IInv
<1>1. ~Aborts(c)
  BY UseBounds DEF Aborts, TypeOK
<1>2. up' = up /\ owner' = owner
  BY <1>1 DEF Get, GetMatch, GetAlloc, GetFail, Put, tableVars
<1>3. \A s \in Slots : file_name'[s] = file_name[s] \/ owner[s] = None
  <2>1. CASE GetAlloc(c)
    <3>1. PICK s \in Slots : /\ count[s] = 0
                             /\ file_name' = [file_name EXCEPT ![s] = req[c].file]
      BY <2>1 DEF GetAlloc
    <3>2. owner[s] = None
      BY <3>1, UseBounds
    <3> QED
      BY <3>1, <3>2 DEF TypeOK
  <2>2. CASE ~GetAlloc(c)
    BY <1>1, <2>2 DEF Get, GetMatch, GetFail, Put, tableVars
  <2> QED
    BY <2>1, <2>2
<1>4. \A f \in Names, s \in Slots : InForce(f, s)' <=> InForce(f, s)
  BY <1>2, <1>3 DEF InForce
<1>5. holderMap' = holderMap
  BY <1>2, <1>4, HoldersKept
<1>6. toldSet' = toldSet
  BY <1>2, ThreadTells
<1> QED
  BY <1>5, <1>6

(* Taking the mutex of an entry acquires the lock of its name, which nobody
   held: no other entry is in force for it. *)
LEMMA TakeServes ==
  ASSUME IInv, NEW c \in Clients, pc[c] \in {"lock", "trylock"}, TakeMutex(c),
         UNCHANGED <<count, file_name>>, toldSet' = toldSet
  PROVE  Service!Next
<1> USE DEF IInv
<1>1. PICK s \in Slots, f \in Names : s = slot[c] /\ owner[s] = None /\ f = file_name[s]
  BY DEF AtEntry, ThreadAt, TakeMutex, TypeOK
<1>2. owner' = [owner EXCEPT ![s] = c] /\ owner \in [Slots -> Clients \union {None}] /\ c # None
  BY <1>1, ClientAssumption DEF TakeMutex, TypeOK
<1>3. count[s] > 0
  <2>1. c \in Users(s)
    BY <1>1 DEF Users
  <2> QED
    BY <1>1, <2>1, UseBounds DEF TypeOK
<1>4. \A t \in Slots : ~InForce(f, t)
  <2>1. \A t \in Slots : owner[t] # None => count[t] > 0
    BY UseBounds DEF TypeOK
  <2> QED
    BY <1>1, <1>3, <2>1 DEF InForce, OneEntryPerFile
<1>5. holderMap[f] = None
  BY <1>1, <1>4, HolderIsOwner DEF holderMap
<1>6. holderMap' = [holderMap EXCEPT ![f] = c]
  <2>1. HolderOf(f)' = c
    <3>1. owner'[s] = c /\ \A t \in Slots \ {s} : owner'[t] = owner[t]
      BY <1>1, <1>2
    <3>2. \A t \in Slots : InForce(f, t)' <=> t = s
      BY <1>1, <1>2, <1>4, <3>1 DEF InForce
    <3> QED
      BY <1>1, <3>1, <3>2 DEF HolderOf
  <2>2. ASSUME NEW g \in Names, g # f PROVE HolderOf(g)' = HolderOf(g)
    <3>1. \A t \in Slots : InForce(g, t)' <=> InForce(g, t)
      BY <1>1, <1>2, <2>2 DEF InForce
    <3>2. \A t \in Slots : InForce(g, t) => t # s
      BY <1>1, <2>2 DEF InForce
    <3>3. \A t \in Slots : InForce(g, t) => owner'[t] = owner[t]
      BY <1>2, <3>2
    <3> QED
      BY <3>1, <3>3 DEF HolderOf
  <2> QED
    BY <1>1, <2>1, <2>2 DEF holderMap
<1> QED
  BY <1>1, <1>5, <1>6 DEF Service!Next, Service!Acquire, holderMap, HolderOf, toldSet

(* Unlocking the mutex of an entry releases the lock of its name, for the
   client that holds it and has asked to. *)
LEMMA UnlockServes ==
  ASSUME IInv, NEW c \in Clients, Unlock(c)
  PROVE  Service!Next
<1> USE DEF IInv
<1>1. PICK s \in Slots, f \in Names : s = slot[c] /\ owner[s] = c /\ f = file_name[s]
  BY DEF AtEntry, ThreadAt, Unlock, TypeOK
<1>2. /\ owner' = [owner EXCEPT ![s] = None] /\ owner \in [Slots -> Clients \union {None}]
      /\ c # None /\ file_name' = file_name
  BY <1>1, ClientAssumption DEF Unlock, TypeOK
<1>3. \A t \in Slots : InForce(f, t) => t = s
  <2>1. \A t \in Slots : owner[t] # None => count[t] > 0
    BY UseBounds DEF TypeOK
  <2> QED
    BY <1>1, <1>2, <2>1 DEF InForce, OneEntryPerFile
<1>4. holderMap[f] = c
  BY <1>1, <1>2, HolderIsOwner DEF holderMap
<1>5. <<c, f>> \notin toldSet
  BY DEF toldSet, Holding, Unlock
<1>6. toldSet' = toldSet
  BY ThreadTells DEF Unlock
<1>7. holderMap' = [holderMap EXCEPT ![f] = None]
  <2>1. owner'[s] = None /\ \A t \in Slots \ {s} : owner'[t] = owner[t]
    BY <1>1, <1>2
  <2>2. HolderOf(f)' = None
    <3>1. \A t \in Slots : ~InForce(f, t)'
      BY <1>2, <1>3, <2>1 DEF InForce
    <3> QED
      BY <3>1 DEF HolderOf
  <2>3. ASSUME NEW g \in Names, g # f PROVE HolderOf(g)' = HolderOf(g)
    <3>1. \A t \in Slots : InForce(g, t)' <=> InForce(g, t)
      BY <1>1, <1>2, <2>1, <2>3 DEF InForce
    <3>2. \A t \in Slots : InForce(g, t) => owner'[t] = owner[t]
      BY <1>1, <2>1, <2>3 DEF InForce
    <3> QED
      BY <3>1, <3>2 DEF HolderOf
  <2> QED
    BY <2>2, <2>3 DEF holderMap
<1> QED
  BY <1>4, <1>5, <1>6, <1>7 DEF Service!Next, Service!Release, holderMap, HolderOf, toldSet
-----------------------------------------------------------------------------
(* Every step of the table server is a step of the service or a stutter. *)
LEMMA StepServes == IInv /\ [Next]_vars => [Service!Next]_<<holderMap, toldSet>>
<1> SUFFICES ASSUME IInv, [Next]_vars PROVE [Service!Next]_<<holderMap, toldSet>>
  OBVIOUS
<1>1. CASE Accept /\ UNCHANGED tableVars
  BY <1>1, ClientServes
<1>2. ASSUME NEW c \in Clients, ClientStep(c), UNCHANGED tableVars
      PROVE  [Service!Next]_<<holderMap, toldSet>>
  BY <1>2, ClientServes
<1>3. ASSUME NEW c \in Clients, Thread(c)
      PROVE  [Service!Next]_<<holderMap, toldSet>>
  <2>1. CASE Get(c) \/ Put(c)
    BY <2>1, GetServes
  <2>2. CASE (Lock(c) \/ TryLock(c)) /\ TakeMutex(c)
    <3>1. toldSet' = toldSet
      BY <2>2, ThreadTells DEF Lock, TryLock
    <3> QED
      BY <2>2, <3>1, TakeServes DEF Lock, TryLock
  <2>3. CASE TryLock(c) /\ ~TakeMutex(c)
    <3>1. toldSet' = toldSet
      BY <2>3, ThreadTells DEF TryLock
    <3>2. UNCHANGED <<owner, file_name>>
      BY <2>3 DEF TryLock
    <3>3. holderMap' = holderMap
      BY <3>2, HoldersKept DEF InForce
    <3> QED
      BY <3>1, <3>3
  <2>4. CASE Unlock(c)
    BY <2>4, UnlockServes
  <2> QED
    BY <1>3, <2>1, <2>2, <2>3, <2>4 DEF Thread, Lock
<1>4. CASE UNCHANGED vars
  <2>1. UNCHANGED <<owner, file_name, pc, sess, req>>
    BY <1>4 DEF vars, clientVars, tableVars
  <2>2. holderMap' = holderMap
    BY <2>1, HoldersKept DEF InForce
  <2>3. toldSet' = toldSet
    BY <2>1, ToldKept DEF Holding
  <2> QED
    BY <2>2, <2>3
<1> QED
  BY <1>1, <1>2, <1>3, <1>4 DEF Next

(* At the start nobody holds a lock or has been told so. *)
LEMMA InitServes == Init => Service!Init
<1> SUFFICES ASSUME Init PROVE Service!Init
  OBVIOUS
<1>1. \A f \in Names : HolderOf(f) = None
  BY DEF Init, HolderOf, InForce
<1>2. \A d \in Clients, f \in Names : ~Holding(d, f)
  BY DEF Init, ClientInit, Holding
<1>3. holderMap = [f \in Names |-> None] /\ toldSet = {}
  BY <1>1, <1>2 DEF holderMap, toldSet
<1> QED
  BY <1>3 DEF Service!Init, holderMap, HolderOf, toldSet

(* With a table that has room for every name, or without modify_md clients,
   the server is the lock service: a lock is given only when nobody holds it,
   is reported only while it is held, and is taken away only from a client that
   asked to release it, for any clients, files and number of entries. *)
THEOREM TableImplementsService ==
  ASSUME NoOverflow
  PROVE  Spec => ImplementsService
<1>1. Init => IInv /\ Service!Init
  BY InvInit, InitServes
<1>2. IInv /\ [Next]_vars => IInv'
  BY InvStep
<1>3. IInv /\ [Next]_vars => [Service!Next]_<<holderMap, toldSet>>
  BY StepServes
<1> QED
  BY <1>1, <1>2, <1>3, PTL DEF Spec, ImplementsService, Service!Spec, holderMap, toldSet, HolderOf
=============================================================================
