--------------------------- MODULE MdMutexClient ---------------------------
(***************************************************************************)
(* The part of the distributed metadata mutex (md_distribute_mutex/) that  *)
(* both lock servers share: the client programs, their one-request TCP     *)
(* connections, and the accept loop of the server's main thread.           *)
(*                                                                         *)
(* A client runs one request at a time: md_mutex_func() connects, writes   *)
(* one packet and blocks in read() until the answer comes.  The server     *)
(* gives every request a thread of its own, so the thread that serves the  *)
(* pending request of client c is identified with c; pc[c] says how far    *)
(* the request of c has come:                                              *)
(*   idle       no request (the previous answer, if any, has been read)    *)
(*   connected  connect() done, the packet not written yet                 *)
(*   sent       the packet is in the socket                                *)
(*   get .. put steps of the server's thread_func(), see the server modules*)
(*   reply      thread_func() is about to write the answer                 *)
(***************************************************************************)
EXTENDS Integers, Sequences, FiniteSets

CONSTANTS
    Clients,    \* the client processes
    Modifiers,  \* those that run modify_md, which unlocks whatever lock said;
                \* the others use lock_file, try_lock_file and unlock_file and
                \* release only what they were told they hold
    Files,      \* the file names clients ask for
    EmptyName,  \* the name "", which no client asks for
    None        \* a NULL pointer, or no client

ASSUME ClientAssumption ==
    /\ IsFiniteSet(Clients)
    /\ IsFiniteSet(Files)
    /\ Modifiers \subseteq Clients
    /\ None \notin Clients
    /\ EmptyName \notin Files

VARIABLES
    up,       \* the server process has not called exit()
    backlog,  \* connections completed and not accepted yet, oldest first
    reading,  \* the connection main() has accepted and is reading, or None
    pc,       \* progress of the request of each client
    req,      \* its packet: md_mutex_req_packet
    ok,       \* ok_or_not of the answer under construction
    sess,     \* what the client program knows: start | locked | failed
    alive     \* the client process has not died

clientVars == <<up, backlog, reading, pc, req, ok, sess, alive>>

Names == Files \union {EmptyName}
Ops == {"LOCK", "TRY", "UNLOCK"}
NoRequest == [op |-> "LOCK", file |-> EmptyName]
ThreadSteps == {"get", "scan", "lock", "trylock", "unlock", "put", "reply"}

ClientTypeOK ==
    /\ up \in BOOLEAN
    /\ backlog \in Seq(Clients)
    /\ reading \in Clients \union {None}
    /\ pc \in [Clients -> {"idle", "connected", "sent"} \union ThreadSteps]
    /\ req \in [Clients -> [op : Ops, file : Names]]
    /\ ok \in [Clients -> BOOLEAN]
    /\ sess \in [Clients -> {"start", "locked", "failed"}]
    /\ alive \in [Clients -> BOOLEAN]

ClientInit ==
    /\ up = TRUE
    /\ backlog = <<>>
    /\ reading = None
    /\ pc = [c \in Clients |-> "idle"]
    /\ req = [c \in Clients |-> NoRequest]
    /\ ok = [c \in Clients |-> TRUE]
    /\ sess = [c \in Clients |-> "start"]
    /\ alive = [c \in Clients |-> TRUE]
-----------------------------------------------------------------------------
(* md_mutex_func up to connect(): the kernel queues the connection. *)
Connect(c, o, f) ==
    /\ up /\ alive[c] /\ pc[c] = "idle"
    /\ req' = [req EXCEPT ![c] = [op |-> o, file |-> f]]
    /\ pc' = [pc EXCEPT ![c] = "connected"]
    /\ backlog' = Append(backlog, c)
    /\ UNCHANGED <<up, reading, ok, sess, alive>>

(* modify_md always locks; the other clients may lock or try. *)
BeginSession(c) ==
    /\ sess[c] = "start"
    /\ \E f \in Files, o \in {"LOCK", "TRY"} :
          /\ c \in Modifiers => o = "LOCK"
          /\ Connect(c, o, f)

(* "locked": the answer was OK.  "failed": modify_md got NOT_OK and goes on
   to its unlock all the same. *)
EndSession(c) ==
    /\ sess[c] \in {"locked", "failed"}
    /\ Connect(c, "UNLOCK", req[c].file)

Write(c) ==
    /\ alive[c] /\ pc[c] = "connected"
    /\ pc' = [pc EXCEPT ![c] = "sent"]
    /\ UNCHANGED <<up, backlog, reading, req, ok, sess, alive>>

(* A client process may die at any point; its sockets close. *)
Crash(c) ==
    /\ alive[c]
    /\ alive' = [alive EXCEPT ![c] = FALSE]
    /\ UNCHANGED <<up, backlog, reading, pc, req, ok, sess>>
-----------------------------------------------------------------------------
(* The server's main(): accept() one connection, read() its packet (the
   whole loop waits here), start its thread, accept the next one. *)
AcceptWhenIdle ==
    /\ up /\ reading = None /\ backlog # <<>>
    /\ \A c \in Clients : pc[c] \notin ThreadSteps
    /\ reading' = Head(backlog)
    /\ backlog' = Tail(backlog)
    /\ UNCHANGED <<up, pc, req, ok, sess, alive>>

Accept ==
    /\ up /\ reading = None /\ backlog # <<>>
    /\ reading' = Head(backlog)
    /\ backlog' = Tail(backlog)
    /\ UNCHANGED <<up, pc, req, ok, sess, alive>>

ReadRequest(c) ==
    /\ up /\ reading = c /\ pc[c] = "sent"
    /\ pc' = [pc EXCEPT ![c] = "get"]
    /\ reading' = None
    /\ UNCHANGED <<up, backlog, req, ok, sess, alive>>

(* The client died between connect() and write(): read() returns 0, which
   main() does not test, and the zeroed packet is MD_LOCK of the name "". *)
ReadEof(c) ==
    /\ up /\ reading = c /\ pc[c] = "connected" /\ ~alive[c]
    /\ req' = [req EXCEPT ![c] = [op |-> "LOCK", file |-> EmptyName]]
    /\ sess' = [sess EXCEPT ![c] = "start"]
    /\ pc' = [pc EXCEPT ![c] = "get"]
    /\ reading' = None
    /\ UNCHANGED <<up, backlog, ok, alive>>

(* thread_func()'s write() and the client's read() of the answer.  The client
   keeps the file name as long as it has something to unlock. *)
AfterReply(c) ==
    IF req[c].op = "UNLOCK" THEN "start"
    ELSE IF ok[c] THEN "locked"
    ELSE IF c \in Modifiers THEN "failed" ELSE "start"

Reply(c) ==
    /\ up /\ pc[c] = "reply"
    /\ pc' = [pc EXCEPT ![c] = "idle"]
    /\ sess' = [sess EXCEPT ![c] = AfterReply(c)]
    /\ req' = [req EXCEPT ![c] = IF AfterReply(c) = "start" THEN NoRequest ELSE @]
    /\ ok' = [ok EXCEPT ![c] = TRUE]
    /\ UNCHANGED <<up, backlog, reading, alive>>

ClientStep(c) ==
    \/ BeginSession(c) \/ EndSession(c) \/ Write(c) \/ Crash(c)
    \/ ReadRequest(c) \/ ReadEof(c) \/ Reply(c)
-----------------------------------------------------------------------------
(* Client c has been told that it holds f and has not asked to release it. *)
Holding(c, f) ==
    /\ sess[c] = "locked" /\ pc[c] = "idle" /\ req[c].file = f

(* A client that lives does what its program says: the write() that follows
   connect(), and, in modify_md, the unlock after the lock.  lock_file and
   try_lock_file end with the lock held, and nobody has to run unlock_file;
   nor has anybody to ask for a lock. *)
ClientFairness ==
    /\ WF_clientVars(Accept)
    /\ \A c \in Modifiers : WF_clientVars(EndSession(c))
    /\ \A c \in Clients :
          /\ WF_clientVars(Write(c))
          /\ WF_clientVars(ReadRequest(c))
          /\ WF_clientVars(ReadEof(c))
          /\ WF_clientVars(Reply(c))
=============================================================================
