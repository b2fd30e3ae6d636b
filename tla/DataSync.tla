------------------------------ MODULE DataSync ------------------------------
(***************************************************************************)
(* data_sync: c_sync brings a file of the client up to date with the       *)
(* server's, block by block.  main() of c_sync sends the MD5 of every      *)
(* block, s_sync answers with the block or with the word that it is the    *)
(* same, and the thread do_delta_blk() writes the answers to the file.     *)
(* The two threads of c_sync have one descriptor of the file, hence one    *)
(* offset, and take no lock; lseek(), read() and write() are each atomic.  *)
(*                                                                         *)
(* A file is a sequence of bytes.  MD5 is taken to be injective: a digest  *)
(* is the bytes it was computed from.                                      *)
(***************************************************************************)
EXTENDS Integers, Sequences, FiniteSets

CONSTANTS
    BLK_SZ,       \* bytes in a block
    ClientFiles,  \* what the client may begin with
    ServerFiles,  \* what the server may have
    NoServerFile, \* the server has no file of that name
    Buffer        \* bound: the messages a socket holds in one direction

ASSUME SyncAssumption == BLK_SZ \in Nat \ {0} /\ Buffer \in Nat \ {0}

ASSUME SyncFilesAssumption ==
    /\ \A f \in ClientFiles \union ServerFiles : f \in Seq(Nat)
    /\ NoServerFile \notin ServerFiles

VARIABLES
    cfile,     \* the file of the client
    sfile,     \* the file of the server, or NoServerFile
    offset,    \* of the client's descriptor
    main,      \* main() of c_sync: step, i, file_sz, block_nr and buf
    thread,    \* do_delta_blk(): step, i and the block to be written
    server,    \* main() of s_sync: step, i and the answer to be written
    toServer,  \* the two directions of the connection
    toClient,
    torn       \* history: a thread has read or written where it did not seek

client == <<cfile, offset, torn>>
syncVars == <<client, sfile, main, thread, server, toServer, toClient>>

(* The number of blocks of a file of n bytes, and the bytes of block b of f. *)
BlocksOf(n) == (n + BLK_SZ - 1) \div BLK_SZ
At(f, o, n) == SubSeq(f, o + 1, o + n)
Least(a, b) == IF a < b THEN a ELSE b
BlockOf(f, b) == At(f, b * BLK_SZ, Least(BLK_SZ, Len(f) - b * BLK_SZ))

(* write() at offset o: a hole between the old end and o reads as zeros. *)
Overwritten(f, o, d) ==
    [k \in 1 .. IF Len(f) > o + Len(d) THEN Len(f) ELSE o + Len(d) |->
        IF k \in o + 1 .. o + Len(d) THEN d[k - o]
        ELSE IF k <= Len(f) THEN f[k] ELSE 0]

NoBlock == [same |-> TRUE, offset |-> 0, data |-> <<>>]
Bound == BlocksOf(IF sfile = NoServerFile THEN 0 ELSE Len(sfile))

SyncTypeOK ==
    /\ offset \in Nat /\ DOMAIN cfile = 1 .. Len(cfile)
    /\ main.step \in {"hello", "open", "entry", "read", "send", "join", "done"}
    /\ thread.step \in {"none", "receive", "seek", "write", "done"}
    /\ server.step \in {"open", "receive", "send", "closed"}
    /\ main.i \in 0 .. main.block_nr /\ thread.i \in 0 .. main.block_nr
    /\ server.i \in 0 .. Bound
    /\ Len(main.buf) <= BLK_SZ
    /\ Len(toServer) <= Buffer /\ Len(toClient) <= Buffer
    /\ torn \in BOOLEAN

SyncInit ==
    /\ cfile \in ClientFiles /\ sfile \in ServerFiles \union {NoServerFile}
    /\ offset = 0
    /\ main = [step |-> "hello", i |-> 0, file_sz |-> Len(cfile), block_nr |-> 0, buf |-> <<>>]
    /\ thread = [step |-> "none", i |-> 0, block |-> NoBlock]
    /\ server = [step |-> "open", i |-> 0, answer |-> NoBlock]
    /\ toServer = <<>> /\ toClient = <<>>
    /\ torn = FALSE
-----------------------------------------------------------------------------
(* Write() to a socket blocks while its buffer is full; Read() waits for what is
   not there yet, and goes on for ever when the other side has closed. *)
Write(socket, message) == Len(socket) < Buffer /\ socket' = Append(socket, message)

(* The chunk_file_header, ... *)
SendHeader ==
    /\ main.step = "hello"
    /\ Write(toServer, "header")
    /\ main' = [main EXCEPT !.step = "open"]
    /\ UNCHANGED <<client, sfile, thread, server, toClient>>

(* ... the server_file_header, which is not sent when open() fails, ... *)
OpenFile ==
    /\ server.step = "open" /\ toServer # <<>>
    /\ toServer' = Tail(toServer)
    /\ IF sfile = NoServerFile
       THEN /\ server' = [server EXCEPT !.step = "closed"]
            /\ UNCHANGED toClient
       ELSE /\ server' = [server EXCEPT !.step = IF Bound = 0 THEN "closed" ELSE "receive"]
            /\ Write(toClient, Len(sfile))
    /\ UNCHANGED <<client, sfile, main, thread>>

(* ... and the beginning of the client: a file that is too long is cut, and the
   blocks are those of the server's file. *)
CutNothing(n) == cfile
Cut(n) == IF n < main.file_sz THEN SubSeq(cfile, 1, n) ELSE cfile

BlocksHere(n) == BlocksOf(Len(cfile))
BlocksThere(n) == BlocksOf(n)

Begin ==
    /\ main.step = "open" /\ toClient # <<>>
    /\ LET n == Head(toClient) IN
          /\ cfile' = Cut(n)
          /\ main' = [main EXCEPT !.step = "entry", !.file_sz = Least(n, @),
                                  !.block_nr = BlocksThere(n)]
    /\ toClient' = Tail(toClient)
    /\ thread' = [thread EXCEPT !.step = "receive"]
    /\ UNCHANGED <<sfile, offset, server, toServer, torn>>
-----------------------------------------------------------------------------
(* main() of c_sync, block i: past the end of the file there is no MD5, ... *)
EntryOffset == main.i * BLK_SZ
EntryLen == Least(BLK_SZ, main.file_sz - EntryOffset)

OneBlockMore == main.i <= main.block_nr
MoreBlocks == main.i < main.block_nr

SeekEntry ==
    /\ main.step = "entry" /\ MoreBlocks
    /\ IF main.file_sz <= EntryOffset
       THEN /\ main' = [main EXCEPT !.step = "send", !.buf = <<>>]
            /\ UNCHANGED offset
       ELSE /\ offset' = EntryOffset
            /\ main' = [main EXCEPT !.step = "read", !.buf = <<>>]
    /\ UNCHANGED <<cfile, sfile, thread, server, toServer, toClient, torn>>

(* ... elsewhere Read() asks for the bytes of the block until it has them, ... *)
ReadEntry ==
    /\ main.step = "read"
    /\ LET got == Least(EntryLen - Len(main.buf), Len(cfile) - offset) IN
          /\ got > 0
          /\ main' = [main EXCEPT !.buf = @ \o At(cfile, offset, got),
                                  !.step = IF Len(main.buf) + got = EntryLen THEN "send" ELSE "read"]
          /\ offset' = offset + got
    /\ torn' = (torn \/ offset # EntryOffset + Len(main.buf))
    /\ UNCHANGED <<cfile, sfile, thread, server, toServer, toClient>>

(* ... and the chunk_block_entry is sent. *)
SendEntry ==
    /\ main.step = "send"
    /\ Write(toServer, [offset |-> EntryOffset, md5 |-> main.buf])
    /\ main' = [main EXCEPT !.step = "entry", !.i = @ + 1]
    /\ UNCHANGED <<client, sfile, thread, server, toClient>>

AllSent ==
    /\ main.step = "entry" /\ ~MoreBlocks
    /\ main' = [main EXCEPT !.step = "join"]
    /\ UNCHANGED <<client, sfile, thread, server, toServer, toClient>>

(* pthread_join() and close(). *)
Join ==
    /\ main.step = "join" /\ thread.step = "done"
    /\ main' = [main EXCEPT !.step = "done"]
    /\ UNCHANGED <<client, sfile, thread, server, toServer, toClient>>
-----------------------------------------------------------------------------
(* main() of s_sync, block i.  The MD5 is always of BLK_SZ bytes of the buffer,
   also for a last block that is shorter, which is never found the same. *)
SameBlock(entry, block) == Len(block) = BLK_SZ /\ entry.md5 = block

Compare ==
    /\ server.step = "receive" /\ toServer # <<>>
    /\ LET entry == Head(toServer)
           block == BlockOf(sfile, server.i)
           same == SameBlock(entry, block)
       IN server' = [server EXCEPT !.step = "send",
                        !.answer = [same |-> same, offset |-> entry.offset,
                                    data |-> IF same THEN <<>> ELSE block]]
    /\ toServer' = Tail(toServer)
    /\ UNCHANGED <<client, sfile, main, thread, toClient>>

SendAnswer ==
    /\ server.step = "send"
    /\ Write(toClient, server.answer)
    /\ server' = [server EXCEPT !.i = @ + 1, !.answer = NoBlock,
                                !.step = IF server.i + 1 = Bound THEN "closed" ELSE "receive"]
    /\ UNCHANGED <<client, sfile, main, thread, toServer>>
-----------------------------------------------------------------------------
(* do_delta_blk(), answer i: nothing to do, or the offset ... *)
Receive ==
    /\ thread.step = "receive" /\ thread.i < main.block_nr /\ toClient # <<>>
    /\ LET block == Head(toClient) IN
          thread' = IF block.same THEN [thread EXCEPT !.i = @ + 1]
                    ELSE [thread EXCEPT !.step = "seek", !.block = block]
    /\ toClient' = Tail(toClient)
    /\ UNCHANGED <<client, sfile, main, server, toServer>>

SeekBlock ==
    /\ thread.step = "seek"
    /\ offset' = thread.block.offset
    /\ thread' = [thread EXCEPT !.step = "write"]
    /\ UNCHANGED <<cfile, sfile, main, server, toServer, toClient, torn>>

(* ... and the bytes of the block. *)
WriteBlock ==
    /\ thread.step = "write"
    /\ cfile' = Overwritten(cfile, offset, thread.block.data)
    /\ offset' = offset + Len(thread.block.data)
    /\ torn' = (torn \/ offset # thread.block.offset)
    /\ thread' = [thread EXCEPT !.step = "receive", !.i = @ + 1, !.block = NoBlock]
    /\ UNCHANGED <<sfile, main, server, toServer, toClient>>

ThreadExit ==
    /\ thread.step = "receive" /\ thread.i = main.block_nr
    /\ thread' = [thread EXCEPT !.step = "done"]
    /\ UNCHANGED <<client, sfile, main, server, toServer, toClient>>

Main == SendHeader \/ Begin \/ SeekEntry \/ ReadEntry \/ SendEntry \/ AllSent \/ Join
Thread == Receive \/ SeekBlock \/ WriteBlock \/ ThreadExit
Server == OpenFile \/ Compare \/ SendAnswer

SyncNext == Main \/ Thread \/ Server

SyncSpec == SyncInit /\ [][SyncNext]_syncVars

(* Each of the three goes on when it can. *)
SyncFairSpec == SyncSpec /\ WF_syncVars(Main) /\ WF_syncVars(Thread) /\ WF_syncVars(Server)
-----------------------------------------------------------------------------
(* When c_sync returns its file is the server's, ... *)
Synced == main.step = "done" => cfile = sfile

(* ... unless a thread found the offset moved by the other one: every block
   that differs is sent and put in its place, also past the old end. *)
SyncedUnlessTorn == torn \/ Synced

(* Neither side waits for ever for the other, however small the buffers: while
   main() sends, the thread empties the other direction.  The exceptions are a
   server that has no such file, which closes while the client reads on, and a
   Read() that finds the offset moved to the end of the file. *)
SyncEnds == <>(main.step = "done" \/ torn \/ sfile = NoServerFile)
=============================================================================
