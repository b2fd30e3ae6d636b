----------------------------- MODULE SyncProofs -----------------------------
(***************************************************************************)
(* Proofs about the two programs that bring a file up to date over a       *)
(* connection.  First DataSync, c_sync and s_sync, for files of every      *)
(* length, blocks of every size and sockets that hold any number of        *)
(* messages.  Then RollingSync, src and dst, for all files, block sizes,   *)
(* numbers of chains and moduli: the hash chains, the derived checksums,   *)
(* and what dst ends with.                                                 *)
(***************************************************************************)
EXTENDS DataSync, RollingSync, FiniteSetTheorems, WellFoundedInduction, TLAPS

-----------------------------------------------------------------------------
(* What the two programs keep and send. *)
Blocks == [same : BOOLEAN, offset : Nat, data : Seq(Nat)]
Entries == [offset : Nat, md5 : Seq(Nat)]

Mains == [step : {"hello", "open", "entry", "read", "send", "join", "done"},
          i : Nat, file_sz : Nat, block_nr : Nat, buf : Seq(Nat)]
Threads == [step : {"none", "receive", "seek", "write", "done"}, i : Nat, block : Blocks]
Servers == [step : {"open", "receive", "send", "closed"}, i : Nat, answer : Blocks]

Typed ==
    /\ cfile \in Seq(Nat) /\ offset \in Nat /\ torn \in BOOLEAN
    /\ sfile # NoServerFile => sfile \in Seq(Nat)
    /\ main \in Mains /\ Len(main.buf) <= BLK_SZ
    /\ thread \in Threads /\ server \in Servers
    /\ Len(toServer) <= Buffer /\ Len(toClient) <= Buffer

(* Until the client has the length of the server's file ... *)
Begun == main.step \notin {"hello", "open"}

Handshake ==
    ~Begun =>
        /\ ~torn /\ main.i = 0 /\ main.block_nr = 0 /\ main.file_sz = Len(cfile)
        /\ thread.step = "none" /\ thread.i = 0 /\ server.i = 0
        /\ toServer \in Seq({"header"}) /\ toClient \in Seq(Nat)
        /\ main.step = "hello" => server.step = "open" /\ toServer = <<>> /\ toClient = <<>>
        /\ main.step = "open" =>
              IF server.step = "open" THEN toServer = <<"header">> /\ toClient = <<>>
              ELSE /\ toServer = <<>> /\ server.step # "send"
                   /\ toClient = IF sfile = NoServerFile THEN <<>> ELSE <<Len(sfile)>>
                   /\ server.step = "closed" <=> Bound = 0

(* ... and from then on: the block that the next entry in the connection is of, and
   that of the next answer. *)
SrvAt == IF server.step = "send" THEN server.i + 1 ELSE server.i
ThrAt == IF thread.step \in {"seek", "write"} THEN thread.i + 1 ELSE thread.i

(* The three threads count the same blocks; *)
Counters ==
    Begun =>
        /\ sfile # NoServerFile /\ main.block_nr = Bound
        /\ thread.step # "none" /\ server.step # "open"
        /\ SrvAt + Len(toServer) = main.i /\ ThrAt + Len(toClient) = server.i
        /\ main.i <= Bound
        /\ main.step \in {"read", "send"} => main.i < Bound
        /\ main.step \in {"join", "done"} => main.i = Bound
        /\ server.step = "closed" <=> server.i = Bound
        /\ thread.step = "done" => thread.i = Bound
        /\ main.step = "done" => thread.step = "done"

(* an answer is for its block and, unless it says "same", has the server's bytes; *)
AnswerTo(s, a, b) == a.offset = b * BLK_SZ /\ (~a.same => a.data = BlockOf(s, b))

Lanes ==
    Begun =>
        /\ toServer \in Seq(Entries) /\ toClient \in Seq(Blocks)
        /\ \A k \in 1 .. Len(toServer) : toServer[k].offset = (SrvAt + k - 1) * BLK_SZ
        /\ \A k \in 1 .. Len(toClient) : AnswerTo(sfile, toClient[k], ThrAt + k - 1)
        /\ server.step = "send" => AnswerTo(sfile, server.answer, server.i)
        /\ thread.step \in {"seek", "write"} =>
              AnswerTo(sfile, thread.block, thread.i) /\ ~thread.block.same

(* and as long as no thread has been elsewhere in the file, the bytes that were
   digested are still there, and a block that is "same" or written is in place. *)
HasBytes(f, b, m) ==
    \A j \in 1 .. Len(m) : b * BLK_SZ + j <= Len(f) /\ f[b * BLK_SZ + j] = m[j]

InPlace(f, s, b) ==
    \A k \in 1 .. Len(s) :
        b * BLK_SZ < k /\ k <= b * BLK_SZ + BLK_SZ => k <= Len(f) /\ f[k] = s[k]

Content ==
    Begun /\ ~torn =>
        /\ Len(cfile) <= Len(sfile)
        /\ \A b \in 0 .. thread.i - 1 : InPlace(cfile, sfile, b)
        /\ \A k \in 1 .. Len(toServer) : HasBytes(cfile, SrvAt + k - 1, toServer[k].md5)
        /\ main.step \in {"read", "send"} => HasBytes(cfile, main.i, main.buf)
        /\ \A k \in 1 .. Len(toClient) : toClient[k].same => InPlace(cfile, sfile, ThrAt + k - 1)
        /\ server.step = "send" /\ server.answer.same => InPlace(cfile, sfile, server.i)

IInv == Typed /\ Handshake /\ Counters /\ Lanes /\ Content
-----------------------------------------------------------------------------
(* Sequences: what Append, Tail, \o and At give. *)
LEMMA AppendGives ==
  ASSUME NEW S, NEW s \in Seq(S), NEW x \in S
  PROVE  /\ Append(s, x) \in Seq(S) /\ Len(Append(s, x)) = Len(s) + 1
         /\ \A k \in 1 .. Len(s) : Append(s, x)[k] = s[k]
         /\ Append(s, x)[Len(s) + 1] = x
  OBVIOUS

LEMMA TailGives ==
  ASSUME NEW S, NEW s \in Seq(S), s # <<>>
  PROVE  /\ Tail(s) \in Seq(S) /\ Len(s) \in Nat /\ Len(s) > 0 /\ Len(Tail(s)) = Len(s) - 1
         /\ \A k \in 1 .. Len(s) - 1 : Tail(s)[k] = s[k + 1]
         /\ Head(s) \in S /\ Head(s) = s[1]
  OBVIOUS

LEMMA CatGives ==
  ASSUME NEW s \in Seq(Nat), NEW t \in Seq(Nat)
  PROVE  /\ s \o t \in Seq(Nat) /\ Len(s \o t) = Len(s) + Len(t)
         /\ \A k \in 1 .. Len(s) : (s \o t)[k] = s[k]
         /\ \A k \in 1 .. Len(t) : (s \o t)[Len(s) + k] = t[k]
  OBVIOUS

LEMMA AtGives ==
  ASSUME NEW s \in Seq(Nat), NEW o \in Nat, NEW n \in Nat, o + n <= Len(s)
  PROVE  /\ At(s, o, n) \in Seq(Nat) /\ Len(At(s, o, n)) = n
         /\ \A k \in 1 .. n : At(s, o, n)[k] = s[o + k]
  BY DEF At

(* write() gives a file: the bytes written, the others as they were. *)
LEMMA OverwrittenGives ==
  ASSUME NEW f \in Seq(Nat), NEW o \in Nat, NEW d \in Seq(Nat)
  PROVE  /\ Overwritten(f, o, d) \in Seq(Nat)
         /\ Len(Overwritten(f, o, d)) = IF Len(f) > o + Len(d) THEN Len(f) ELSE o + Len(d)
         /\ \A k \in 1 .. Len(d) : Overwritten(f, o, d)[o + k] = d[k]
         /\ \A k \in 1 .. Len(f) : k <= o \/ k > o + Len(d) => Overwritten(f, o, d)[k] = f[k]
<1> DEFINE n == IF Len(f) > o + Len(d) THEN Len(f) ELSE o + Len(d)
           w == Overwritten(f, o, d)
<1>1. n \in Nat /\ Len(f) \in Nat /\ Len(d) \in Nat /\ n >= o + Len(d) /\ n >= Len(f)
  OBVIOUS
<1>2. w = [k \in 1 .. n |-> IF k \in o + 1 .. o + Len(d) THEN d[k - o]
                            ELSE IF k <= Len(f) THEN f[k] ELSE 0]
  BY DEF Overwritten
<1>3. \A k \in 1 .. n : w[k] \in Nat
  <2> SUFFICES ASSUME NEW k \in 1 .. n PROVE w[k] \in Nat
    OBVIOUS
  <2>1. CASE k \in o + 1 .. o + Len(d)
    <3>1. w[k] = d[k - o] /\ k - o \in 1 .. Len(d)
      BY <1>1, <1>2, <2>1
    <3> QED
      BY <3>1
  <2>2. CASE k \notin o + 1 .. o + Len(d)
    BY <1>1, <1>2, <2>2
  <2> QED
    BY <2>1, <2>2
<1> HIDE DEF n
<1>4. w \in Seq(Nat) /\ Len(w) = n
  <2>1. w \in [1 .. n -> Nat]
    BY <1>2, <1>3
  <2> QED
    BY <1>1, <2>1
<1>5. \A k \in 1 .. Len(d) : w[o + k] = d[k]
  BY <1>1, <1>2
<1>6. \A k \in 1 .. Len(f) : k <= o \/ k > o + Len(d) => w[k] = f[k]
  BY <1>1, <1>2
<1> QED
  BY <1>4, <1>5, <1>6 DEF n

(* The first byte of a block, in multiplication. *)
LEMMA Stride ==
  /\ BLK_SZ \in Nat /\ BLK_SZ > 0
  /\ \A b \in Nat : b * BLK_SZ \in Nat /\ (b + 1) * BLK_SZ = b * BLK_SZ + BLK_SZ
  /\ \A b, c \in Nat : b < c => b * BLK_SZ + BLK_SZ <= c * BLK_SZ
<1>1. \A b \in Nat : b * BLK_SZ \in Nat /\ (b + 1) * BLK_SZ = b * BLK_SZ + BLK_SZ
  BY SyncAssumption
<1>2. ASSUME NEW b \in Nat, NEW c \in Nat, b < c
      PROVE  b * BLK_SZ + BLK_SZ <= c * BLK_SZ
  <2>1. (b + 1) * BLK_SZ <= c * BLK_SZ
    BY <1>2, SyncAssumption
  <2> QED
    BY <1>1, <2>1
<1> QED
  BY <1>1, <1>2, SyncAssumption

(* The blocks of a file of n bytes: one begins in it, and every byte is in one. *)
LEMMA BlocksCover ==
  ASSUME NEW n \in Nat
  PROVE  /\ BlocksOf(n) \in Nat
         /\ \A b \in Nat : b < BlocksOf(n) => b * BLK_SZ < n
         /\ \A k \in 1 .. n : \E b \in 0 .. BlocksOf(n) - 1 :
               b * BLK_SZ < k /\ k <= b * BLK_SZ + BLK_SZ
<1> DEFINE m == BlocksOf(n)
<1>1. \A k \in Nat : /\ k \div BLK_SZ \in Nat
                     /\ (k \div BLK_SZ) * BLK_SZ <= k
                     /\ k < (k \div BLK_SZ) * BLK_SZ + BLK_SZ
  BY SyncAssumption
<1>2. n + BLK_SZ - 1 \in Nat
  BY Stride
<1>3. m \in Nat /\ m * BLK_SZ <= n + BLK_SZ - 1 /\ n <= m * BLK_SZ
  <2>1. m \in Nat /\ m * BLK_SZ <= n + BLK_SZ - 1 /\ n + BLK_SZ - 1 < m * BLK_SZ + BLK_SZ
    BY <1>1, <1>2 DEF BlocksOf
  <2>2. m * BLK_SZ \in Nat
    BY <2>1, Stride
  <2> QED
    BY <2>1, <2>2, Stride
<1> HIDE DEF m
<1>4. ASSUME NEW b \in Nat, b < m PROVE b * BLK_SZ < n
  <2>1. b * BLK_SZ + BLK_SZ <= m * BLK_SZ /\ b * BLK_SZ \in Nat /\ m * BLK_SZ \in Nat
    BY <1>3, <1>4, Stride
  <2> QED
    BY <1>3, <2>1, Stride
<1>5. ASSUME NEW k \in 1 .. n
      PROVE  \E b \in 0 .. m - 1 : b * BLK_SZ < k /\ k <= b * BLK_SZ + BLK_SZ
  <2> DEFINE b == (k - 1) \div BLK_SZ
  <2>1. b \in Nat /\ b * BLK_SZ <= k - 1 /\ k - 1 < b * BLK_SZ + BLK_SZ /\ b * BLK_SZ \in Nat
    BY <1>1, Stride
  <2> HIDE DEF b
  <2>2. CASE b >= m
    <3>1. m * BLK_SZ <= b * BLK_SZ /\ m * BLK_SZ \in Nat
      BY <1>3, <2>1, <2>2, Stride
    <3> QED
      BY <1>3, <2>1, <3>1
  <2>3. CASE b < m
    BY <1>3, <2>1, <2>3, Stride
  <2> QED
    BY <1>3, <2>1, <2>2, <2>3
<1> QED
  BY <1>3, <1>4, <1>5 DEF m

(* What a block of the server's file is. *)
LEMMA BlockGives ==
  ASSUME NEW f \in Seq(Nat), NEW b \in Nat, b < BlocksOf(Len(f))
  PROVE  LET d == BlockOf(f, b) IN
         /\ d \in Seq(Nat) /\ Len(d) <= BLK_SZ /\ b * BLK_SZ + Len(d) <= Len(f)
         /\ \A j \in 1 .. Len(d) : d[j] = f[b * BLK_SZ + j]
         /\ \A k \in 1 .. Len(f) : k <= b * BLK_SZ + BLK_SZ => k <= b * BLK_SZ + Len(d)
<1> DEFINE o == b * BLK_SZ
           n == Least(BLK_SZ, Len(f) - o)
<1>1. o \in Nat /\ o < Len(f) /\ Len(f) \in Nat
  BY Stride, BlocksCover
<1>2. BlockOf(f, b) = At(f, o, n)
  BY DEF BlockOf
<1> HIDE DEF o
<1>3. n \in Nat /\ n <= BLK_SZ /\ o + n <= Len(f)
      /\ \A k \in 1 .. Len(f) : k <= o + BLK_SZ => k <= o + n
  BY <1>1, Stride DEF Least
<1> HIDE DEF n
<1>4. /\ At(f, o, n) \in Seq(Nat) /\ Len(At(f, o, n)) = n
      /\ \A j \in 1 .. n : At(f, o, n)[j] = f[o + j]
  BY <1>1, <1>3, AtGives
<1> QED
  BY <1>2, <1>3, <1>4 DEF o
-----------------------------------------------------------------------------
(* The smaller of two. *)
LEMMA LeastGives ==
  ASSUME NEW a \in Int, NEW b \in Int
  PROVE  Least(a, b) \in Int /\ Least(a, b) <= a /\ Least(a, b) <= b
  BY DEF Least

(* The numbers, sequences and blocks of Typed. *)
LEMMA TypedGives ==
  ASSUME Typed
  PROVE  /\ main.i \in Nat /\ main.file_sz \in Nat /\ main.block_nr \in Nat
         /\ main.buf \in Seq(Nat) /\ Len(main.buf) \in Nat
         /\ cfile \in Seq(Nat) /\ Len(cfile) \in Nat /\ offset \in Nat
         /\ thread.i \in Nat /\ thread.block \in Blocks
         /\ server.i \in Nat /\ server.answer \in Blocks
         /\ EntryOffset \in Nat /\ SrvAt \in Nat /\ ThrAt \in Nat
         /\ sfile # NoServerFile => sfile \in Seq(Nat) /\ Len(sfile) \in Nat
                               /\ Bound = BlocksOf(Len(sfile)) /\ Bound \in Nat
<1>1. main.i \in Nat /\ main.file_sz \in Nat /\ main.block_nr \in Nat /\ main.buf \in Seq(Nat)
  BY DEF Typed, Mains
<1>2. thread.i \in Nat /\ thread.block \in Blocks /\ server.i \in Nat /\ server.answer \in Blocks
  BY DEF Typed, Threads, Servers
<1>3. cfile \in Seq(Nat) /\ offset \in Nat /\ (sfile # NoServerFile => sfile \in Seq(Nat))
  BY DEF Typed
<1>4. EntryOffset \in Nat /\ SrvAt \in Nat /\ ThrAt \in Nat
  BY <1>1, <1>2, Stride DEF EntryOffset, SrvAt, ThrAt
<1>5. ASSUME sfile # NoServerFile
      PROVE  Len(sfile) \in Nat /\ Bound = BlocksOf(Len(sfile)) /\ Bound \in Nat
  BY <1>3, <1>5, BlocksCover DEF Bound
<1> QED
  BY <1>1, <1>2, <1>3, <1>4, <1>5

(* At the start nothing has been sent. *)
LEMMA InitIInv ==
  ASSUME SyncInit PROVE IInv
<1>1. NoBlock \in Blocks
  BY DEF NoBlock, Blocks
<1>2. cfile \in Seq(Nat) /\ (sfile # NoServerFile => sfile \in Seq(Nat)) /\ Len(cfile) \in Nat
  BY SyncFilesAssumption DEF SyncInit
<1>3. main \in Mains /\ main.buf = <<>> /\ thread \in Threads /\ server \in Servers
  BY <1>1, <1>2 DEF SyncInit, Mains, Threads, Servers
<1>4. Len(<<>>) = 0 /\ Buffer \in Nat /\ BLK_SZ \in Nat
  BY SyncAssumption
<1>5. /\ offset = 0 /\ torn = FALSE /\ toServer = <<>> /\ toClient = <<>>
  BY DEF SyncInit
<1>6. Len(main.buf) <= BLK_SZ /\ Len(toServer) <= Buffer /\ Len(toClient) <= Buffer
  BY <1>3, <1>4, <1>5
<1>7. Typed
  BY <1>2, <1>3, <1>5, <1>6 DEF Typed
<1> QED
  BY <1>7 DEF SyncInit, IInv, Handshake, Counters, Lanes, Content, Begun

(* What each step of main() leaves; first those that only go on. *)
LEMMA AllSentKeeps ==
  ASSUME IInv, AllSent PROVE IInv'
<1>1. /\ main.step = "entry" /\ ~MoreBlocks /\ main'.step = "join" /\ main' \in Mains
      /\ main'.i = main.i /\ main'.block_nr = main.block_nr /\ main'.buf = main.buf
      /\ UNCHANGED <<client, sfile, thread, server, toServer, toClient>>
  BY DEF AllSent, IInv, Typed, Mains
<1>2. Begun /\ Begun' /\ SrvAt' = SrvAt /\ ThrAt' = ThrAt /\ Bound' = Bound
  BY <1>1 DEF Begun, SrvAt, ThrAt, Bound
<1> USE <1>1, <1>2, TypedGives DEF IInv, client
<1>3. Typed'
  BY DEF Typed
<1>4. Handshake'
  BY DEF Handshake
<1>5. Counters'
  BY SMTT(60) DEF Counters, MoreBlocks
<1>6. Lanes'
  BY DEF Lanes
<1>7. Content'
  BY DEF Content
<1> QED
  BY <1>3, <1>4, <1>5, <1>6, <1>7

(* main() is done only when the thread is; *)
LEMMA JoinKeeps ==
  ASSUME IInv, Join PROVE IInv'
<1>1. /\ main.step = "join" /\ thread.step = "done" /\ main'.step = "done" /\ main' \in Mains
      /\ main'.i = main.i /\ main'.block_nr = main.block_nr /\ main'.buf = main.buf
      /\ UNCHANGED <<client, sfile, thread, server, toServer, toClient>>
  BY DEF Join, IInv, Typed, Mains
<1>2. Begun /\ Begun' /\ SrvAt' = SrvAt /\ ThrAt' = ThrAt /\ Bound' = Bound
  BY <1>1 DEF Begun, SrvAt, ThrAt, Bound
<1> USE <1>1, <1>2, TypedGives DEF IInv, client
<1>3. Typed'
  BY DEF Typed
<1>4. Handshake'
  BY DEF Handshake
<1>5. Counters'
  BY DEF Counters
<1>6. Lanes'
  BY DEF Lanes
<1>7. Content'
  BY DEF Content
<1> QED
  BY <1>3, <1>4, <1>5, <1>6, <1>7

(* of an entry nothing is read yet, or nothing at all behind the end; *)
LEMMA SeekEntryKeeps ==
  ASSUME IInv, SeekEntry PROVE IInv'
<1>1. /\ main.step = "entry" /\ MoreBlocks /\ main' \in Mains /\ main'.step \in {"read", "send"}
      /\ main'.i = main.i /\ main'.block_nr = main.block_nr /\ main'.buf = <<>>
      /\ offset' \in Nat
      /\ UNCHANGED <<cfile, sfile, thread, server, toServer, toClient, torn>>
  <2>1. EntryOffset \in Nat /\ offset \in Nat
    BY TypedGives DEF IInv
  <2> QED
    <3>1. main \in Mains
      BY DEF IInv, Typed
    <3>2. <<>> \in Seq(Nat)
      OBVIOUS
    <3>3. CASE main.file_sz <= EntryOffset
      BY <2>1, <3>1, <3>2, <3>3 DEF SeekEntry, Mains
    <3>4. CASE ~(main.file_sz <= EntryOffset)
      BY <2>1, <3>1, <3>2, <3>4 DEF SeekEntry, Mains
    <3> QED
      BY <3>3, <3>4
<1>2. Begun /\ Begun' /\ SrvAt' = SrvAt /\ ThrAt' = ThrAt /\ Bound' = Bound
  BY <1>1 DEF Begun, SrvAt, ThrAt, Bound
<1> USE <1>1, <1>2, TypedGives DEF IInv
<1>3. Typed'
  BY Stride DEF Typed
<1>4. Handshake'
  BY DEF Handshake
<1>5. Counters'
  BY DEF Counters, MoreBlocks
<1>6. Lanes'
  BY DEF Lanes
<1>7. Content'
  <2>1. HasBytes(cfile, main.i, <<>>)
    BY DEF HasBytes
  <2> QED
    BY <2>1 DEF Content
<1> QED
  BY <1>3, <1>4, <1>5, <1>6, <1>7

(* the bytes read are those of the file, at the place they are digested for
   unless the offset has moved; *)
LEMMA ReadEntryKeeps ==
  ASSUME IInv, ReadEntry PROVE IInv'
<1> DEFINE got == Least(EntryLen - Len(main.buf), Len(cfile) - offset)
           read == At(cfile, offset, got)
<1>1. /\ main.step = "read" /\ got > 0 /\ main \in Mains
      /\ main'.buf = main.buf \o read /\ main'.i = main.i /\ main'.file_sz = main.file_sz
      /\ main'.step \in {"read", "send"} /\ main'.block_nr = main.block_nr
      /\ main' = [main EXCEPT !.buf = main'.buf, !.step = main'.step]
      /\ offset' = offset + got
      /\ torn' = (torn \/ offset # EntryOffset + Len(main.buf))
      /\ UNCHANGED <<cfile, sfile, thread, server, toServer, toClient>>
  BY DEF ReadEntry, IInv, Typed, Mains
<1>2. Begun /\ Begun' /\ SrvAt' = SrvAt /\ ThrAt' = ThrAt /\ Bound' = Bound
  BY <1>1 DEF Begun, SrvAt, ThrAt, Bound
<1>3. /\ Typed /\ main.buf \in Seq(Nat) /\ Len(main.buf) \in Nat /\ Len(main.buf) <= BLK_SZ
      /\ cfile \in Seq(Nat) /\ Len(cfile) \in Nat /\ offset \in Nat
      /\ EntryOffset \in Nat /\ BLK_SZ \in Nat
  BY TypedGives, Stride DEF IInv, Typed
<1>4. got \in Nat /\ offset + got <= Len(cfile) /\ Len(main.buf) + got <= BLK_SZ
  <2>1. EntryLen \in Int /\ EntryLen <= BLK_SZ
    <3>1. main.file_sz - EntryOffset \in Int /\ BLK_SZ \in Int
      BY <1>3, TypedGives
    <3> QED
      BY ONLY <3>1, LeastGives DEF EntryLen
  <2> QED
    <3>1. got > 0
      BY <1>1
    <3>2. EntryLen - Len(main.buf) \in Int /\ Len(cfile) - offset \in Int
      BY ONLY <1>3, <2>1
    <3>3. got <= EntryLen - Len(main.buf) /\ got <= Len(cfile) - offset /\ got \in Int
      BY ONLY <3>2, LeastGives DEF got
    <3> HIDE DEF got
    <3> QED
      BY ONLY <1>3, <2>1, <3>1, <3>3
<1> HIDE DEF got
<1>5. read \in Seq(Nat) /\ Len(read) = got /\ \A k \in 1 .. got : read[k] = cfile[offset + k]
  BY <1>3, <1>4, AtGives
<1> HIDE DEF read
<1>6. /\ main'.buf \in Seq(Nat) /\ Len(main'.buf) = Len(main.buf) + got
      /\ \A k \in 1 .. Len(main.buf) : main'.buf[k] = main.buf[k]
      /\ \A k \in 1 .. got : main'.buf[Len(main.buf) + k] = read[k]
  <2>1. main'.buf = main.buf \o read
    BY <1>1
  <2>2. /\ main.buf \o read \in Seq(Nat) /\ Len(main.buf \o read) = Len(main.buf) + Len(read)
        /\ \A k \in 1 .. Len(main.buf) : (main.buf \o read)[k] = main.buf[k]
        /\ \A k \in 1 .. Len(read) : (main.buf \o read)[Len(main.buf) + k] = read[k]
    BY ONLY <1>3, <1>5, CatGives
  <2>3. Len(read) = got
    BY <1>5
  <2> QED
    BY ONLY <2>1, <2>2, <2>3
<1>7. Typed'
  <2>1. main' \in Mains
    <3>1. /\ main \in Mains /\ main'.buf \in Seq(Nat) /\ main'.step \in {"read", "send"}
          /\ main' = [main EXCEPT !.buf = main'.buf, !.step = main'.step]
      BY <1>1, <1>6
    <3> QED
      BY ONLY <3>1 DEF Mains
  <2>2. Len(main'.buf) <= BLK_SZ
    BY <1>4, <1>6
  <2>3. offset' \in Nat /\ torn' \in BOOLEAN
    BY <1>1, <1>3, <1>4 DEF Typed
  <2> QED
    BY <1>1, <1>3, <2>1, <2>2, <2>3 DEF Typed
<1>8. Handshake'
  BY <1>2 DEF Handshake
<1>9. Counters'
  BY <1>1, <1>2 DEF IInv, Counters
<1>10. Lanes'
  BY <1>1, <1>2 DEF IInv, Lanes
<1>11. Content'
  <2> SUFFICES ASSUME ~torn' PROVE Content'
    BY DEF Content
  <2>1. ~torn /\ offset = EntryOffset + Len(main.buf)
    BY <1>1
  <2>2. HasBytes(cfile, main.i, main.buf)
    BY <1>1, <1>2, <2>1 DEF IInv, Content
  <2>3. HasBytes(cfile, main.i, main'.buf)
    <3> SUFFICES ASSUME NEW j \in 1 .. Len(main.buf) + got
                 PROVE  /\ EntryOffset + j <= Len(cfile)
                        /\ cfile[EntryOffset + j] = main'.buf[j]
      BY <1>6 DEF HasBytes, EntryOffset
    <3>1. CASE j <= Len(main.buf)
      BY <1>3, <1>6, <2>2, <3>1 DEF HasBytes, EntryOffset
    <3>2. CASE j > Len(main.buf)
      <4> DEFINE k == j - Len(main.buf)
      <4>1. Len(main.buf) \in Nat /\ EntryOffset \in Nat /\ offset \in Nat /\ got \in Nat
            /\ j \in 1 .. Len(main.buf) + got /\ offset = EntryOffset + Len(main.buf)
        BY <1>3, <1>4, <2>1
      <4>2. k \in 1 .. got /\ j = Len(main.buf) + k
        BY ONLY <3>2, <4>1 DEF k
      <4> HIDE DEF k
      <4>3. EntryOffset + j = offset + k
        BY ONLY <4>1, <4>2
      <4>4. main'.buf[j] = cfile[EntryOffset + j]
        BY <1>5, <1>6, <4>2, <4>3
      <4>5. EntryOffset + j <= Len(cfile)
        BY ONLY <1>3, <1>4, <4>1, <4>2, <4>3
      <4> QED
        BY <4>4, <4>5
    <3> QED
      BY <1>3, <1>4, <3>1, <3>2
  <2> QED
    BY <1>1, <1>2, <2>1, <2>3 DEF IInv, Content
<1> QED
  BY <1>7, <1>8, <1>9, <1>10, <1>11 DEF IInv

(* ... and are what the entry says. *)
LEMMA SendEntryKeeps ==
  ASSUME IInv, SendEntry PROVE IInv'
<1> DEFINE e == [offset |-> EntryOffset, md5 |-> main.buf]
<1>1. /\ main.step = "send" /\ main \in Mains /\ Len(toServer) < Buffer
      /\ main' = [main EXCEPT !.step = "entry", !.i = @ + 1]
      /\ toServer' = Append(toServer, e)
      /\ UNCHANGED <<cfile, offset, torn, sfile, thread, server, toClient>>
  BY DEF SendEntry, Write, IInv, Typed, client
<1>2. /\ main' \in Mains /\ main'.i = main.i + 1 /\ main'.block_nr = main.block_nr
      /\ main'.step = "entry" /\ main'.buf = main.buf
  <2>1. main.i \in Nat /\ main.i + 1 \in Nat
    BY <1>1 DEF Mains
  <2> QED
    BY <1>1, <2>1 DEF Mains
<1>3. Begun /\ Begun' /\ SrvAt' = SrvAt /\ ThrAt' = ThrAt /\ Bound' = Bound
  BY <1>1, <1>2 DEF Begun, SrvAt, ThrAt, Bound
<1>4. e \in Entries /\ e.offset = main.i * BLK_SZ /\ e.md5 = main.buf
  BY TypedGives DEF IInv, Entries, EntryOffset
<1> HIDE DEF e
<1>5. /\ toServer \in Seq(Entries) /\ Len(toServer) \in Nat
      /\ main.i \in Nat /\ SrvAt \in Nat /\ SrvAt + Len(toServer) = main.i
  BY <1>3, TypedGives DEF IInv, Lanes, Counters
<1>6. /\ toServer' \in Seq(Entries) /\ Len(toServer') = Len(toServer) + 1
      /\ \A k \in 1 .. Len(toServer) : toServer'[k] = toServer[k]
      /\ toServer'[Len(toServer) + 1] = e
  BY <1>1, <1>4, <1>5, AppendGives
<1>7. SrvAt + (Len(toServer) + 1) - 1 = main.i
  BY <1>5
<1>8. \A k \in 1 .. Len(toServer') : k \in 1 .. Len(toServer) \/ k = Len(toServer) + 1
  BY <1>5, <1>6
<1>9. Typed'
  <2>1. Len(toServer') <= Buffer
    BY <1>1, <1>5, <1>6, SyncAssumption
  <2> QED
    BY <1>1, <1>2, <2>1 DEF IInv, Typed
<1>10. Handshake'
  BY <1>3 DEF Handshake
<1>11. Counters'
  <2>1. main.i < Bound /\ sfile # NoServerFile
    BY <1>1, <1>3 DEF IInv, Counters
  <2>2. Bound \in Nat
    BY <2>1, TypedGives DEF IInv
  <2>3. main'.i <= Bound /\ SrvAt' + Len(toServer') = main'.i
    BY <1>2, <1>3, <1>5, <1>6, <2>1, <2>2
  <2> QED
    BY <1>1, <1>2, <1>3, <2>3 DEF IInv, Counters
<1>12. Lanes'
  <2>1. \A k \in 1 .. Len(toServer') : toServer'[k].offset = (SrvAt + k - 1) * BLK_SZ
    BY <1>3, <1>4, <1>6, <1>7, <1>8 DEF IInv, Lanes
  <2> QED
    BY <1>1, <1>3, <1>6, <2>1 DEF IInv, Lanes
<1>13. Content'
  <2> SUFFICES ASSUME ~torn PROVE Content'
    BY <1>1 DEF Content
  <2>1. \A k \in 1 .. Len(toServer') : HasBytes(cfile, SrvAt + k - 1, toServer'[k].md5)
    BY <1>1, <1>3, <1>4, <1>6, <1>7, <1>8 DEF IInv, Content
  <2> QED
    BY <1>1, <1>2, <1>3, <2>1 DEF IInv, Content
<1> QED
  BY <1>9, <1>10, <1>11, <1>12, <1>13 DEF IInv

(* The header goes into an empty socket. *)
LEMMA SendHeaderKeeps ==
  ASSUME IInv, SendHeader PROVE IInv'
<1>1. /\ main.step = "hello" /\ main \in Mains /\ Len(toServer) < Buffer
      /\ main' = [main EXCEPT !.step = "open"]
      /\ toServer' = Append(toServer, "header")
      /\ UNCHANGED <<cfile, offset, torn, sfile, thread, server, toClient>>
  BY DEF SendHeader, Write, IInv, Typed, client
<1>2. main' \in Mains /\ main'.step = "open" /\ main'.buf = main.buf /\ main'.i = main.i
      /\ main'.block_nr = main.block_nr /\ main'.file_sz = main.file_sz
  BY <1>1 DEF Mains
<1>3. ~Begun /\ ~Begun'
  BY <1>1, <1>2 DEF Begun
<1>4. server.step = "open" /\ toServer = <<>> /\ toClient = <<>>
  BY <1>1, <1>3 DEF IInv, Handshake
<1>5. toServer' = <<"header">> /\ toServer' \in Seq({"header"}) /\ Len(toServer') = 1
  BY <1>1, <1>4
<1>6. Typed'
  <2>1. Len(toServer') <= Buffer
    BY <1>5, SyncAssumption
  <2> QED
    BY <1>1, <1>2, <2>1 DEF IInv, Typed
<1>7. Handshake'
  BY <1>1, <1>2, <1>3, <1>4, <1>5 DEF IInv, Handshake
<1>8. Counters' /\ Lanes' /\ Content'
  BY <1>3 DEF Counters, Lanes, Content
<1> QED
  BY <1>6, <1>7, <1>8 DEF IInv

(* The server has the file or closes, ... *)
LEMMA OpenFileKeeps ==
  ASSUME IInv, OpenFile PROVE IInv'
<1>1. /\ server.step = "open" /\ toServer # <<>> /\ server \in Servers
      /\ toServer' = Tail(toServer)
      /\ UNCHANGED <<cfile, offset, torn, sfile, main, thread>>
  BY DEF OpenFile, IInv, Typed, client
<1>2. ~Begun /\ ~Begun' /\ main.step = "open" /\ main'.step = "open"
  <2>1. ~Begun
    BY <1>1 DEF IInv, Counters
  <2> QED
    BY <1>1, <2>1 DEF IInv, Handshake, Begun
<1>3. toServer = <<"header">> /\ toClient = <<>>
  BY <1>1, <1>2 DEF IInv, Handshake
<1>4. toServer' = <<>> /\ toServer' \in Seq({"header"}) /\ Len(toServer') = 0
  BY <1>1, <1>3
<1>5. /\ server' \in Servers /\ server'.step # "open" /\ server'.step # "send"
      /\ server'.i = server.i
      /\ toClient' = IF sfile = NoServerFile THEN <<>> ELSE <<Len(sfile)>>
      /\ toClient' \in Seq(Nat) /\ Len(toClient') <= 1
      /\ server'.step = "closed" <=> Bound = 0
  <2>1. CASE sfile = NoServerFile
    <3>1. Bound = 0
      <4>1. (0 + BLK_SZ - 1) \div BLK_SZ = 0
        BY SyncAssumption
      <4> QED
        BY <2>1, <4>1 DEF Bound, BlocksOf
    <3> QED
      BY <1>1, <1>3, <2>1, <3>1 DEF OpenFile, Servers
  <2>2. CASE sfile # NoServerFile
    <3>1. Len(sfile) \in Nat
      BY <2>2, TypedGives DEF IInv
    <3>2. toClient' = <<Len(sfile)>>
      BY <1>3, <2>2, <3>1 DEF OpenFile, Write
    <3> QED
      BY <1>1, <2>2, <3>1, <3>2 DEF OpenFile, Servers
  <2> QED
    BY <2>1, <2>2
<1>6. Typed'
  <2>1. Len(toServer') <= Buffer /\ Len(toClient') <= Buffer
    BY <1>4, <1>5, SyncAssumption
  <2> QED
    BY <1>1, <1>5, <2>1 DEF IInv, Typed
<1>7. Handshake'
  BY <1>1, <1>2, <1>4, <1>5 DEF IInv, Handshake, Bound
<1>8. Counters' /\ Lanes' /\ Content'
  BY <1>2 DEF Counters, Lanes, Content
<1> QED
  BY <1>6, <1>7, <1>8 DEF IInv

(* ... and the client cuts its file: nothing is sent yet. *)
LEMMA BeginKeeps ==
  ASSUME IInv, Begin PROVE IInv'
<1>1. /\ main.step = "open" /\ main \in Mains /\ thread \in Threads /\ toClient # <<>>
      /\ UNCHANGED <<sfile, offset, server, toServer, torn>>
  BY DEF Begin, IInv, Typed
<1>2. ~Begun
  BY <1>1 DEF Begun
<1>3. /\ ~torn /\ main.i = 0 /\ main.file_sz = Len(cfile) /\ thread.i = 0 /\ server.i = 0
      /\ sfile # NoServerFile /\ toServer = <<>> /\ server.step \notin {"open", "send"}
      /\ toClient = <<Len(sfile)>> /\ (server.step = "closed" <=> Bound = 0)
  BY <1>1, <1>2 DEF IInv, Handshake
<1> DEFINE n == Len(sfile)
<1>4. /\ n \in Nat /\ Bound = BlocksOf(n) /\ Bound \in Nat
      /\ cfile \in Seq(Nat) /\ Len(cfile) \in Nat
  BY <1>3, TypedGives DEF IInv
<1>5. /\ cfile' = Cut(n) /\ toClient' = <<>>
      /\ main' = [main EXCEPT !.step = "entry", !.file_sz = Least(n, @),
                              !.block_nr = BlocksThere(n)]
      /\ thread' = [thread EXCEPT !.step = "receive"]
  BY <1>3, <1>4 DEF Begin
<1> HIDE DEF n
<1>6. cfile' \in Seq(Nat) /\ Len(cfile') \in Nat /\ Len(cfile') <= n
  BY <1>3, <1>4, <1>5 DEF Cut
<1>7. Least(n, main.file_sz) \in Nat
  BY <1>3, <1>4 DEF Least
<1>8. /\ main' \in Mains /\ main'.step = "entry" /\ main'.i = 0 /\ main'.block_nr = Bound
      /\ main'.buf = main.buf /\ thread' \in Threads /\ thread'.step = "receive" /\ thread'.i = 0
  BY <1>1, <1>3, <1>4, <1>5, <1>7 DEF Mains, Threads, BlocksThere
<1>9. /\ Begun' /\ SrvAt' = 0 /\ ThrAt' = 0 /\ Bound' = Bound
      /\ toServer' = <<>> /\ toClient' = <<>> /\ Len(<<>>) = 0
  BY <1>1, <1>3, <1>5, <1>8 DEF Begun, SrvAt, ThrAt, Bound
<1>10. Typed'
  <2>1. Len(toServer') <= Buffer /\ Len(toClient') <= Buffer
    BY <1>9, SyncAssumption
  <2> QED
    BY <1>1, <1>6, <1>8, <2>1 DEF IInv, Typed
<1>11. Handshake'
  BY <1>9 DEF Handshake
<1>12. Counters'
  BY <1>1, <1>3, <1>4, <1>8, <1>9 DEF Counters
<1>13. Lanes'
  BY <1>1, <1>3, <1>8, <1>9 DEF Lanes
<1>14. Content'
  BY <1>1, <1>3, <1>6, <1>8, <1>9 DEF Content, n
<1> QED
  BY <1>10, <1>11, <1>12, <1>13, <1>14 DEF IInv
-----------------------------------------------------------------------------
(* The server says "same" only of a block that the client has, byte for byte; *)
LEMMA SameIsInPlace ==
  ASSUME NEW f \in Seq(Nat), NEW s \in Seq(Nat), NEW b \in Nat, b < BlocksOf(Len(s)),
         NEW e, SameBlock(e, BlockOf(s, b)), HasBytes(f, b, e.md5)
  PROVE  InPlace(f, s, b)
<1> DEFINE d == BlockOf(s, b)
           o == b * BLK_SZ
<1>1. /\ d \in Seq(Nat) /\ Len(d) \in Nat /\ o \in Nat
      /\ \A j \in 1 .. Len(d) : d[j] = s[o + j]
      /\ \A k \in 1 .. Len(s) : k <= o + BLK_SZ => k <= o + Len(d)
  <2>1. o \in Nat
    BY Stride
  <2>2. d \in Seq(Nat)
    BY BlockGives
  <2> QED
    BY ONLY <2>1, <2>2, s \in Seq(Nat), b \in Nat, b < BlocksOf(Len(s)), BlockGives, SMTT(60) DEF d, o
<1>2. \A j \in 1 .. Len(d) : o + j <= Len(f) /\ f[o + j] = d[j]
  BY DEF SameBlock, HasBytes
<1> HIDE DEF d, o
<1>3. SUFFICES ASSUME NEW k \in 1 .. Len(s), o < k, k <= o + BLK_SZ
               PROVE  k <= Len(f) /\ f[k] = s[k]
  BY DEF InPlace, o
<1> DEFINE j == k - o
<1>4. k \in Nat /\ k <= o + Len(d)
  BY <1>1, <1>3
<1>5. j \in 1 .. Len(d) /\ k = o + j
  BY ONLY <1>1, <1>3, <1>4 DEF j
<1> HIDE DEF j
<1> QED
  BY <1>1, <1>2, <1>5

LEMMA CompareKeeps ==
  ASSUME IInv, Compare PROVE IInv'
<1> DEFINE e == Head(toServer)
           block == BlockOf(sfile, server.i)
           same == SameBlock(e, block)
           a == [same |-> same, offset |-> e.offset, data |-> IF same THEN <<>> ELSE block]
<1>1. /\ server.step = "receive" /\ server \in Servers /\ toServer # <<>>
      /\ server' = [server EXCEPT !.step = "send", !.answer = a]
      /\ toServer' = Tail(toServer)
      /\ UNCHANGED <<cfile, offset, torn, sfile, main, thread, toClient>>
  BY DEF Compare, IInv, Typed, client
<1>2. Begun /\ Begun'
  <2>1. Begun
    BY <1>1 DEF IInv, Handshake, Begun, Typed, Mains
  <2> QED
    BY <1>1, <2>1 DEF Begun
<1>3. /\ toServer \in Seq(Entries) /\ e \in Entries /\ e = toServer[1] /\ Len(toServer) \in Nat
      /\ toServer' \in Seq(Entries) /\ Len(toServer) > 0 /\ Len(toServer') = Len(toServer) - 1
      /\ \A k \in 1 .. Len(toServer) - 1 : toServer'[k] = toServer[k + 1]
  <2>1. toServer \in Seq(Entries)
    BY <1>2 DEF IInv, Lanes
  <2> QED
    BY <1>1, <2>1, TailGives
<1>4. /\ server.i \in Nat /\ SrvAt = server.i /\ sfile # NoServerFile /\ sfile \in Seq(Nat)
      /\ Bound \in Nat /\ Bound = BlocksOf(Len(sfile)) /\ main.i \in Nat
      /\ SrvAt + Len(toServer) = main.i /\ main.i <= Bound
  BY <1>1, <1>2, TypedGives DEF IInv, Counters, SrvAt
<1>5. server.i < Bound
  BY <1>3, <1>4
<1>6. e.offset = server.i * BLK_SZ /\ e.offset \in Nat /\ block \in Seq(Nat)
  <2>1. toServer[1].offset = (SrvAt + 1 - 1) * BLK_SZ
    BY <1>2, <1>3 DEF IInv, Lanes
  <2>2. SrvAt + 1 - 1 = server.i
    BY <1>4
  <2> QED
    BY <1>3, <1>4, <1>5, <2>1, <2>2, BlockGives DEF Entries
<1>7. same \in BOOLEAN
  BY DEF SameBlock
<1>8. ~torn /\ same => InPlace(cfile, sfile, server.i)
  <2> SUFFICES ASSUME ~torn, same PROVE InPlace(cfile, sfile, server.i)
    OBVIOUS
  <2>1. HasBytes(cfile, SrvAt + 1 - 1, toServer[1].md5)
    BY <1>2, <1>3 DEF IInv, Content
  <2>2. SrvAt + 1 - 1 = server.i /\ cfile \in Seq(Nat)
    BY <1>4 DEF IInv, Typed
  <2> HIDE DEF e
  <2> QED
    BY <1>3, <1>4, <1>5, <2>1, <2>2, SameIsInPlace
<1> HIDE DEF e, block, same
<1>9. a \in Blocks /\ a.same = same /\ AnswerTo(sfile, a, server.i)
  BY <1>6, <1>7 DEF Blocks, AnswerTo, block
<1> HIDE DEF a
<1>10. server' \in Servers /\ server'.step = "send" /\ server'.i = server.i /\ server'.answer = a
  BY <1>1, <1>9 DEF Servers
<1>11. SrvAt' = SrvAt + 1 /\ ThrAt' = ThrAt /\ Bound' = Bound
  BY <1>1, <1>4, <1>10 DEF SrvAt, ThrAt, Bound
<1>12. \A k \in 1 .. Len(toServer') :
          k + 1 \in 1 .. Len(toServer) /\ toServer'[k] = toServer[k + 1]
          /\ SrvAt' + k - 1 = SrvAt + (k + 1) - 1
  <2> TAKE k \in 1 .. Len(toServer')
  <2>1. PICK n \in Nat : n = Len(toServer)
    BY <1>3, Zenon
  <2>2. Len(toServer') = n - 1 /\ \A i \in 1 .. n - 1 : toServer'[i] = toServer[i + 1]
    BY <1>3, <2>1, Zenon
  <2>3. k \in 1 .. n - 1
    BY <2>2
  <2>4. k \in Nat /\ k + 1 \in 1 .. n
    BY <2>3
  <2>5. SrvAt' + k - 1 = SrvAt + (k + 1) - 1
    BY <1>4, <1>11, <2>4
  <2> QED
    BY <2>1, <2>2, <2>3, <2>4, <2>5, Zenon
<1>13. Typed'
  <2>1. Len(toServer') <= Buffer
    BY <1>3, SyncAssumption DEF IInv, Typed
  <2> QED
    BY <1>1, <1>10, <2>1 DEF IInv, Typed
<1>14. Handshake'
  BY <1>2 DEF Handshake
<1>15. Counters'
  <2>1. SrvAt' + Len(toServer') = main.i
    BY <1>3, <1>4, <1>11
  <2>2. server.i # Bound
    BY <1>4, <1>5
  <2> QED
    BY <1>1, <1>2, <1>10, <1>11, <2>1, <2>2 DEF IInv, Counters
<1>16. Lanes'
  <2>1. \A k \in 1 .. Len(toServer') : toServer'[k].offset = (SrvAt' + k - 1) * BLK_SZ
    BY <1>2, <1>12 DEF IInv, Lanes
  <2> QED
    BY <1>1, <1>2, <1>3, <1>9, <1>10, <1>11, <2>1 DEF IInv, Lanes
<1>17. Content'
  <2> SUFFICES ASSUME ~torn PROVE Content'
    BY <1>1 DEF Content
  <2>1. \A k \in 1 .. Len(toServer') : HasBytes(cfile, SrvAt' + k - 1, toServer'[k].md5)
    BY <1>2, <1>12 DEF IInv, Content
  <2>2. server'.answer.same => InPlace(cfile, sfile, server.i)
    BY <1>8, <1>9, <1>10
  <2> QED
    BY <1>1, <1>2, <1>10, <1>11, <2>1, <2>2 DEF IInv, Content
<1> QED
  BY <1>13, <1>14, <1>15, <1>16, <1>17 DEF IInv

(* the answers arrive in the order of the blocks. *)
LEMMA AnswerKeeps ==
  ASSUME IInv, SendAnswer PROVE IInv'
<1> DEFINE a == server.answer
<1>1. /\ server.step = "send" /\ server \in Servers /\ Len(toClient) < Buffer
      /\ toClient' = Append(toClient, a)
      /\ server' = [server EXCEPT !.i = @ + 1, !.answer = NoBlock,
                                  !.step = IF server.i + 1 = Bound THEN "closed" ELSE "receive"]
      /\ UNCHANGED <<cfile, offset, torn, sfile, main, thread, toServer>>
  BY DEF SendAnswer, Write, IInv, Typed, client
<1>2. Begun /\ Begun'
  <2>1. Begun
    BY <1>1 DEF IInv, Handshake, Begun, Typed, Mains
  <2> QED
    BY <1>1, <2>1 DEF Begun
<1>3. /\ server' \in Servers /\ server'.i = server.i + 1 /\ server'.step # "send"
      /\ server'.step # "open" /\ (server'.step = "closed" <=> server.i + 1 = Bound)
  <2>1. NoBlock \in Blocks
    BY DEF NoBlock, Blocks
  <2>2. server.i \in Nat /\ server.i + 1 \in Nat
    BY <1>1 DEF Servers
  <2> QED
    BY <1>1, <2>1, <2>2 DEF Servers
<1>4. SrvAt' = SrvAt /\ SrvAt = server.i + 1 /\ ThrAt' = ThrAt /\ Bound' = Bound
  BY <1>1, <1>3 DEF SrvAt, ThrAt, Bound
<1>5. /\ toClient \in Seq(Blocks) /\ Len(toClient) \in Nat /\ a \in Blocks
      /\ server.i \in Nat /\ ThrAt \in Nat /\ ThrAt + Len(toClient) = server.i
  BY <1>2, TypedGives DEF IInv, Lanes, Counters
<1>6. /\ toClient' \in Seq(Blocks) /\ Len(toClient') = Len(toClient) + 1
      /\ \A k \in 1 .. Len(toClient) : toClient'[k] = toClient[k]
      /\ toClient'[Len(toClient) + 1] = a
  BY <1>1, <1>5, AppendGives
<1>7. ThrAt + (Len(toClient) + 1) - 1 = server.i
  BY <1>5
<1>8. \A k \in 1 .. Len(toClient') : k \in 1 .. Len(toClient) \/ k = Len(toClient) + 1
  BY <1>5, <1>6
<1>9. Typed'
  <2>1. Len(toClient') <= Buffer
    BY <1>1, <1>5, <1>6, SyncAssumption
  <2> QED
    BY <1>1, <1>3, <2>1 DEF IInv, Typed
<1>10. Handshake'
  BY <1>2 DEF Handshake
<1>11. Counters'
  <2>1. ThrAt' + Len(toClient') = server'.i
    BY <1>3, <1>4, <1>5, <1>6
  <2> QED
    BY <1>1, <1>2, <1>3, <1>4, <2>1 DEF IInv, Counters
<1>12. Lanes'
  <2>1. \A k \in 1 .. Len(toClient') : AnswerTo(sfile, toClient'[k], ThrAt + k - 1)
    BY <1>1, <1>2, <1>6, <1>7, <1>8 DEF IInv, Lanes
  <2> QED
    BY <1>1, <1>2, <1>3, <1>4, <1>6, <2>1 DEF IInv, Lanes
<1>13. Content'
  <2> SUFFICES ASSUME ~torn PROVE Content'
    BY <1>1 DEF Content
  <2>1. \A k \in 1 .. Len(toClient') : toClient'[k].same => InPlace(cfile, sfile, ThrAt + k - 1)
    BY <1>1, <1>2, <1>6, <1>7, <1>8 DEF IInv, Content
  <2> QED
    BY <1>1, <1>2, <1>3, <1>4, <2>1 DEF IInv, Content
<1> QED
  BY <1>9, <1>10, <1>11, <1>12, <1>13 DEF IInv
-----------------------------------------------------------------------------
(* The thread takes the answers in that order; *)
LEMMA ReceiveKeeps ==
  ASSUME IInv, Receive PROVE IInv'
<1> DEFINE a == Head(toClient)
<1>1. /\ thread.step = "receive" /\ thread \in Threads /\ toClient # <<>>
      /\ thread' = IF a.same THEN [thread EXCEPT !.i = @ + 1]
                   ELSE [thread EXCEPT !.step = "seek", !.block = a]
      /\ toClient' = Tail(toClient)
      /\ UNCHANGED <<cfile, offset, torn, sfile, main, server, toServer>>
  BY DEF Receive, IInv, Typed, client
<1>2. Begun /\ Begun'
  BY <1>1 DEF IInv, Handshake, Begun
<1>3. /\ toClient \in Seq(Blocks) /\ a \in Blocks /\ a = toClient[1] /\ Len(toClient) \in Nat
      /\ toClient' \in Seq(Blocks) /\ Len(toClient) > 0 /\ Len(toClient') = Len(toClient) - 1
      /\ \A k \in 1 .. Len(toClient) - 1 : toClient'[k] = toClient[k + 1]
  <2>1. toClient \in Seq(Blocks)
    BY <1>2 DEF IInv, Lanes
  <2> QED
    BY <1>1, <2>1, TailGives
<1>4. thread.i \in Nat /\ thread.i + 1 \in Nat /\ ThrAt = thread.i
      /\ ThrAt + Len(toClient) = server.i /\ ThrAt + 1 - 1 = thread.i
  <2>1. thread.i \in Nat
    BY TypedGives DEF IInv
  <2>2. ThrAt = thread.i
    BY <1>1 DEF ThrAt
  <2>3. ThrAt + Len(toClient) = server.i
    BY <1>2 DEF IInv, Counters
  <2> QED
    BY <2>1, <2>2, <2>3
<1>5. AnswerTo(sfile, a, thread.i)
  <2>1. AnswerTo(sfile, toClient[1], ThrAt + 1 - 1)
    BY <1>2, <1>3 DEF IInv, Lanes
  <2> QED
    BY <1>3, <1>4, <2>1
<1>6. ~torn /\ a.same => InPlace(cfile, sfile, thread.i)
  <2>1. ~torn /\ toClient[1].same => InPlace(cfile, sfile, ThrAt + 1 - 1)
    BY <1>2, <1>3 DEF IInv, Content
  <2> QED
    BY <1>3, <1>4, <2>1
<1> HIDE DEF a
<1>7. /\ thread' \in Threads
      /\ \/ a.same /\ thread'.step = "receive" /\ thread'.i = thread.i + 1
         \/ ~a.same /\ thread'.step = "seek" /\ thread'.i = thread.i /\ thread'.block = a
  <2>1. CASE a.same
    BY <1>1, <1>4, <2>1 DEF Threads
  <2>2. CASE ~a.same
    BY <1>1, <1>3, <2>2 DEF Threads
  <2> QED
    BY <2>1, <2>2
<1>8. SrvAt' = SrvAt /\ ThrAt' = ThrAt + 1 /\ Bound' = Bound
  BY <1>1, <1>4, <1>7 DEF SrvAt, ThrAt, Bound
<1>9. \A k \in 1 .. Len(toClient') :
         k + 1 \in 1 .. Len(toClient) /\ toClient'[k] = toClient[k + 1]
         /\ ThrAt' + k - 1 = ThrAt + (k + 1) - 1
  BY <1>3, <1>4, <1>8
<1>10. Typed'
  <2>1. Len(toClient') <= Buffer
    BY <1>3, SyncAssumption DEF IInv, Typed
  <2> QED
    BY <1>1, <1>7, <2>1 DEF IInv, Typed
<1>11. Handshake'
  BY <1>2 DEF Handshake
<1>12. Counters'
  <2>1. ThrAt' + Len(toClient') = server.i
    BY <1>3, <1>4, <1>8
  <2> QED
    BY <1>1, <1>2, <1>7, <1>8, <2>1 DEF IInv, Counters
<1>13. Lanes'
  <2>1. \A k \in 1 .. Len(toClient') : AnswerTo(sfile, toClient'[k], ThrAt' + k - 1)
    BY <1>2, <1>9 DEF IInv, Lanes
  <2>2. thread'.step \in {"seek", "write"} =>
           AnswerTo(sfile, thread'.block, thread'.i) /\ ~thread'.block.same
    BY <1>5, <1>7
  <2> QED
    BY <1>1, <1>2, <1>3, <1>8, <2>1, <2>2 DEF IInv, Lanes
<1>14. Content'
  <2> SUFFICES ASSUME ~torn PROVE Content'
    BY <1>1 DEF Content
  <2>1. \A k \in 1 .. Len(toClient') : toClient'[k].same => InPlace(cfile, sfile, ThrAt' + k - 1)
    BY <1>2, <1>9 DEF IInv, Content
  <2>2. \A b \in 0 .. thread'.i - 1 : InPlace(cfile, sfile, b)
    <3>1. \A b \in 0 .. thread.i - 1 : InPlace(cfile, sfile, b)
      BY <1>2 DEF IInv, Content
    <3>2. CASE a.same
      <4>1. \A b \in 0 .. thread'.i - 1 : b \in 0 .. thread.i - 1 \/ b = thread.i
        BY <1>4, <1>7, <3>2
      <4> QED
        BY <1>6, <3>1, <3>2, <4>1
    <3>3. CASE ~a.same
      BY <1>7, <3>1, <3>3
    <3> QED
      BY <3>2, <3>3
  <2> QED
    BY <1>1, <1>2, <1>8, <2>1, <2>2 DEF IInv, Content
<1> QED
  BY <1>10, <1>11, <1>12, <1>13, <1>14 DEF IInv

(* the offset is only torn when it is used; *)
LEMMA SeekBlockKeeps ==
  ASSUME IInv, SeekBlock PROVE IInv'
<1>1. /\ thread.step = "seek" /\ thread \in Threads
      /\ thread' = [thread EXCEPT !.step = "write"] /\ offset' = thread.block.offset
      /\ UNCHANGED <<cfile, torn, sfile, main, server, toServer, toClient>>
  BY DEF SeekBlock, IInv, Typed
<1>2. /\ thread' \in Threads /\ thread'.step = "write" /\ thread'.i = thread.i
      /\ thread'.block = thread.block /\ offset' \in Nat
  BY <1>1 DEF Threads, Blocks
<1>3. Begun /\ Begun' /\ SrvAt' = SrvAt /\ ThrAt' = ThrAt /\ Bound' = Bound
  BY <1>1, <1>2 DEF IInv, Handshake, Begun, SrvAt, ThrAt, Bound
<1> USE <1>1, <1>2, <1>3 DEF IInv
<1>4. Typed'
  BY DEF Typed
<1>5. Handshake'
  BY DEF Handshake
<1>6. Counters'
  BY DEF Counters
<1>7. Lanes'
  BY DEF Lanes
<1>8. Content'
  BY DEF Content
<1> QED
  BY <1>4, <1>5, <1>6, <1>7, <1>8

(* a block that is written where it belongs is in place, the blocks that were in
   place still are, and so are the bytes of the blocks behind it. *)
LEMMA WrittenInPlace ==
  ASSUME NEW f \in Seq(Nat), NEW s \in Seq(Nat), Len(f) <= Len(s),
         NEW b \in Nat, b < BlocksOf(Len(s)),
         NEW w, w = Overwritten(f, b * BLK_SZ, BlockOf(s, b))
  PROVE  /\ Len(w) <= Len(s) /\ InPlace(w, s, b)
         /\ \A c \in Nat : c # b /\ InPlace(f, s, c) => InPlace(w, s, c)
         /\ \A c \in Nat : \A m \in Seq(Nat) : c > b /\ HasBytes(f, c, m) => HasBytes(w, c, m)
<1> DEFINE d == BlockOf(s, b)
           o == b * BLK_SZ
<1>1. /\ d \in Seq(Nat) /\ Len(d) \in Nat /\ o \in Nat /\ Len(d) <= BLK_SZ /\ o + Len(d) <= Len(s)
      /\ \A j \in 1 .. Len(d) : d[j] = s[o + j]
      /\ \A k \in 1 .. Len(s) : k <= o + BLK_SZ => k <= o + Len(d)
  <2>1. o \in Nat
    BY Stride
  <2>2. d \in Seq(Nat)
    BY BlockGives
  <2> QED
    BY ONLY <2>1, <2>2, s \in Seq(Nat), b \in Nat, b < BlocksOf(Len(s)), BlockGives DEF d, o
<1>2. w = Overwritten(f, o, d)
  OBVIOUS
<1> HIDE DEF d, o
<1>3. /\ Len(w) = IF Len(f) > o + Len(d) THEN Len(f) ELSE o + Len(d)
      /\ \A k \in 1 .. Len(d) : w[o + k] = d[k]
      /\ \A k \in 1 .. Len(f) : k <= o \/ k > o + Len(d) => w[k] = f[k]
  <2>1. d \in Seq(Nat) /\ o \in Nat
    BY <1>1
  <2>2. LET v == Overwritten(f, o, d) IN
        /\ Len(v) = IF Len(f) > o + Len(d) THEN Len(f) ELSE o + Len(d)
        /\ \A k \in 1 .. Len(d) : v[o + k] = d[k]
        /\ \A k \in 1 .. Len(f) : k <= o \/ k > o + Len(d) => v[k] = f[k]
    BY ONLY <2>1, f \in Seq(Nat), OverwrittenGives
  <2> QED
    BY ONLY <1>2, <2>2
<1>4. Len(f) \in Nat /\ Len(s) \in Nat /\ BLK_SZ \in Nat
  BY Stride
<1>5. Len(w) \in Nat /\ Len(w) <= Len(s) /\ Len(w) >= Len(f) /\ Len(w) >= o + Len(d)
  BY <1>1, <1>3, <1>4
<1>6. InPlace(w, s, b)
  <2> SUFFICES ASSUME NEW k \in 1 .. Len(s), o < k, k <= o + BLK_SZ
               PROVE  k <= Len(w) /\ w[k] = s[k]
    BY DEF InPlace, o
  <2> DEFINE j == k - o
  <2>1. k \in Nat /\ k <= o + Len(d)
    BY <1>1
  <2>2. j \in 1 .. Len(d) /\ k = o + j
    BY ONLY <1>1, <2>1, o < k DEF j
  <2> HIDE DEF j
  <2>3. w[k] = s[k]
    BY <1>1, <1>3, <2>2
  <2> QED
    BY <1>1, <1>5, <2>1, <2>3
<1>7. ASSUME NEW c \in Nat, c # b, InPlace(f, s, c)
      PROVE  InPlace(w, s, c)
  <2> SUFFICES ASSUME NEW k \in 1 .. Len(s), c * BLK_SZ < k, k <= c * BLK_SZ + BLK_SZ
               PROVE  k <= Len(w) /\ w[k] = s[k]
    BY DEF InPlace
  <2>1. k \in 1 .. Len(f) /\ f[k] = s[k]
    BY <1>4, <1>7 DEF InPlace
  <2>2. k <= o \/ k > o + Len(d)
    <3>1. c * BLK_SZ \in Nat
      BY Stride
    <3>2. CASE c < b
      <4>1. c * BLK_SZ + BLK_SZ <= o
        BY <3>2, Stride DEF o
      <4> QED
        BY <1>1, <1>4, <3>1, <4>1
    <3>3. CASE c > b
      <4>1. o + BLK_SZ <= c * BLK_SZ
        BY <3>3, Stride DEF o
      <4> QED
        BY <1>1, <1>4, <3>1, <4>1
    <3> QED
      BY <1>7, <3>2, <3>3
  <2> QED
    BY <1>3, <1>4, <1>5, <2>1, <2>2, SMTT(60)
<1>8. ASSUME NEW c \in Nat, NEW m \in Seq(Nat), c > b, HasBytes(f, c, m)
      PROVE  HasBytes(w, c, m)
  <2> SUFFICES ASSUME NEW j \in 1 .. Len(m)
               PROVE  c * BLK_SZ + j <= Len(w) /\ w[c * BLK_SZ + j] = m[j]
    BY DEF HasBytes
  <2> DEFINE k == c * BLK_SZ + j
  <2>1. k <= Len(f) /\ f[k] = m[j]
    BY <1>8 DEF HasBytes
  <2>2. c * BLK_SZ \in Nat /\ o + BLK_SZ <= c * BLK_SZ
    BY <1>8, Stride DEF o
  <2>3. k \in Nat /\ k > o + Len(d) /\ k > 0
    BY <1>1, <1>4, <2>2
  <2> HIDE DEF k
  <2>4. k \in 1 .. Len(f)
    BY <1>4, <2>1, <2>3
  <2>5. w[k] = f[k]
    BY <1>3, <2>3, <2>4
  <2>6. k <= Len(w)
    BY ONLY <1>4, <1>5, <2>1, <2>3
  <2> QED
    BY <2>1, <2>5, <2>6 DEF k
<1> QED
  BY <1>5, <1>6, <1>7, <1>8

(* So the thread disturbs neither what main() has digested, which is of later
   blocks, nor what the server has answered. *)
LEMMA WriteBlockKeeps ==
  ASSUME IInv, WriteBlock PROVE IInv'
<1> DEFINE d == thread.block.data
<1>1. /\ thread.step = "write" /\ thread \in Threads
      /\ cfile' = Overwritten(cfile, offset, d) /\ offset' = offset + Len(d)
      /\ torn' = (torn \/ offset # thread.block.offset)
      /\ thread' = [thread EXCEPT !.step = "receive", !.i = @ + 1, !.block = NoBlock]
      /\ UNCHANGED <<sfile, main, server, toServer, toClient>>
  BY DEF WriteBlock, IInv, Typed
<1>2. Begun /\ Begun'
  BY <1>1 DEF IInv, Handshake, Begun
<1>3. /\ d \in Seq(Nat) /\ Len(d) \in Nat /\ offset \in Nat /\ cfile \in Seq(Nat)
      /\ thread.i \in Nat /\ thread.i + 1 \in Nat
  <2>1. thread.block \in Blocks /\ offset \in Nat /\ cfile \in Seq(Nat) /\ thread.i \in Nat
    BY TypedGives DEF IInv
  <2>2. d \in Seq(Nat)
    BY <2>1 DEF Blocks
  <2> HIDE DEF d
  <2> QED
    BY <2>1, <2>2
<1>4. thread' \in Threads /\ thread'.step = "receive" /\ thread'.i = thread.i + 1
  <2>1. NoBlock \in Blocks
    BY DEF NoBlock, Blocks
  <2> QED
    BY <1>1, <1>3, <2>1 DEF Threads
<1>5. cfile' \in Seq(Nat) /\ offset' \in Nat
  BY <1>1, <1>3, OverwrittenGives
<1>6. SrvAt' = SrvAt /\ ThrAt' = ThrAt /\ Bound' = Bound /\ ThrAt = thread.i + 1
  BY <1>1, <1>4 DEF SrvAt, ThrAt, Bound
<1>7. /\ sfile # NoServerFile /\ sfile \in Seq(Nat) /\ Bound \in Nat /\ Bound = BlocksOf(Len(sfile))
      /\ main.i \in Nat /\ server.i \in Nat /\ SrvAt \in Nat /\ ThrAt \in Nat
      /\ Len(toServer) \in Nat /\ Len(toClient) \in Nat
      /\ toServer \in Seq(Entries) /\ toClient \in Seq(Blocks)
  BY <1>2, TypedGives DEF IInv, Counters, Lanes
<1>8. SrvAt + Len(toServer) = main.i /\ ThrAt + Len(toClient) = server.i /\ main.i <= Bound
  BY <1>2 DEF IInv, Counters
<1>9. SrvAt >= server.i
  BY <1>7 DEF SrvAt
<1>10. /\ thread.i < server.i /\ thread.i < SrvAt /\ thread.i < main.i /\ thread.i < Bound
  <2>1. thread.i \in Nat /\ server.i \in Nat /\ SrvAt \in Nat /\ main.i \in Nat /\ Bound \in Nat
    BY <1>3, <1>7
  <2>2. thread.i + 1 <= server.i
    BY <1>6, <1>7, <1>8
  <2>3. SrvAt <= main.i
    BY <1>7, <1>8
  <2> QED
    BY ONLY <1>8, <1>9, <2>1, <2>2, <2>3
<1>11. Typed'
  <2>1. torn' \in BOOLEAN
    BY <1>1 DEF IInv, Typed
  <2> QED
    BY <1>1, <1>4, <1>5, <2>1 DEF IInv, Typed
<1>12. Handshake'
  BY <1>2 DEF Handshake
<1>13. Counters'
  BY <1>1, <1>2, <1>4, <1>6 DEF IInv, Counters
<1>14. Lanes'
  BY <1>1, <1>2, <1>4, <1>6 DEF IInv, Lanes
<1>15. Content'
  <2> SUFFICES ASSUME ~torn' PROVE Content'
    BY DEF Content
  <2>1. ~torn /\ offset = thread.i * BLK_SZ /\ d = BlockOf(sfile, thread.i)
    BY <1>1, <1>2 DEF IInv, Lanes, AnswerTo
  <2>2. Len(cfile) <= Len(sfile)
    BY <1>2, <2>1 DEF IInv, Content
  <2>3. cfile' = Overwritten(cfile, thread.i * BLK_SZ, BlockOf(sfile, thread.i))
    BY <1>1, <2>1
  <2>4. /\ Len(cfile') <= Len(sfile) /\ InPlace(cfile', sfile, thread.i)
        /\ \A c \in Nat : c # thread.i /\ InPlace(cfile, sfile, c) => InPlace(cfile', sfile, c)
        /\ \A c \in Nat : \A m \in Seq(Nat) :
              c > thread.i /\ HasBytes(cfile, c, m) => HasBytes(cfile', c, m)
    BY ONLY <1>3, <1>7, <1>10, <2>2, <2>3, WrittenInPlace
  <2>5. \A b \in 0 .. thread'.i - 1 : InPlace(cfile', sfile, b)
    <3> SUFFICES ASSUME NEW b \in 0 .. thread'.i - 1 PROVE InPlace(cfile', sfile, b)
      OBVIOUS
    <3>1. b \in Nat /\ (b = thread.i \/ b \in 0 .. thread.i - 1)
      BY <1>3, <1>4
    <3>2. b \in 0 .. thread.i - 1 => InPlace(cfile, sfile, b) /\ b # thread.i
      BY <1>2, <1>3, <2>1 DEF IInv, Content
    <3> QED
      BY <2>4, <3>1, <3>2
  <2>6. \A k \in 1 .. Len(toServer) : HasBytes(cfile', SrvAt + k - 1, toServer[k].md5)
    <3> SUFFICES ASSUME NEW k \in 1 .. Len(toServer)
                 PROVE  HasBytes(cfile', SrvAt + k - 1, toServer[k].md5)
      OBVIOUS
    <3>1. HasBytes(cfile, SrvAt + k - 1, toServer[k].md5)
      BY <1>2, <2>1 DEF IInv, Content
    <3>2. toServer[k] \in Entries
      BY <1>7
    <3>3. toServer[k].md5 \in Seq(Nat)
      BY <3>2 DEF Entries
    <3>4. SrvAt + k - 1 \in Nat /\ SrvAt + k - 1 > thread.i
      BY <1>3, <1>7, <1>10
    <3> QED
      BY <2>4, <3>1, <3>3, <3>4
  <2>7. main.step \in {"read", "send"} => HasBytes(cfile', main.i, main.buf)
    <3>1. main.step \in {"read", "send"} => HasBytes(cfile, main.i, main.buf)
      BY <1>2, <2>1 DEF IInv, Content
    <3>2. main.buf \in Seq(Nat)
      BY TypedGives DEF IInv
    <3>3. main.i > thread.i
      BY <1>3, <1>7, <1>10
    <3> QED
      BY <1>7, <2>4, <3>1, <3>2, <3>3
  <2>8. \A k \in 1 .. Len(toClient) : toClient[k].same => InPlace(cfile', sfile, ThrAt + k - 1)
    <3> SUFFICES ASSUME NEW k \in 1 .. Len(toClient), toClient[k].same
                 PROVE  InPlace(cfile', sfile, ThrAt + k - 1)
      OBVIOUS
    <3>1. InPlace(cfile, sfile, ThrAt + k - 1)
      BY <1>2, <2>1 DEF IInv, Content
    <3>2. ThrAt + k - 1 \in Nat /\ ThrAt + k - 1 # thread.i
      <4>1. thread.i \in Nat /\ ThrAt = thread.i + 1 /\ k \in Nat /\ k >= 1
        BY <1>3, <1>6, <1>7
      <4> QED
        BY ONLY <4>1
    <3> QED
      BY <2>4, <3>1, <3>2
  <2>9. server.step = "send" /\ server.answer.same => InPlace(cfile', sfile, server.i)
    <3>1. server.step = "send" /\ server.answer.same => InPlace(cfile, sfile, server.i)
      BY <1>2, <2>1 DEF IInv, Content
    <3>2. server.i # thread.i
      BY <1>3, <1>7, <1>10
    <3> QED
      BY <1>7, <2>4, <3>1, <3>2
  <2> QED
    BY <1>1, <1>2, <1>6, <2>4, <2>5, <2>6, <2>7, <2>8, <2>9 DEF Content
<1> QED
  BY <1>11, <1>12, <1>13, <1>14, <1>15 DEF IInv

(* The thread is done when all blocks are. *)
LEMMA ThreadExitKeeps ==
  ASSUME IInv, ThreadExit PROVE IInv'
<1>1. /\ thread.step = "receive" /\ thread.i = main.block_nr /\ thread \in Threads
      /\ thread' = [thread EXCEPT !.step = "done"]
      /\ UNCHANGED <<cfile, offset, torn, sfile, main, server, toServer, toClient>>
  BY DEF ThreadExit, IInv, Typed, client
<1>2. /\ thread' \in Threads /\ thread'.step = "done" /\ thread'.i = thread.i
      /\ thread'.block = thread.block
  BY <1>1 DEF Threads
<1>3. Begun /\ Begun' /\ SrvAt' = SrvAt /\ ThrAt' = ThrAt /\ Bound' = Bound
  BY <1>1, <1>2 DEF IInv, Handshake, Begun, SrvAt, ThrAt, Bound
<1> USE <1>1, <1>2, <1>3 DEF IInv
<1>4. Typed'
  BY DEF Typed
<1>5. Handshake'
  BY DEF Handshake
<1>6. Counters'
  BY DEF Counters
<1>7. Lanes'
  BY DEF Lanes
<1>8. Content'
  BY DEF Content
<1> QED
  BY <1>4, <1>5, <1>6, <1>7, <1>8
-----------------------------------------------------------------------------
(* Every step keeps the invariant. *)
LEMMA NextKeeps ==
  ASSUME IInv, [SyncNext]_syncVars PROVE IInv'
<1>1. CASE SyncNext
  BY <1>1, SendHeaderKeeps, BeginKeeps, SeekEntryKeeps, ReadEntryKeeps, SendEntryKeeps,
     AllSentKeeps, JoinKeeps, ReceiveKeeps, SeekBlockKeeps, WriteBlockKeeps, ThreadExitKeeps,
     OpenFileKeeps, CompareKeeps, AnswerKeeps DEF SyncNext, Main, Thread, Server
<1>2. CASE UNCHANGED syncVars
  <2> USE <1>2 DEF syncVars, client, IInv
  <2>1. SrvAt' = SrvAt /\ ThrAt' = ThrAt /\ Bound' = Bound /\ (Begun' <=> Begun)
    BY DEF SrvAt, ThrAt, Bound, Begun
  <2>2. Typed'
    BY DEF Typed
  <2>3. Handshake'
    BY <2>1 DEF Handshake
  <2>4. Counters'
    BY <2>1 DEF Counters
  <2>5. Lanes'
    BY <2>1 DEF Lanes
  <2>6. Content'
    BY <2>1 DEF Content
  <2> QED
    BY <2>2, <2>3, <2>4, <2>5, <2>6
<1> QED
  BY <1>1, <1>2

(* c_sync.c and s_sync.c together: IInv holds after every step of the three threads. *)
THEOREM AlwaysIInv == SyncSpec => []IInv
<1>1. SyncInit => IInv
  BY InitIInv
<1>2. IInv /\ [SyncNext]_syncVars => IInv'
  BY NextKeeps
<1> QED
  BY <1>1, <1>2, PTL DEF SyncSpec

(* Each of the three counts no further than the blocks of the server's file, no
   more is read for an entry than a block, and no socket is overfull. *)
THEOREM SyncTypeCorrect == SyncSpec => []SyncTypeOK
<1>1. IInv => SyncTypeOK
  <2> SUFFICES ASSUME IInv PROVE SyncTypeOK
    OBVIOUS
  <2>1. offset \in Nat /\ DOMAIN cfile = 1 .. Len(cfile)
    BY DEF IInv, Typed
  <2>2. main.step \in {"hello", "open", "entry", "read", "send", "join", "done"}
    BY DEF IInv, Typed, Mains
  <2>3. thread.step \in {"none", "receive", "seek", "write", "done"}
    BY DEF IInv, Typed, Threads
  <2>4. server.step \in {"open", "receive", "send", "closed"}
    BY DEF IInv, Typed, Servers
  <2>5. Len(main.buf) <= BLK_SZ /\ Len(toServer) <= Buffer /\ Len(toClient) <= Buffer
        /\ torn \in BOOLEAN
    BY DEF IInv, Typed
  <2>6. /\ main.i \in 0 .. main.block_nr /\ thread.i \in 0 .. main.block_nr
        /\ server.i \in 0 .. Bound
    <3>1. CASE Begun
      <4>1. /\ main.i \in Nat /\ thread.i \in Nat /\ server.i \in Nat /\ SrvAt \in Nat
            /\ ThrAt \in Nat /\ Bound \in Nat /\ main.block_nr = Bound
            /\ Len(toServer) \in Nat /\ Len(toClient) \in Nat
            /\ SrvAt + Len(toServer) = main.i /\ ThrAt + Len(toClient) = server.i
            /\ main.i <= Bound
        <5>1. /\ sfile # NoServerFile /\ main.block_nr = Bound /\ main.i <= Bound
              /\ SrvAt + Len(toServer) = main.i /\ ThrAt + Len(toClient) = server.i
          BY <3>1 DEF IInv, Counters
        <5>2. Len(toServer) \in Nat /\ Len(toClient) \in Nat
          BY <3>1 DEF IInv, Lanes
        <5>3. /\ main.i \in Nat /\ thread.i \in Nat /\ server.i \in Nat /\ SrvAt \in Nat
              /\ ThrAt \in Nat /\ Bound \in Nat
          BY <5>1, TypedGives DEF IInv
        <5> QED
          BY <5>1, <5>2, <5>3
      <4>2. thread.i <= ThrAt /\ server.i <= SrvAt
        <5>1. thread.i \in Nat /\ server.i \in Nat
          BY TypedGives DEF IInv
        <5> QED
          BY ONLY <5>1 DEF ThrAt, SrvAt
      <4> QED
        BY ONLY <4>1, <4>2
    <3>2. CASE ~Begun
      <4>1. Bound \in Nat
        <5>1. CASE sfile = NoServerFile
          BY <5>1, BlocksCover DEF Bound
        <5>2. CASE sfile # NoServerFile
          BY <5>2, TypedGives DEF IInv
        <5> QED
          BY <5>1, <5>2
      <4> QED
        BY <3>2, <4>1 DEF IInv, Handshake
    <3> QED
      BY <3>1, <3>2
  <2> QED
    BY <2>1, <2>2, <2>3, <2>4, <2>5, <2>6 DEF SyncTypeOK
<1> QED
  BY <1>1, AlwaysIInv, PTL

(* When c_sync returns and no thread found the offset moved, its file is that of
   the server, byte for byte. *)
THEOREM SyncCorrect == SyncSpec => []SyncedUnlessTorn
<1>1. IInv => SyncedUnlessTorn
  <2> SUFFICES ASSUME IInv, ~torn, main.step = "done" PROVE cfile = sfile
    BY DEF SyncedUnlessTorn, Synced
  <2>1. Begun
    BY DEF Begun
  <2>2. /\ sfile \in Seq(Nat) /\ Len(sfile) \in Nat /\ Bound = BlocksOf(Len(sfile))
        /\ Bound \in Nat /\ cfile \in Seq(Nat) /\ Len(cfile) \in Nat
    BY <2>1, TypedGives DEF IInv, Counters
  <2>3. thread.i = Bound /\ Len(cfile) <= Len(sfile)
        /\ \A b \in 0 .. thread.i - 1 : InPlace(cfile, sfile, b)
    BY <2>1 DEF IInv, Counters, Content
  <2>4. \A k \in 1 .. Len(sfile) : k <= Len(cfile) /\ cfile[k] = sfile[k]
    <3> SUFFICES ASSUME NEW k \in 1 .. Len(sfile) PROVE k <= Len(cfile) /\ cfile[k] = sfile[k]
      OBVIOUS
    <3>1. PICK b \in 0 .. BlocksOf(Len(sfile)) - 1 : b * BLK_SZ < k /\ k <= b * BLK_SZ + BLK_SZ
      BY <2>2, BlocksCover
    <3>2. InPlace(cfile, sfile, b)
      BY <2>2, <2>3
    <3> QED
      BY <3>1, <3>2 DEF InPlace
  <2>5. Len(cfile) = Len(sfile)
    BY <2>2, <2>3, <2>4
  <2> QED
    BY <2>2, <2>4, <2>5
<1> QED
  BY <1>1, AlwaysIInv, PTL
-----------------------------------------------------------------------------
(* Induction over the numbers.  The induction theorems of the library take an
   operator, which the provers cannot instantiate; over a set they follow from the
   strict subset relation on finite sets being well-founded. *)

(* Every set of numbers has a least one. *)
LEMMA LeastNat ==
  ASSUME NEW T, T \subseteq Nat, T # {}
  PROVE  \E x \in T : \A y \in T : x <= y
<1> DEFINE F == {0..n : n \in T}
<1>1. F \subseteq FiniteSubsetsOf(Nat) /\ F # {}
  <2>1. \A n \in Nat : IsFiniteSet(0..n)
    BY FS_Interval
  <2>2. \A n \in Nat : (0..n) \subseteq Nat
    OBVIOUS
  <2>3. \A n \in T : 0..n \in FiniteSubsetsOf(Nat)
    BY <2>1, <2>2 DEF FiniteSubsetsOf
  <2> QED
    BY <2>3
<1>2. \E S \in F : \A R \in F : <<R, S>> \notin StrictSubsetOrdering(Nat)
  BY <1>1, FS_StrictSubsetOrderingWellFounded, WFMin
<1>3. PICK x \in T : \A y \in T : <<0..y, 0..x>> \notin StrictSubsetOrdering(Nat)
  BY <1>2
<1>4. ASSUME NEW y \in T, (0..y) \subseteq (0..x), 0..y # 0..x PROVE FALSE
  <2>1. 0..y \in SUBSET Nat /\ 0..x \in SUBSET Nat
    OBVIOUS
  <2>2. <<0..y, 0..x>> \in (SUBSET Nat) \X (SUBSET Nat)
    BY <2>1
  <2> QED
    BY <1>3, <1>4, <2>2 DEF StrictSubsetOrdering
<1>5. ASSUME NEW y \in T, ~(x <= y) PROVE FALSE
  <2>1. x \in 0..x /\ x \notin 0..y /\ (0..y) \subseteq (0..x)
    BY <1>5
  <2> QED
    BY <1>4, <2>1
<1> QED
  BY <1>5

(* Induction over the set of the numbers for which a fact holds. *)
LEMMA Induction ==
  ASSUME NEW S, 0 \in S, \A n \in Nat : n \in S => n + 1 \in S
  PROVE  \A n \in Nat : n \in S
<1> DEFINE T == {n \in Nat : n \notin S}
<1> SUFFICES ASSUME T # {} PROVE FALSE
  OBVIOUS
<1>1. PICK x \in T : \A y \in T : x <= y
  BY LeastNat
<1>2. x # 0 /\ x - 1 \in Nat /\ x - 1 \notin S
  OBVIOUS
<1> QED
  BY <1>1, <1>2

-----------------------------------------------------------------------------
(* A sum over a finite set, taken out of it an element at a time: g has the sums
   over all subsets of S. *)
Pick(s) == CHOOSE x \in s : TRUE

SumsUpTo(g, v, S, n) ==
    /\ g \in [{s \in SUBSET S : Cardinality(s) <= n} -> Nat]
    /\ \A s \in DOMAIN g : g[s] = IF s = {} THEN 0 ELSE v[Pick(s)] + g[s \ {Pick(s)}]

LEMMA PickOut ==
  ASSUME NEW s, IsFiniteSet(s), s # {}
  PROVE  /\ Pick(s) \in s /\ IsFiniteSet(s \ {Pick(s)})
         /\ Cardinality(s) \in Nat /\ Cardinality(s \ {Pick(s)}) = Cardinality(s) - 1
         /\ Cardinality(s) > 0
<1>1. Pick(s) \in s
  BY DEF Pick
<1> QED
  BY <1>1, FS_RemoveElement, FS_CardinalityType, FS_EmptySet

LEMMA SumsExist ==
  ASSUME NEW S, IsFiniteSet(S), NEW v \in [S -> Nat], NEW N \in Nat
  PROVE  \E g : SumsUpTo(g, v, S, N)
<1>1. \A s \in SUBSET S : IsFiniteSet(s) /\ Cardinality(s) \in Nat
  BY FS_Subset, FS_CardinalityType
<1>2. \A s \in SUBSET S : s # {} =>
         /\ Pick(s) \in S /\ s \ {Pick(s)} \in SUBSET S
         /\ Cardinality(s \ {Pick(s)}) = Cardinality(s) - 1 /\ Cardinality(s) > 0
  BY <1>1, PickOut
<1>3. Cardinality({}) = 0
  BY FS_EmptySet
<1> DEFINE Good == {n \in Nat : \E g : SumsUpTo(g, v, S, n)}
<1>4. 0 \in Good
  <2> DEFINE D == {s \in SUBSET S : Cardinality(s) <= 0}
             g == [s \in D |-> 0]
  <2>1. ASSUME NEW s \in D PROVE s = {}
    <3>1. s \in SUBSET S /\ Cardinality(s) <= 0 /\ ~(Cardinality(s) > 0)
      BY <1>1
    <3> QED
      BY <1>2, <3>1
  <2>2. SumsUpTo(g, v, S, 0)
    BY <2>1 DEF SumsUpTo
  <2> QED
    BY <2>2
<1>5. ASSUME NEW n \in Nat, n \in Good PROVE n + 1 \in Good
  <2>1. PICK g : SumsUpTo(g, v, S, n)
    BY <1>5
  <2> DEFINE D == {s \in SUBSET S : Cardinality(s) <= n + 1}
             val(s) == IF s = {} THEN 0 ELSE v[Pick(s)] + g[s \ {Pick(s)}]
             h == [s \in D |-> val(s)]
  <2>2. ASSUME NEW s \in D
        PROVE  val(s) \in Nat /\ (s # {} => h[s \ {Pick(s)}] = g[s \ {Pick(s)}])
    <3>1. CASE s = {}
      BY <3>1
    <3>2. CASE s # {}
      <4>1. s \ {Pick(s)} \in DOMAIN g /\ s \ {Pick(s)} \in D /\ Pick(s) \in S
        <5>1. s \ {Pick(s)} \in SUBSET S /\ Pick(s) \in S /\ Cardinality(s \ {Pick(s)}) <= n
          <6>1. s \in SUBSET S /\ Cardinality(s) <= n + 1
            OBVIOUS
          <6>2. /\ s \ {Pick(s)} \in SUBSET S /\ Pick(s) \in S
                /\ Cardinality(s \ {Pick(s)}) = Cardinality(s) - 1
            BY <1>2, <3>2, <6>1
          <6>3. Cardinality(s) \in Nat
            BY <1>1, <6>1
          <6> QED
            BY <6>1, <6>2, <6>3
        <5>2. DOMAIN g = {t \in SUBSET S : Cardinality(t) <= n}
          BY <2>1 DEF SumsUpTo
        <5> QED
          BY <1>1, <5>1, <5>2
      <4>2. g[s \ {Pick(s)}] \in Nat /\ v[Pick(s)] \in Nat
        BY <2>1, <4>1 DEF SumsUpTo
      <4>3. g[s \ {Pick(s)}] = val(s \ {Pick(s)})
        BY <2>1, <4>1 DEF SumsUpTo
      <4> QED
        BY <3>2, <4>1, <4>2, <4>3
    <3> QED
      BY <3>1, <3>2
  <2>3. SumsUpTo(h, v, S, n + 1)
    BY <2>2 DEF SumsUpTo
  <2> QED
    BY <2>3
<1> QED
  <2> HIDE DEF Good
  <2>1. N \in Good
    BY <1>4, <1>5, Induction
  <2> QED
    BY <2>1 DEF Good

(* The element that is taken out first does not matter. *)
LEMMA TakeAny ==
  ASSUME NEW S, IsFiniteSet(S), NEW v \in [S -> Nat], NEW g,
         SumsUpTo(g, v, S, Cardinality(S))
  PROVE  \A t \in SUBSET S : \A k \in t :
            g[t] = v[k] + g[t \ {k}] /\ g[t \ {k}] \in Nat /\ v[k] \in Nat /\ g[t] \in Nat
<1>1. \A s \in SUBSET S : IsFiniteSet(s) /\ Cardinality(s) \in Nat /\ Cardinality(s) <= Cardinality(S)
  BY FS_Subset, FS_CardinalityType
<1>2. \A s \in SUBSET S : g[s] \in Nat /\ g[s] = IF s = {} THEN 0 ELSE v[Pick(s)] + g[s \ {Pick(s)}]
  BY <1>1 DEF SumsUpTo
<1>3. \A s \in SUBSET S : \A j \in s : /\ s \ {j} \in SUBSET S
                                       /\ Cardinality(s \ {j}) = Cardinality(s) - 1
  BY <1>1, FS_RemoveElement
<1>4. \A s \in SUBSET S : s # {} => Pick(s) \in s
  BY DEF Pick
<1> DEFINE Good == {n \in Nat : \A s \in SUBSET S : Cardinality(s) <= n =>
                                  \A j \in s : g[s] = v[j] + g[s \ {j}]}
<1>5. 0 \in Good
  <2>1. ASSUME NEW s \in SUBSET S, Cardinality(s) <= 0, NEW j \in s PROVE FALSE
    <3>1. Cardinality(s \ {j}) \in Nat /\ Cardinality(s \ {j}) = Cardinality(s) - 1
      BY <1>1, <1>3, <2>1
    <3> QED
      BY <1>1, <2>1, <3>1
  <2> QED
    BY <2>1
<1>6. ASSUME NEW n \in Nat, n \in Good PROVE n + 1 \in Good
  <2>1. ASSUME NEW s \in SUBSET S, Cardinality(s) <= n + 1, NEW j \in s
        PROVE  g[s] = v[j] + g[s \ {j}]
    <3>1. PICK p \in s : p = Pick(s) /\ g[s] = v[p] + g[s \ {p}]
      BY <1>2, <1>4
    <3>2. CASE j = p
      BY <3>1, <3>2
    <3>3. CASE j # p
      <4>1. /\ s \ {p} \in SUBSET S /\ Cardinality(s \ {p}) <= n /\ j \in s \ {p}
            /\ s \ {j} \in SUBSET S /\ Cardinality(s \ {j}) <= n /\ p \in s \ {j}
        <5>1. s \ {p} \in SUBSET S /\ j \in s \ {p} /\ s \ {j} \in SUBSET S /\ p \in s \ {j}
          BY <2>1, <3>1, <3>3
        <5>2. Cardinality(s \ {p}) = Cardinality(s) - 1 /\ Cardinality(s \ {j}) = Cardinality(s) - 1
          BY <1>3, <2>1, <3>1
        <5>3. Cardinality(s) \in Nat
          BY <1>1
        <5> QED
          BY <2>1, <5>1, <5>2, <5>3
      <4>2. g[s \ {p}] = v[j] + g[(s \ {p}) \ {j}] /\ g[s \ {j}] = v[p] + g[(s \ {j}) \ {p}]
        BY <1>6, <4>1
      <4>3. (s \ {p}) \ {j} = (s \ {j}) \ {p}
        OBVIOUS
      <4>4. v[j] \in Nat /\ v[p] \in Nat /\ g[(s \ {j}) \ {p}] \in Nat
        BY <1>2, <2>1, <3>1
      <4>5. g[s] = v[p] + (v[j] + g[(s \ {j}) \ {p}])
        BY <3>1, <4>2, <4>3
      <4>6. g[s \ {j}] = v[p] + g[(s \ {j}) \ {p}]
        BY <4>2
      <4> HIDE DEF Good
      <4> QED
        BY <4>4, <4>5, <4>6
    <3> QED
      BY <3>2, <3>3
  <2> QED
    BY <2>1
<1>7. Cardinality(S) \in Good
  <2> HIDE DEF Good
  <2> QED
    BY <1>1, <1>5, <1>6, Induction
<1>8. ASSUME NEW t \in SUBSET S, NEW k \in t
      PROVE  g[t] = v[k] + g[t \ {k}] /\ g[t \ {k}] \in Nat /\ v[k] \in Nat /\ g[t] \in Nat
  <2>1. Cardinality(t) <= Cardinality(S) /\ t \ {k} \in SUBSET S
    BY <1>1
  <2> QED
    BY <1>2, <1>7, <2>1
<1> QED
  BY <1>8

(* The sums from the first element on. *)
Along(g, v, n) ==
    /\ g[1..0] = 0
    /\ \A m \in 1..n : /\ g[1..m] = g[1..(m - 1)] + v[m]
                       /\ g[1..m] \in Nat /\ g[1..(m - 1)] \in Nat

LEMMA SumsAlong ==
  ASSUME NEW n \in Nat, NEW v \in [1..n -> Nat], NEW g, SumsUpTo(g, v, 1..n, Cardinality(1..n))
  PROVE  Along(g, v, n)
<1>1. IsFiniteSet(1..n)
  <2>1. 1 \in Int /\ n \in Int
    OBVIOUS
  <2> QED
    BY <2>1, FS_Interval
<1>2. ASSUME NEW m \in 1..n
      PROVE  /\ g[1..m] = g[1..(m - 1)] + v[m] /\ g[1..m] \in Nat /\ g[1..(m - 1)] \in Nat
  <2>1. 1..m \in SUBSET (1..n) /\ m \in 1..m /\ (1..m) \ {m} = 1..(m - 1)
    OBVIOUS
  <2>2. PICK S : S = 1..n
    OBVIOUS
  <2>3. PICK t \in SUBSET S : t = 1..m
    BY <2>1, <2>2
  <2>4. g[t] = v[m] + g[t \ {m}] /\ g[t \ {m}] \in Nat /\ v[m] \in Nat /\ g[t] \in Nat
    <3>1. m \in t
      BY <2>1, <2>3
    <3>2. IsFiniteSet(S) /\ v \in [S -> Nat] /\ SumsUpTo(g, v, S, Cardinality(S))
      BY <1>1, <2>2
    <3>3. \A u \in SUBSET S : \A k \in u :
             g[u] = v[k] + g[u \ {k}] /\ g[u \ {k}] \in Nat /\ v[k] \in Nat /\ g[u] \in Nat
      BY <3>2, TakeAny
    <3> QED
      BY <3>1, <3>3
  <2>5. t \ {m} = 1..(m - 1)
    BY <2>1, <2>3
  <2>6. g[1..m] = v[m] + g[1..(m - 1)] /\ g[1..(m - 1)] \in Nat /\ v[m] \in Nat /\ g[1..m] \in Nat
    BY <2>3, <2>4, <2>5
  <2> QED
    BY <2>6
<1>3. g[1..0] = 0
  <2>1. {} \in DOMAIN g
    BY FS_EmptySet, FS_CardinalityType, <1>1 DEF SumsUpTo
  <2>2. 1..0 = {}
    OBVIOUS
  <2> QED
    BY <2>1, <2>2 DEF SumsUpTo
<1> QED
  BY <1>2, <1>3 DEF Along

(* The fold computes it. *)
Folds(a, v, S) == a = [s \in SUBSET S |-> IF s = {} THEN 0 ELSE v[Pick(s)] + a[s \ {Pick(s)}]]

LEMMA SumOfFold ==
  ASSUME NEW S, IsFiniteSet(S), NEW v \in [S -> Nat], NEW a, Folds(a, v, S)
  PROVE  SumsUpTo(a, v, S, Cardinality(S))
<1>1. PICK g : SumsUpTo(g, v, S, Cardinality(S))
  BY SumsExist, FS_CardinalityType
<1>2. \A s \in SUBSET S : IsFiniteSet(s) /\ Cardinality(s) \in Nat /\ Cardinality(s) <= Cardinality(S)
  BY FS_Subset, FS_CardinalityType
<1>3. a = [s \in SUBSET S |-> IF s = {} THEN 0 ELSE v[Pick(s)] + a[s \ {Pick(s)}]]
  BY DEF Folds
<1> DEFINE Good == {n \in Nat : \A s \in SUBSET S : Cardinality(s) <= n => a[s] = g[s]}
<1>4. 0 \in Good
  <2>1. ASSUME NEW s \in SUBSET S, Cardinality(s) <= 0 PROVE a[s] = g[s]
    <3>1. s = {}
      <4>1. IsFiniteSet(s) /\ ~(Cardinality(s) > 0)
        BY <1>2, <2>1
      <4> QED
        BY <4>1, PickOut
    <3> QED
      BY <1>1, <1>2, <1>3, <3>1 DEF SumsUpTo
  <2> QED
    BY <2>1
<1>5. ASSUME NEW n \in Nat, n \in Good PROVE n + 1 \in Good
  <2>1. ASSUME NEW s \in SUBSET S, Cardinality(s) <= n + 1, s # {}
        PROVE  a[s] = g[s]
    <3>1. /\ s \ {Pick(s)} \in SUBSET S /\ Cardinality(s \ {Pick(s)}) <= n
      BY <1>2, <2>1, PickOut
    <3>2. a[s \ {Pick(s)}] = g[s \ {Pick(s)}]
      BY <1>5, <3>1
    <3>3. g[s] = v[Pick(s)] + g[s \ {Pick(s)}]
      BY <1>1, <1>2, <2>1 DEF SumsUpTo
    <3>4. a[s] = v[Pick(s)] + a[s \ {Pick(s)}]
      BY <1>3, <2>1
    <3> QED
      BY <3>2, <3>3, <3>4
  <2>2. ASSUME NEW s \in SUBSET S, s = {} PROVE a[s] = g[s]
    BY <1>1, <1>2, <1>3, <2>2 DEF SumsUpTo
  <2>3. \A s \in SUBSET S : Cardinality(s) <= n + 1 => a[s] = g[s]
    BY <2>1, <2>2
  <2>4. n + 1 \in Nat
    OBVIOUS
  <2> QED
    BY <2>3, <2>4
<1>6. Cardinality(S) \in Good
  <2> HIDE DEF Good
  <2> QED
    BY <1>2, <1>4, <1>5, Induction
<1>7. \A s \in SUBSET S : a[s] = g[s]
  BY <1>2, <1>6
<1>8. DOMAIN g = SUBSET S /\ DOMAIN a = SUBSET S
  BY <1>1, <1>2, <1>3 DEF SumsUpTo
<1>9. a = g
  BY <1>1, <1>7, <1>8, <1>3 DEF SumsUpTo
<1> QED
  BY <1>1, <1>9
-----------------------------------------------------------------------------
(* The remainder by a fixed number. *)
LEMMA Remainder ==
  ASSUME NEW m \in Nat \ {0}, NEW a \in Int
  PROVE  a % m \in 0..(m - 1) /\ \E q \in Int : a = q * m + (a % m)
<1>1. a % m \in 0..(m - 1) /\ a = (a \div m) * m + (a % m) /\ a \div m \in Int
  OBVIOUS
<1> QED
  BY <1>1

LEMMA RemainderIs ==
  ASSUME NEW m \in Nat \ {0}
  PROVE  \A q \in Int, a \in Int : \A r \in 0..(m - 1) : a = q * m + r => a % m = r
<1> SUFFICES ASSUME NEW q \in Int, NEW a \in Int, NEW r \in 0..(m - 1), a = q * m + r
             PROVE  a % m = r
  OBVIOUS
<1>1. PICK p \in Int : a = p * m + (a % m)
  BY Remainder
<1>2. a % m \in 0..(m - 1)
  BY Remainder
<1>3. PICK s \in 0..(m - 1) : s = a % m
  BY <1>2
<1>4. PICK d \in Int : d = p - q
  OBVIOUS
<1>5. d * m = r - s
  <2>1. p * m - q * m = (p - q) * m
    OBVIOUS
  <2> QED
    BY <1>1, <1>3, <1>4, <2>1
<1>6. ~(d >= 1)
  <2>1. d >= 1 => d * m >= m
    OBVIOUS
  <2> QED
    BY <1>5, <2>1
<1>7. ~(d <= -1)
  <2>1. d <= -1 => d * m <= -m
    OBVIOUS
  <2> QED
    BY <1>5, <2>1
<1>8. d = 0
  BY <1>6, <1>7
<1> QED
  BY <1>3, <1>5, <1>8

(* Numbers that differ by a multiple have the same. *)
LEMMA SameRemainder ==
  ASSUME NEW m \in Nat \ {0}, NEW a \in Int, NEW b \in Int, NEW d \in Int, a = b + d * m
  PROVE  a % m = b % m
<1>1. PICK q \in Int : b = q * m + (b % m)
  BY Remainder
<1>2. PICK r \in 0..(m - 1) : r = b % m
  BY Remainder
<1>3. PICK p \in Int : a = p * m + r
  <2>1. (q + d) * m = q * m + d * m
    OBVIOUS
  <2>2. q + d \in Int /\ a = (q + d) * m + r
    BY <1>1, <1>2, <2>1
  <2> QED
    BY <2>2
<1>4. a % m = r
  <2>1. r \in 0..(m - 1) /\ p \in Int /\ a = p * m + r
    BY <1>2, <1>3
  <2>2. \A x \in Int, y \in Int : \A t \in 0..(m - 1) : y = x * m + t => y % m = t
    BY RemainderIs
  <2> QED
    BY <2>1, <2>2, Zenon
<1> QED
  BY <1>2, <1>4
-----------------------------------------------------------------------------
(* The two sums of a block, from its first byte on. *)
LEMMA FoldIsSum ==
  ASSUME NEW n \in Nat, NEW v \in [1..n -> Nat], NEW a,
         a = CHOOSE g : g = [s \in SUBSET (1..n) |->
                                IF s = {} THEN 0 ELSE v[Pick(s)] + g[s \ {Pick(s)}]]
  PROVE  SumsUpTo(a, v, 1..n, Cardinality(1..n))
<1>1. IsFiniteSet(1..n)
  <2>1. 1 \in Int /\ n \in Int
    OBVIOUS
  <2> QED
    BY <2>1, FS_Interval
<1>2. PICK S : S = 1..n
  OBVIOUS
<1>3. IsFiniteSet(S) /\ v \in [S -> Nat]
  BY <1>1, <1>2
<1>4. PICK h : SumsUpTo(h, v, S, Cardinality(S))
  BY <1>3, SumsExist, FS_CardinalityType
<1>5. {s \in SUBSET S : Cardinality(s) <= Cardinality(S)} = SUBSET S
  BY <1>3, FS_Subset
<1>6. h = [s \in SUBSET S |-> IF s = {} THEN 0 ELSE v[Pick(s)] + h[s \ {Pick(s)}]]
  BY <1>4, <1>5 DEF SumsUpTo
<1>7. Folds(a, v, S)
  <2>1. a = CHOOSE g : g = [s \in SUBSET S |->
                                IF s = {} THEN 0 ELSE v[Pick(s)] + g[s \ {Pick(s)}]]
    BY <1>2
  <2> QED
    BY <1>6, <2>1 DEF Folds
<1>8. SumsUpTo(a, v, S, Cardinality(S))
  BY <1>3, <1>7, SumOfFold
<1> QED
  BY <1>2, <1>8

LEMMA PlainSum ==
  ASSUME NEW n \in Nat, NEW b \in [1..n -> Nat]
  PROVE  \E g : /\ SumsUpTo(g, b, 1..n, Cardinality(1..n))
                /\ MapThenSumSet(LAMBDA i : b[i], DOMAIN b) = g[1..n]
<1> DEFINE a == CHOOSE g : g = [s \in SUBSET (1..n) |->
                                   IF s = {} THEN 0 ELSE b[Pick(s)] + g[s \ {Pick(s)}]]
<1>1. DOMAIN b = 1..n
  OBVIOUS
<1>2. MapThenSumSet(LAMBDA i : b[i], 1..n) = a[1..n]
  BY DEF MapThenSumSet, MapThenFoldSet, Pick
<1>3. SumsUpTo(a, b, 1..n, Cardinality(1..n))
  BY FoldIsSum
<1> QED
  BY <1>1, <1>2, <1>3

Weighted(v, b, n) == v = [i \in 1..n |-> (n - i + 1) * b[i]]

LEMMA WeightedSum ==
  ASSUME NEW n \in Nat, NEW b \in [1..n -> Nat], NEW v, Weighted(v, b, n)
  PROVE  \E g : /\ SumsUpTo(g, v, 1..n, Cardinality(1..n))
                /\ MapThenSumSet(LAMBDA i : (Len(b) - i + 1) * b[i], DOMAIN b) = g[1..n]
<1> DEFINE w(i) == (Len(b) - i + 1) * b[i]
           F(S, g) == [s \in SUBSET S |-> IF s = {} THEN 0 ELSE w(Pick(s)) + g[s \ {Pick(s)}]]
           a == CHOOSE g : g = F(1..n, g)
<1>1. DOMAIN b = 1..n /\ Len(b) = n
  OBVIOUS
<1>2. MapThenSumSet(w, 1..n) = a[1..n]
  BY DEF MapThenSumSet, MapThenFoldSet, Pick
<1>3. v \in [1..n -> Nat]
  <2>1. ASSUME NEW i \in 1..n PROVE (n - i + 1) * b[i] \in Nat
    <3>1. n - i + 1 \in Nat /\ b[i] \in Nat
      OBVIOUS
    <3> QED
      BY <3>1
  <2> QED
    BY <2>1 DEF Weighted
<1>4. IsFiniteSet(1..n)
  <2>1. 1 \in Int /\ n \in Int
    OBVIOUS
  <2> QED
    BY <2>1, FS_Interval
<1>5. PICK S : S = 1..n
  OBVIOUS
<1>6. IsFiniteSet(S) /\ v \in [S -> Nat]
  BY <1>3, <1>4, <1>5
<1>7. \A s \in SUBSET S : s # {} => w(Pick(s)) = v[Pick(s)]
  <2>1. ASSUME NEW s \in SUBSET S, s # {} PROVE Pick(s) \in 1..n
    BY <1>5, <2>1 DEF Pick
  <2> QED
    BY <1>1, <2>1 DEF Weighted
<1>8. PICK h : SumsUpTo(h, v, S, Cardinality(S))
  BY <1>6, SumsExist, FS_CardinalityType
<1>9. {s \in SUBSET S : Cardinality(s) <= Cardinality(S)} = SUBSET S
  BY <1>6, FS_Subset
<1>10. h = [s \in SUBSET S |-> IF s = {} THEN 0 ELSE v[Pick(s)] + h[s \ {Pick(s)}]]
  BY <1>8, <1>9 DEF SumsUpTo
<1>11. h = F(S, h)
  BY <1>7, <1>10
<1>12. a = F(S, a)
  <2>1. a = CHOOSE g : g = F(S, g)
    BY <1>5
  <2> HIDE DEF a
  <2> QED
    BY <1>11, <2>1
<1>13. Folds(a, v, S)
  <2> HIDE DEF a
  <2> QED
    BY <1>7, <1>12 DEF Folds
<1>14. SumsUpTo(a, v, S, Cardinality(S))
  <2> HIDE DEF a
  <2> QED
    BY <1>6, <1>13, SumOfFold
<1> QED
  BY <1>1, <1>2, <1>5, <1>14
-----------------------------------------------------------------------------
(* The sums of a window and of the one behind it. *)
Prefix(P, v, n) ==
    /\ P[0] = 0
    /\ \A m \in 1..n : P[m] = P[m - 1] + v[m]
    /\ \A m \in 0..n : P[m] \in Nat

LEMMA SumsArePrefix ==
  ASSUME NEW n \in Nat, NEW v \in [1..n -> Nat], NEW g, SumsUpTo(g, v, 1..n, Cardinality(1..n))
  PROVE  Prefix([m \in 0..n |-> g[1..m]], v, n)
<1>1. Along(g, v, n)
  BY SumsAlong
<1>2. ASSUME NEW m \in 0..n PROVE g[1..m] \in Nat
  <2>1. CASE m = 0
    BY <1>1, <2>1 DEF Along
  <2>2. CASE m # 0
    <3>1. m \in 1..n
      BY <2>2
    <3> QED
      BY <1>1, <3>1 DEF Along
  <2> QED
    BY <2>1, <2>2
<1>3. ASSUME NEW m \in 1..n PROVE g[1..m] = g[1..(m - 1)] + v[m] /\ m \in 0..n /\ m - 1 \in 0..n
  BY <1>1 DEF Along
<1>4. g[1..0] = 0 /\ 0 \in 0..n
  BY <1>1 DEF Along
<1> QED
  BY <1>2, <1>3, <1>4 DEF Prefix

NextSums(b, c, n, x, y, s, t) == s = x - b[1] + c[n] /\ t = y - n * b[1] + s

Slides(b, c, n) == \A i \in 1..(n - 1) : c[i] = b[i + 1]

LEMMA NextWindow ==
  ASSUME NEW n \in Nat \ {0}, NEW b \in [1..n -> Nat], NEW c \in [1..n -> Nat],
         Slides(b, c, n),
         NEW P, Prefix(P, b, n), NEW Q, Prefix(Q, c, n),
         NEW v, Weighted(v, b, n), NEW P2, Prefix(P2, v, n),
         NEW w, Weighted(w, c, n), NEW Q2, Prefix(Q2, w, n)
  PROVE  NextSums(b, c, n, P[n], P2[n], Q[n], Q2[n])
<1> DEFINE Good == {m \in Nat : m <= n - 1 =>
                      /\ Q[m] = P[m + 1] - b[1]
                      /\ Q2[m] = P2[m + 1] - n * b[1] + Q[m]}
<1>1. /\ \A m \in 0..n : P[m] \in Nat /\ Q[m] \in Nat /\ P2[m] \in Nat /\ Q2[m] \in Nat
      /\ P[0] = 0 /\ Q[0] = 0 /\ P2[0] = 0 /\ Q2[0] = 0
  BY DEF Prefix
<1>2. \A m \in 1..n : P[m] = P[m - 1] + b[m] /\ Q[m] = Q[m - 1] + c[m]
  BY DEF Prefix
<1>3. \A m \in 1..n : /\ P2[m] = P2[m - 1] + (n - m + 1) * b[m]
                      /\ Q2[m] = Q2[m - 1] + (n - m + 1) * c[m]
  BY DEF Prefix, Weighted
<1>4. 0 \in Good
  <2>1. 1 \in 1..n /\ b[1] \in Nat
    OBVIOUS
  <2>2. P[1] = P[0] + b[1] /\ P2[1] = P2[0] + (n - 1 + 1) * b[1]
    BY <1>2, <1>3, <2>1
  <2>3. n - 1 + 1 = n /\ n * b[1] \in Int
    BY <2>1
  <2>4. P[1] = b[1] /\ P2[1] = n * b[1]
    BY <1>1, <2>1, <2>2, <2>3
  <2>5. Q[0] = P[1] - b[1] /\ Q2[0] = P2[1] - n * b[1] + Q[0]
    BY <1>1, <2>1, <2>3, <2>4
  <2>6. 0 + 1 = 1
    OBVIOUS
  <2> QED
    BY <2>5, <2>6
<1>5. ASSUME NEW m \in Nat, m \in Good PROVE m + 1 \in Good
  <2>1. CASE m + 1 <= n - 1
    <3>1. Q[m] = P[m + 1] - b[1] /\ Q2[m] = P2[m + 1] - n * b[1] + Q[m]
      BY <1>5, <2>1
    <3>2. PICK i \in 1..n, j \in 1..n : i = m + 1 /\ j = m + 2
      BY <2>1
    <3>3. i - 1 = m /\ j - 1 = i /\ i \in 1..(n - 1) /\ i + 1 = j /\ 1 \in 1..n /\ m \in 0..n /\ i \in 0..n
      BY <2>1, <3>2
    <3>4. P[j] = P[j - 1] + b[j] /\ Q[i] = Q[i - 1] + c[i] /\ c[i] = b[i + 1]
      BY <1>2, <3>3 DEF Slides
    <3>5. P2[j] = P2[j - 1] + (n - j + 1) * b[j] /\ Q2[i] = Q2[i - 1] + (n - i + 1) * c[i]
      BY <1>3, <3>3
    <3>6. PICK x \in Nat : x = b[j]
      OBVIOUS
    <3>7. PICK z \in Int : z = (n - j + 1) * x
      BY <3>6
    <3>8. (n - i + 1) * x = z + x
      <4>1. n - i + 1 = (n - j + 1) + 1
        BY <3>2
      <4>2. ((n - j + 1) + 1) * x = (n - j + 1) * x + x
        BY <3>6
      <4> QED
        BY <3>7, <4>1, <4>2
    <3>9. PICK y \in Nat : y = b[1]
      BY <3>3
    <3>10. PICK u \in Int : u = n * y
      BY <3>9
    <3>11. P[j] = P[i] + x /\ Q[i] = Q[m] + x
      BY <3>3, <3>4, <3>6
    <3>12. P2[j] = P2[i] + z /\ Q2[i] = Q2[m] + (z + x)
      BY <3>3, <3>4, <3>5, <3>6, <3>7, <3>8
    <3>13. P[i] \in Nat /\ P2[i] \in Nat /\ Q[m] \in Nat /\ Q2[m] \in Nat
      BY <1>1, <3>3
    <3>14. Q[m] = P[i] - y /\ Q2[m] = P2[i] - u + Q[m]
      BY <3>1, <3>2, <3>9, <3>10
    <3>15. Q[i] = P[j] - y /\ Q2[i] = P2[j] - u + Q[i]
      <4>1. \A p, q \in Int : q = p - y => q + x = (p + x) - y
        OBVIOUS
      <4>2. \A p, q, t \in Int : t = p - u + q => t + (z + x) = (p + z) - u + (q + x)
        OBVIOUS
      <4>3. P[i] \in Int /\ P2[i] \in Int /\ Q[m] \in Int /\ Q2[m] \in Int
        BY <3>13
      <4>4. Q[m] + x = (P[i] + x) - y
        BY <3>14, <4>1, <4>3, Zenon
      <4>5. Q2[m] + (z + x) = (P2[i] + z) - u + (Q[m] + x)
        <5>1. Q2[m] = P2[i] - u + Q[m]
          BY <3>14
        <5>2. PICK p \in Int : p = P2[i]
          BY <4>3
        <5>3. PICK q \in Int : q = Q[m]
          BY <4>3
        <5>4. PICK t \in Int : t = Q2[m]
          BY <4>3
        <5>5. t + (z + x) = (p + z) - u + (q + x)
          <6>1. t = p - u + q
            BY <5>1, <5>2, <5>3, <5>4, Zenon
          <6> QED
            BY <4>2, <6>1, Zenon
        <5> QED
          BY <5>2, <5>3, <5>4, <5>5, Zenon
      <4> QED
        BY <3>11, <3>12, <4>4, <4>5, Zenon
    <3>16. m + 1 = i /\ m + 1 + 1 = j /\ m + 1 \in Nat
      BY <3>2
    <3> QED
      BY <3>9, <3>10, <3>15, <3>16
  <2>2. CASE ~(m + 1 <= n - 1)
    BY <2>2
  <2> QED
    BY <2>1, <2>2
<1>6. n - 1 \in Good
  <2>1. n - 1 \in Nat
    OBVIOUS
  <2> HIDE DEF Good
  <2> QED
    BY <1>4, <1>5, <2>1, Induction
<1>7. Q[n - 1] = P[n] - b[1] /\ Q2[n - 1] = P2[n] - n * b[1] + Q[n - 1]
  <2>1. n - 1 + 1 = n /\ n - 1 <= n - 1
    OBVIOUS
  <2> QED
    BY <1>6, <2>1
<1>8. Q[n] = Q[n - 1] + c[n] /\ Q2[n] = Q2[n - 1] + c[n]
  <2>1. n \in 1..n /\ n - n + 1 = 1 /\ 1 * c[n] = c[n]
    OBVIOUS
  <2>2. Q2[n] = Q2[n - 1] + (n - n + 1) * c[n]
    BY <1>3, <2>1
  <2> QED
    BY <1>2, <2>1, <2>2
<1>9. /\ P[n] \in Nat /\ P2[n] \in Nat /\ Q[n - 1] \in Nat /\ Q2[n - 1] \in Nat
      /\ b[1] \in Nat /\ c[n] \in Nat /\ n * b[1] \in Int
  <2>1. 1 \in 1..n /\ n \in 1..n /\ n \in 0..n /\ n - 1 \in 0..n
    OBVIOUS
  <2> QED
    BY <1>1, <2>1
<1>10. PICK u \in Int : u = n * b[1]
  BY <1>9
<1>11. PICK x \in Nat, y \in Nat : x = b[1] /\ y = c[n]
  BY <1>9
<1>12. Q[n] = P[n] - x + y
  BY <1>7, <1>8, <1>9, <1>11
<1>13. Q2[n] = P2[n] - u + Q[n]
  <2>1. \A p, q, t \in Int : t = p - u + q => t + y = p - u + (q + y)
    OBVIOUS
  <2>2. Q2[n - 1] = P2[n] - u + Q[n - 1]
    BY <1>7, <1>10
  <2>3. Q2[n - 1] + y = P2[n] - u + (Q[n - 1] + y)
    <3>1. P2[n] \in Int /\ Q[n - 1] \in Int /\ Q2[n - 1] \in Int
      BY <1>9
    <3> QED
      BY <2>1, <2>2, <3>1, Zenon
  <2>4. y = c[n]
    BY <1>11
  <2> QED
    BY <1>8, <2>3, <2>4, Zenon
<1> QED
  BY <1>10, <1>11, <1>12, <1>13 DEF NextSums
-----------------------------------------------------------------------------
(* 32 bits hold every checksum, so that wrapping does not change its remainder. *)
LEMMA WrapKeeps ==
  ASSUME NEW x \in Int
  PROVE  U32(x) % ROLLING_CHKSUM_M = x % ROLLING_CHKSUM_M
<1>1. PICK M \in Nat \ {0} : M = ROLLING_CHKSUM_M
  BY RollingSyncAssumption
<1>2. PICK N \in Nat \ {0} : N = M * M
  <2>1. M >= 1 => M * M >= 1
    OBVIOUS
  <2>2. M * M \in Nat \ {0}
    BY <2>1
  <2> QED
    BY <2>2
<1>3. PICK q \in Int : x = q * N + (x % N)
  BY Remainder
<1>4. PICK r \in Int : r = x % N
  BY Remainder
<1>5. PICK d \in Int : d = -(q * M)
  OBVIOUS
<1>6. r = x + d * M
  <2>1. d * M = -(q * (M * M))
    BY <1>5
  <2>2. d * M = -(q * N)
    BY <1>2, <2>1
  <2>3. PICK u \in Int : u = q * N
    OBVIOUS
  <2> QED
    BY <1>3, <1>4, <2>2, <2>3
<1>7. r % M = x % M
  BY <1>6, SameRemainder
<1> QED
  BY <1>1, <1>2, <1>4, <1>7 DEF U32

(* Sums of remainders. *)
LEMMA OneRemainder ==
  ASSUME NEW M \in Nat \ {0}
  PROVE  \A a, b \in Int : ((a % M) + b) % M = (a + b) % M
<1> SUFFICES ASSUME NEW a \in Int, NEW b \in Int PROVE ((a % M) + b) % M = (a + b) % M
  OBVIOUS
<1>1. PICK p \in Int : a = p * M + (a % M)
  BY Remainder
<1>2. PICK r \in Nat : r = a % M
  BY Remainder
<1>3. PICK u \in Int : u = -p
  OBVIOUS
<1>4. PICK x \in Int : x = p * M
  OBVIOUS
<1>5. u * M = -x
  <2>1. (-p) * M = -(p * M)
    OBVIOUS
  <2> QED
    BY <1>3, <1>4, <2>1
<1>6. PICK y \in Int : y = r + b
  OBVIOUS
<1>7. PICK z \in Int : z = a + b
  OBVIOUS
<1>8. y = z + u * M
  <2>1. a = x + r
    BY <1>1, <1>2, <1>4
  <2> QED
    BY <1>5, <1>6, <1>7, <2>1
<1>9. y % M = z % M
  BY <1>8, SameRemainder
<1> QED
  BY <1>2, <1>6, <1>7, <1>9

SumsAgree(M, a, b, c) == ((a % M) + b + (c % M)) % M = (a + b + c) % M

LEMMA TwoRemainders ==
  ASSUME NEW M \in Nat \ {0}
  PROVE  \A a, b, c \in Int : SumsAgree(M, a, b, c)
<1> SUFFICES ASSUME NEW a \in Int, NEW b \in Int, NEW c \in Int
             PROVE  ((a % M) + b + (c % M)) % M = (a + b + c) % M
  BY DEF SumsAgree
<1>1. PICK r \in Int : r = a % M
  BY Remainder
<1>2. PICK s \in Int : s = c % M
  BY Remainder
<1>3. (r + (b + s)) % M = (a + (b + s)) % M
  <2>1. b + s \in Int
    OBVIOUS
  <2> QED
    BY <1>1, <2>1, OneRemainder
<1>4. (s + (a + b)) % M = (c + (a + b)) % M
  <2>1. a + b \in Int
    OBVIOUS
  <2> QED
    BY <1>2, <2>1, OneRemainder
<1>5. /\ r + (b + s) = r + b + s /\ a + (b + s) = s + (a + b)
      /\ c + (a + b) = a + b + c
  OBVIOUS
<1> QED
  BY <1>1, <1>2, <1>3, <1>4, <1>5
-----------------------------------------------------------------------------
(* A chain as a sequence q of m entries: those of E with the hash h, the first
   only of those that are the same, in the order of their checksums; *)
FirstIn(E, k) == \A j \in 1..(k - 1) : ~Same(E[j], E[k])

Members(q, m, h, E) ==
    \A k \in 1..Len(E) : (\E i \in 1..m : q[i] = k) <=> Hash(E[k]) = h /\ FirstIn(E, k)

Sorted(q, m, E) ==
    \A i, j \in 1..m : i <= j => E[q[i]].rolling_chksm <= E[q[j]].rolling_chksm

Order(q, m, h, E) ==
    /\ q \in [1..m -> 1..Len(E)]
    /\ \A i, j \in 1..m : q[i] = q[j] => i = j
    /\ Members(q, m, h, E) /\ Sorted(q, m, E)

(* and how it is linked. *)
Links(q, m, hd, nx, pr) ==
    /\ hd = IF m = 0 THEN NIL ELSE q[1]
    /\ \A i \in 1..m : nx[q[i]] = IF i = m THEN q[i] ELSE q[i + 1]
    /\ \A i \in 1..m : pr[q[i]] = IF i = 1 THEN q[i] ELSE q[i - 1]

Insert(q, m, p, k) ==
    [i \in 1..(m + 1) |-> IF i < p THEN q[i] ELSE IF i = p THEN k ELSE q[i - 1]]

(* The links with k at the place p of q. *)
Relinked(q, m, p, k, n, nx, pr, nx2, pr2) ==
    /\ nx2[k] = IF p = m + 1 THEN k ELSE q[p]
    /\ pr2[k] = IF p = 1 THEN k ELSE q[p - 1]
    /\ p > 1 => nx2[q[p - 1]] = k
    /\ p <= m => pr2[q[p]] = k
    /\ \A j \in 1..n : (p > 1 => j # q[p - 1]) => nx2[j] = nx[j]
    /\ \A j \in 1..n : (p <= m => j # q[p]) => pr2[j] = pr[j]

Inserted(r, q, m, p, k) ==
    /\ \A i \in 1..m : i < p => r[i] = q[i]
    /\ r[p] = k
    /\ \A i \in 1..m : i >= p => r[i + 1] = q[i]
    /\ \A i \in 1..(m + 1) : i > p => \E j \in 1..m : i = j + 1 /\ j >= p /\ r[i] = q[j]

LEMMA InsertIs ==
  ASSUME NEW m \in Nat, NEW p \in 1..(m + 1), NEW q, NEW k, NEW r, r = Insert(q, m, p, k)
  PROVE  Inserted(r, q, m, p, k)
<1>1. ASSUME NEW i \in 1..m, i < p PROVE r[i] = q[i]
  <2>1. i \in 1..(m + 1)
    OBVIOUS
  <2> QED
    BY <1>1, <2>1 DEF Insert
<1>2. r[p] = k
  BY DEF Insert
<1>3. ASSUME NEW i \in 1..m, i >= p PROVE r[i + 1] = q[i]
  <2>1. i + 1 \in 1..(m + 1) /\ ~(i + 1 < p) /\ i + 1 # p /\ i + 1 - 1 = i
    BY <1>3
  <2> QED
    BY <2>1 DEF Insert
<1>4. ASSUME NEW i \in 1..(m + 1), i > p
      PROVE  \E j \in 1..m : i = j + 1 /\ j >= p /\ r[i] = q[j]
  <2>1. PICK j \in 1..m : i = j + 1 /\ j >= p
    <3>1. i - 1 \in 1..m /\ i = i - 1 + 1 /\ i - 1 >= p
      BY <1>4
    <3> QED
      BY <3>1
  <2> QED
    BY <1>3, <2>1
<1> QED
  BY <1>1, <1>2, <1>3, <1>4 DEF Inserted

LEMMA InsertLinks ==
  ASSUME NEW m \in Nat, NEW n \in Nat, NEW q \in [1..m -> 1..n],
         \A i, j \in 1..m : q[i] = q[j] => i = j,
         NEW p \in 1..(m + 1), NEW k, k = n + 1,
         NEW hd, NEW nx, NEW pr, Links(q, m, hd, nx, pr),
         NEW hd2, hd2 = IF p = 1 THEN k ELSE hd,
         NEW nx2, NEW pr2, Relinked(q, m, p, k, n, nx, pr, nx2, pr2)
  PROVE  Links(Insert(q, m, p, k), m + 1, hd2, nx2, pr2)
<1>1. PICK r : r = Insert(q, m, p, k)
  OBVIOUS
<1>2. Inserted(r, q, m, p, k)
  BY <1>1, InsertIs
<1>3. /\ \A i \in 1..m : i < p => r[i] = q[i]
      /\ r[p] = k
      /\ \A i \in 1..m : i >= p => r[i + 1] = q[i]
  BY <1>2 DEF Inserted
<1>4. \A i \in 1..(m + 1) : i > p => \E j \in 1..m : i = j + 1 /\ j >= p /\ r[i] = q[j]
  BY <1>2 DEF Inserted
<1>5. hd2 = r[1]
  <2>1. CASE p = 1
    BY <1>3, <2>1
  <2>2. CASE p > 1
    <3>1. m # 0 /\ 1 \in 1..m
      BY <2>2
    <3> QED
      BY <1>3, <2>2, <3>1 DEF Links
  <2> QED
    BY <2>1, <2>2
<1>6. ASSUME NEW i \in 1..(m + 1) PROVE nx2[r[i]] = IF i = m + 1 THEN r[i] ELSE r[i + 1]
  <2>1. CASE i < p - 1
    <3>1. i \in 1..m /\ i + 1 \in 1..m /\ p - 1 \in 1..m /\ i # p - 1 /\ p > 1 /\ i + 1 < p
          /\ i # m /\ i # m + 1
      BY <2>1
    <3>2. r[i] = q[i] /\ r[i + 1] = q[i + 1] /\ q[i] # q[p - 1] /\ q[i] \in 1..n
      BY <1>3, <2>1, <3>1
    <3>3. nx2[q[i]] = nx[q[i]] /\ nx[q[i]] = q[i + 1]
      BY <3>1, <3>2 DEF Relinked, Links
    <3> QED
      BY <3>1, <3>2, <3>3
  <2>2. CASE i = p - 1
    <3>1. i \in 1..m /\ i < p /\ i + 1 = p /\ p > 1 /\ i # m + 1
      BY <2>2
    <3>2. r[i] = q[p - 1] /\ r[i + 1] = k
      BY <1>3, <2>2, <3>1
    <3> QED
      BY <3>1, <3>2 DEF Relinked
  <2>3. CASE i = p
    <3>1. CASE p = m + 1
      BY <1>3, <2>3, <3>1 DEF Relinked
    <3>2. CASE p # m + 1
      <4>1. p \in 1..m /\ i + 1 = p + 1
        BY <2>3, <3>2
      <4>2. r[p + 1] = q[p]
        BY <1>3, <4>1
      <4> QED
        BY <1>3, <2>3, <3>2, <4>1, <4>2 DEF Relinked
    <3> QED
      BY <3>1, <3>2
  <2>4. CASE i > p
    <3>1. PICK j \in 1..m : i = j + 1 /\ j >= p /\ r[i] = q[j]
      BY <1>4, <2>4
    <3>2. (p > 1 => q[j] # q[p - 1]) /\ q[j] \in 1..n
      <4>1. p > 1 => p - 1 \in 1..m /\ p - 1 # j
        BY <3>1
      <4> QED
        BY <4>1
    <3>3. nx2[q[j]] = IF j = m THEN q[j] ELSE q[j + 1]
      BY <3>2 DEF Relinked, Links
    <3>4. CASE j = m
      BY <3>1, <3>3, <3>4
    <3>5. CASE j # m
      <4>1. i \in 1..m /\ i >= p /\ j + 1 = i /\ i # m + 1
        BY <3>1, <3>5
      <4>2. r[i + 1] = q[i]
        BY <1>3, <4>1
      <4> QED
        BY <3>1, <3>3, <3>5, <4>1, <4>2
    <3> QED
      BY <3>4, <3>5
  <2> QED
    BY <2>1, <2>2, <2>3, <2>4
<1>7. ASSUME NEW i \in 1..(m + 1) PROVE pr2[r[i]] = IF i = 1 THEN r[i] ELSE r[i - 1]
  <2>1. CASE i < p
    <3>1. i \in 1..m
      BY <2>1
    <3>2. r[i] = q[i] /\ q[i] \in 1..n
      BY <1>3, <2>1, <3>1
    <3>3. p <= m => q[i] # q[p]
      BY <2>1, <3>1
    <3>4. pr2[q[i]] = IF i = 1 THEN q[i] ELSE q[i - 1]
      BY <3>1, <3>2, <3>3 DEF Relinked, Links
    <3>5. i # 1 => r[i - 1] = q[i - 1]
      <4>1. i # 1 => i - 1 \in 1..m /\ i - 1 < p
        BY <2>1, <3>1
      <4> QED
        BY <1>3, <4>1
    <3> QED
      BY <3>2, <3>4, <3>5
  <2>2. CASE i = p
    <3>1. p # 1 => r[p - 1] = q[p - 1]
      <4>1. p # 1 => p - 1 \in 1..m /\ p - 1 < p
        OBVIOUS
      <4> QED
        BY <1>3, <4>1
    <3> QED
      BY <1>3, <2>2, <3>1 DEF Relinked
  <2>3. CASE i > p
    <3>1. PICK j \in 1..m : i = j + 1 /\ j >= p /\ r[i] = q[j]
      BY <1>4, <2>3
    <3>2. CASE j = p
      <4>1. p <= m /\ r[i - 1] = k /\ i # 1
        BY <1>3, <2>3, <3>1, <3>2
      <4> QED
        BY <3>1, <3>2, <4>1 DEF Relinked
    <3>3. CASE j > p
      <4>1. q[j] # q[p] /\ q[j] \in 1..n /\ j - 1 \in 1..m /\ j - 1 >= p /\ j # 1 /\ i # 1
            /\ j - 1 + 1 = i - 1
        BY <3>1, <3>3
      <4>2. pr2[q[j]] = q[j - 1]
        BY <4>1 DEF Relinked, Links
      <4>3. r[i - 1] = q[j - 1]
        BY <1>3, <4>1
      <4> QED
        BY <3>1, <4>1, <4>2, <4>3
    <3> QED
      BY <3>1, <3>2, <3>3
  <2> QED
    BY <2>1, <2>2, <2>3
<1>8. m + 1 # 0
  OBVIOUS
<1> QED
  BY <1>1, <1>5, <1>6, <1>7, <1>8 DEF Links

(* The other chains keep their links. *)
Apart(q, m, t, l) == \A i \in 1..m, j \in 1..l : q[i] # t[j]

LEMMA OtherLinks ==
  ASSUME NEW m \in Nat, NEW n \in Nat, NEW q \in [1..m -> 1..n], NEW p \in 1..(m + 1), NEW k,
         NEW nx, NEW pr, NEW nx2, NEW pr2, Relinked(q, m, p, k, n, nx, pr, nx2, pr2),
         NEW l \in Nat, NEW t \in [1..l -> 1..n], NEW hd, Links(t, l, hd, nx, pr),
         Apart(q, m, t, l)
  PROVE  Links(t, l, hd, nx2, pr2)
<1>1. ASSUME NEW j \in 1..l PROVE nx2[t[j]] = nx[t[j]] /\ pr2[t[j]] = pr[t[j]]
  <2>1. t[j] \in 1..n
    OBVIOUS
  <2>2. p > 1 => t[j] # q[p - 1]
    <3>1. p > 1 => p - 1 \in 1..m
      OBVIOUS
    <3> QED
      BY <3>1 DEF Apart
  <2>3. p <= m => t[j] # q[p]
    <3>1. p <= m => p \in 1..m
      OBVIOUS
    <3> QED
      BY <3>1 DEF Apart
  <2> QED
    BY <2>1, <2>2, <2>3 DEF Relinked
<1> QED
  BY <1>1 DEF Links
-----------------------------------------------------------------------------
(* What a new entry e behind those of E does to a chain. *)
Longer(E2, E, e) ==
    /\ Len(E2) = Len(E) + 1
    /\ \A i \in 1..Len(E) : E2[i] = E[i]
    /\ E2[Len(E) + 1] = e

Checked(E) == \A k \in 1..Len(E) : E[k].rolling_chksm \in Nat

LEMMA AppendIsLonger ==
  ASSUME NEW S, NEW E \in Seq(S), NEW e \in S
  PROVE  Longer(Append(E, e), E, e) /\ Len(E) \in Nat
BY DEF Longer

LEMMA FirstStays ==
  ASSUME NEW E, NEW E2, NEW e, Len(E) \in Nat, Longer(E2, E, e)
  PROVE  \A k \in 1..Len(E) : FirstIn(E2, k) <=> FirstIn(E, k)
<1> SUFFICES ASSUME NEW k \in 1..Len(E) PROVE FirstIn(E2, k) <=> FirstIn(E, k)
  OBVIOUS
<1>1. \A j \in 1..(k - 1) : j \in 1..Len(E)
  OBVIOUS
<1>2. E2[k] = E[k] /\ \A j \in 1..(k - 1) : E2[j] = E[j]
  BY <1>1 DEF Longer
<1> QED
  BY <1>2 DEF FirstIn

(* The places of the members are no more than the entries. *)
LEMMA Short ==
  ASSUME NEW m \in Nat, NEW n \in Nat, NEW q \in [1..m -> 1..n],
         \A i, j \in 1..m : q[i] = q[j] => i = j
  PROVE  m <= n
<1> SUFFICES ASSUME m > n PROVE FALSE
  OBVIOUS
<1>1. /\ IsFiniteSet(1..m) /\ Cardinality(1..m) = m
      /\ IsFiniteSet(1..n) /\ Cardinality(1..n) = n
  <2>1. 1 \in Int /\ m \in Int /\ n \in Int
    OBVIOUS
  <2> QED
    BY <2>1, FS_Interval
<1>2. PICK x, y \in 1..m : x # y /\ q[x] = q[y]
  BY <1>1, FS_PigeonHole
<1> QED
  BY <1>2

(* An entry that is the same as e is in the chain of e. *)
LEMMA Representative ==
  ASSUME NEW E, Len(E) \in Nat, NEW m \in Nat, NEW h, NEW q, Order(q, m, h, E), NEW e, Hash(e) = h,
         NEW j \in 1..Len(E), Same(E[j], e)
  PROVE  \E i \in 1..m : Same(E[q[i]], e)
<1> DEFINE T == {k \in 1..Len(E) : Same(E[k], e)}
<1>1. PICK k \in T : \A y \in T : k <= y
  <2>1. T \subseteq Nat /\ T # {}
    OBVIOUS
  <2> QED
    BY <2>1, LeastNat
<1>2. FirstIn(E, k)
  <2>1. ASSUME NEW i \in 1..(k - 1), Same(E[i], E[k]) PROVE FALSE
    <3>1. i \in 1..Len(E) /\ i < k
      OBVIOUS
    <3>2. Same(E[i], e)
      BY <2>1 DEF Same
    <3> QED
      BY <1>1, <3>1, <3>2
  <2> QED
    BY <2>1 DEF FirstIn
<1>3. Hash(E[k]) = h
  BY DEF Hash, Same
<1>4. PICK i \in 1..m : q[i] = k
  BY <1>2, <1>3 DEF Order, Members
<1> QED
  BY <1>4

(* A chain that e does not enter. *)
LEMMA SameOrder ==
  ASSUME NEW E, NEW E2, NEW e, Len(E) \in Nat, Longer(E2, E, e),
         NEW m \in Nat, NEW h, NEW q, Order(q, m, h, E),
         Hash(e) = h => ~FirstIn(E2, Len(E) + 1)
  PROVE  Order(q, m, h, E2)
<1>1. q \in [1..m -> 1..Len(E)] /\ \A i \in 1..m : E2[q[i]] = E[q[i]] /\ q[i] \in 1..Len(E)
  BY DEF Order, Longer
<1>2. q \in [1..m -> 1..Len(E2)]
  BY <1>1 DEF Longer
<1>3. Sorted(q, m, E2)
  BY <1>1 DEF Order, Sorted
<1>4. Members(q, m, h, E2)
  <2>1. ASSUME NEW k \in 1..Len(E)
        PROVE  (\E i \in 1..m : q[i] = k) <=> Hash(E2[k]) = h /\ FirstIn(E2, k)
    <3>1. E2[k] = E[k] /\ (FirstIn(E2, k) <=> FirstIn(E, k))
      BY FirstStays DEF Longer
    <3> QED
      BY <3>1 DEF Order, Members
  <2>2. ASSUME NEW k, k = Len(E) + 1
        PROVE  (\E i \in 1..m : q[i] = k) <=> Hash(E2[k]) = h /\ FirstIn(E2, k)
    <3>1. ~\E i \in 1..m : q[i] = k
      BY <1>1, <2>2
    <3> QED
      BY <2>2, <3>1 DEF Longer
  <2>3. \A k \in 1..Len(E2) : k \in 1..Len(E) \/ k = Len(E) + 1
    BY DEF Longer
  <2> QED
    BY <2>1, <2>2, <2>3 DEF Members
<1> QED
  BY <1>2, <1>3, <1>4 DEF Order

(* A chain that e enters at the place p. *)
LEMMA InsertOrder ==
  ASSUME NEW E, NEW E2, NEW e, Len(E) \in Nat, Longer(E2, E, e), Checked(E),
         e.rolling_chksm \in Nat,
         NEW m \in Nat, NEW h, NEW q, Order(q, m, h, E), Hash(e) = h, FirstIn(E2, Len(E) + 1),
         NEW p \in 1..(m + 1),
         \A i \in 1..m : i < p => E[q[i]].rolling_chksm <= e.rolling_chksm,
         \A i \in 1..m : i >= p => e.rolling_chksm <= E[q[i]].rolling_chksm
  PROVE  Order(Insert(q, m, p, Len(E) + 1), m + 1, h, E2)
<1>1. PICK n \in Nat : n = Len(E)
  OBVIOUS
<1>2. PICK r : r = Insert(q, m, p, n + 1)
  OBVIOUS
<1>3. Inserted(r, q, m, p, n + 1)
  BY <1>2, InsertIs
<1>4. q \in [1..m -> 1..n] /\ \A i, j \in 1..m : q[i] = q[j] => i = j
  BY <1>1 DEF Order
<1>5. /\ \A k \in 1..n : E2[k] = E[k]
      /\ E2[n + 1] = e /\ Len(E2) = n + 1
  BY <1>1 DEF Longer
<1> DEFINE back(i) == IF i < p THEN i ELSE i - 1
<1>6. ASSUME NEW i \in 1..(m + 1), i # p
      PROVE  back(i) \in 1..m /\ r[i] = q[back(i)] /\ (i < p <=> back(i) < p)
  <2>1. CASE i < p
    BY <1>3, <2>1 DEF Inserted
  <2>2. CASE i > p
    <3>1. PICK j \in 1..m : i = j + 1 /\ j >= p /\ r[i] = q[j]
      BY <1>3, <2>2 DEF Inserted
    <3>2. back(i) = j
      BY <3>1
    <3> QED
      BY <3>1, <3>2
  <2> QED
    BY <1>6, <2>1, <2>2
<1>7. r[p] = n + 1
  BY <1>3 DEF Inserted
<1>8. r \in [1..(m + 1) -> 1..(n + 1)]
  <2>1. DOMAIN r = 1..(m + 1) /\ r = [i \in 1..(m + 1) |-> r[i]]
    BY <1>2 DEF Insert
  <2>2. ASSUME NEW i \in 1..(m + 1) PROVE r[i] \in 1..(n + 1)
    <3>1. CASE i = p
      BY <1>7, <3>1
    <3>2. CASE i # p
      <4>1. back(i) \in 1..m /\ r[i] = q[back(i)]
        BY <1>6, <3>2
      <4>2. q[back(i)] \in 1..n
        BY <1>4, <4>1
      <4> QED
        BY <4>1, <4>2
    <3> QED
      BY <3>1, <3>2
  <2> QED
    BY <2>1, <2>2
<1>9. ASSUME NEW i \in 1..(m + 1), NEW j \in 1..(m + 1), r[i] = r[j] PROVE i = j
  <2>1. ASSUME NEW x \in 1..(m + 1), x # p PROVE r[x] # n + 1
    <3>1. back(x) \in 1..m /\ r[x] = q[back(x)]
      BY <1>6, <2>1
    <3>2. q[back(x)] \in 1..n
      BY <1>4, <3>1
    <3> QED
      BY <3>1, <3>2
  <2>2. CASE i = p \/ j = p
    BY <1>7, <1>9, <2>1, <2>2
  <2>3. CASE i # p /\ j # p
    <3>1. back(i) \in 1..m /\ back(j) \in 1..m /\ q[back(i)] = q[back(j)]
          /\ (i < p <=> back(i) < p) /\ (j < p <=> back(j) < p)
      BY <1>6, <1>9, <2>3
    <3>2. back(i) = back(j)
      <4> HIDE DEF back
      <4> QED
        BY <1>4, <3>1
    <3> QED
      BY <2>3, <3>1, <3>2
  <2> QED
    BY <2>2, <2>3
<1>10. Sorted(r, m + 1, E2)
  <2>1. ASSUME NEW i \in 1..(m + 1), i # p
        PROVE  E2[r[i]] = E[q[back(i)]]
    <3>1. back(i) \in 1..m /\ r[i] = q[back(i)]
      BY <1>6, <2>1
    <3>2. q[back(i)] \in 1..n
      BY <1>4, <3>1
    <3> QED
      BY <1>5, <3>1, <3>2
  <2>2. E2[r[p]] = e
    BY <1>5, <1>7
  <2>3. ASSUME NEW i \in 1..(m + 1), NEW j \in 1..(m + 1), i <= j
        PROVE  E2[r[i]].rolling_chksm <= E2[r[j]].rolling_chksm
    <3>1. CASE i = p /\ j = p
      BY <2>2, <3>1
    <3>2. CASE i = p /\ j # p
      <4>1. back(j) \in 1..m /\ ~(back(j) < p) /\ p \in Int
        BY <1>6, <2>3, <3>2
      <4>2. back(j) >= p
        <5> HIDE DEF back
        <5> QED
          BY <4>1
      <4>3. e.rolling_chksm <= E[q[back(j)]].rolling_chksm
        <5> HIDE DEF back
        <5> QED
          BY <4>1, <4>2
      <4> QED
        BY <2>1, <2>2, <3>2, <4>3
    <3>3. CASE i # p /\ j = p
      <4>1. back(i) \in 1..m /\ back(i) < p
        BY <1>6, <2>3, <3>3
      <4>2. E[q[back(i)]].rolling_chksm <= e.rolling_chksm
        <5> HIDE DEF back
        <5> QED
          BY <4>1
      <4> QED
        BY <2>1, <2>2, <3>3, <4>2
    <3>4. CASE i # p /\ j # p
      <4>1. back(i) \in 1..m /\ back(j) \in 1..m
        BY <1>6, <3>4
      <4>2. back(i) <= back(j)
        BY <2>3, <3>4
      <4>3. E[q[back(i)]].rolling_chksm <= E[q[back(j)]].rolling_chksm
        <5> HIDE DEF back
        <5> QED
          BY <4>1, <4>2 DEF Order, Sorted
      <4> QED
        BY <2>1, <3>4, <4>3
    <3> QED
      BY <3>1, <3>2, <3>3, <3>4
  <2> QED
    BY <2>3 DEF Sorted
<1>11. Members(r, m + 1, h, E2)
  <2>1. ASSUME NEW k \in 1..n
        PROVE  (\E i \in 1..(m + 1) : r[i] = k) <=> Hash(E2[k]) = h /\ FirstIn(E2, k)
    <3>1. E2[k] = E[k] /\ (FirstIn(E2, k) <=> FirstIn(E, k))
      BY <1>1, <1>5, FirstStays
    <3>2. (\E i \in 1..m : q[i] = k) <=> Hash(E[k]) = h /\ FirstIn(E, k)
      BY <1>1 DEF Order, Members
    <3>3. ASSUME NEW i \in 1..(m + 1), r[i] = k PROVE \E j \in 1..m : q[j] = k
      <4>1. i # p
        BY <1>7, <3>3
      <4>2. back(i) \in 1..m /\ q[back(i)] = k
        BY <1>6, <3>3, <4>1
      <4> HIDE DEF back
      <4> QED
        BY <4>2
    <3>4. ASSUME NEW j \in 1..m, q[j] = k PROVE \E i \in 1..(m + 1) : r[i] = k
      <4>1. CASE j < p
        <5>1. r[j] = k /\ j \in 1..(m + 1)
          BY <1>3, <3>4, <4>1 DEF Inserted
        <5> QED
          BY <5>1
      <4>2. CASE j >= p
        <5>1. r[j + 1] = k /\ j + 1 \in 1..(m + 1)
          BY <1>3, <3>4, <4>2 DEF Inserted
        <5> QED
          BY <5>1
      <4> QED
        BY <4>1, <4>2
    <3> QED
      BY <3>1, <3>2, <3>3, <3>4
  <2>2. (\E i \in 1..(m + 1) : r[i] = n + 1) /\ Hash(E2[n + 1]) = h /\ FirstIn(E2, n + 1)
    BY <1>1, <1>5, <1>7
  <2>3. \A k \in 1..Len(E2) : k \in 1..n \/ k = n + 1
    BY <1>5
  <2> QED
    BY <2>1, <2>2, <2>3 DEF Members
<1> QED
  <2>1. r \in [1..(m + 1) -> 1..Len(E2)]
    BY <1>5, <1>8
  <2>2. \A i, j \in 1..(m + 1) : r[i] = r[j] => i = j
    BY <1>9
  <2>3. Order(r, m + 1, h, E2)
    BY <1>10, <1>11, <2>1, <2>2 DEF Order
  <2> QED
    BY <1>1, <1>2, <2>3
-----------------------------------------------------------------------------
(* The walk along a chain ends at its first place c where it stops. *)
StopsAt(q, m, c, e) ==
    /\ c \in 1..m
    /\ \A i \in 1..(c - 1) : /\ ~Same(entries[q[i]], e)
                             /\ entries[q[i]].rolling_chksm <= e.rolling_chksm
    /\ Same(entries[q[c]], e) \/ entries[q[c]].rolling_chksm > e.rolling_chksm \/ c = m

LEMMA WalkIs ==
  ASSUME NEW N \in Nat, N = Len(entries), Checked(entries), NEW e, e.rolling_chksm \in Nat,
         NEW h, NEW m \in Nat, m # 0, NEW q, Order(q, m, h, entries),
         Links(q, m, chain.head[h], chain.next, chain.pre)
  PROVE  \E c \in 1..m : StopsAt(q, m, c, e) /\ Walk(h, e) = q[c]
<1> DEFINE stops(k) == Same(entries[k], e) \/ entries[k].rolling_chksm > e.rolling_chksm
                       \/ chain.next[k] = k
           F(a) == [n \in 0 .. N |-> IF n = 0 THEN chain.head[h]
                                     ELSE IF stops(a[n - 1]) THEN a[n - 1] ELSE chain.next[a[n - 1]]]
           at == CHOOSE a : a = F(a)
           ends(i) == Same(entries[q[i]], e) \/ entries[q[i]].rolling_chksm > e.rolling_chksm \/ i = m
           T == {i \in 1..m : ends(i)}
<1>1. q \in [1..m -> 1..N] /\ \A i, j \in 1..m : q[i] = q[j] => i = j
  BY DEF Order
<1>2. PICK c \in T : \A y \in T : c <= y
  <2>1. T \subseteq Nat /\ m \in T
    OBVIOUS
  <2> HIDE DEF T
  <2> QED
    BY <2>1, LeastNat
<1>3. c \in 1..m /\ c \in Nat /\ ends(c)
  BY <1>2
<1>4. \A i \in 1..(c - 1) : i \in 1..m /\ ~ends(i)
  BY <1>2
<1>5. ASSUME NEW i \in 1..m PROVE stops(q[i]) <=> ends(i)
  <2>1. chain.next[q[i]] = IF i = m THEN q[i] ELSE q[i + 1]
    BY DEF Links
  <2>2. i # m => i + 1 \in 1..m /\ q[i + 1] # q[i]
    <3>1. i # m => i + 1 \in 1..m /\ i + 1 # i
      OBVIOUS
    <3> QED
      BY <1>1, <3>1
  <2> QED
    BY <2>1, <2>2
<1> HIDE DEF stops, T
<1> DEFINE place(n) == IF n + 1 <= c THEN n + 1 ELSE c
           g == [n \in 0 .. N |-> q[place(n)]]
<1>6. ASSUME NEW n \in 0 .. N, n # 0
      PROVE  q[place(n)] = IF stops(q[place(n - 1)]) THEN q[place(n - 1)]
                           ELSE chain.next[q[place(n - 1)]]
  <2>1. CASE n < c
    <3>1. place(n - 1) = n /\ place(n) = n + 1 /\ n \in 1..(c - 1) /\ n \in 1..m /\ n # m
      BY <1>3, <1>6, <2>1
    <3>2. ~stops(q[n]) /\ chain.next[q[n]] = q[n + 1]
      BY <1>4, <1>5, <3>1 DEF Links
    <3> QED
      BY <3>1, <3>2
  <2>2. CASE n >= c
    <3>1. place(n - 1) = c /\ place(n) = c
      BY <1>3, <1>6, <2>2
    <3> QED
      BY <1>3, <1>5, <3>1
  <2> QED
    BY <1>3, <2>1, <2>2
<1>7. q[place(0)] = chain.head[h]
  <2>1. place(0) = 1
    BY <1>3
  <2> QED
    BY <2>1 DEF Links
<1> HIDE DEF place
<1>8. g = F(g)
  <2>1. ASSUME NEW n \in 0 .. N
        PROVE  g[n] = IF n = 0 THEN chain.head[h]
                      ELSE IF stops(g[n - 1]) THEN g[n - 1] ELSE chain.next[g[n - 1]]
    <3>1. CASE n = 0
      BY <1>7, <3>1
    <3>2. CASE n # 0
      <4>1. n - 1 \in 0 .. N
        BY <3>2
      <4> QED
        BY <1>6, <3>2, <4>1
    <3> QED
      BY <3>1, <3>2
  <2> QED
    BY <2>1
<1>9. at = F(at)
  <2> HIDE DEF F, g
  <2> QED
    BY <1>8
<1>10. \A n \in 0 .. N : at[n] = g[n]
  <2> DEFINE Good == {n \in Nat : n <= N => at[n] = g[n]}
  <2> HIDE DEF at
  <2>1. ASSUME NEW n \in 0 .. N
        PROVE  at[n] = IF n = 0 THEN chain.head[h]
                       ELSE IF stops(at[n - 1]) THEN at[n - 1] ELSE chain.next[at[n - 1]]
    BY <1>9
  <2>2. ASSUME NEW n \in 0 .. N
        PROVE  g[n] = IF n = 0 THEN chain.head[h]
                      ELSE IF stops(g[n - 1]) THEN g[n - 1] ELSE chain.next[g[n - 1]]
    <3> HIDE DEF g
    <3> QED
      BY <1>8
  <2> HIDE DEF g, F
  <2>3. 0 \in Good
    <3>1. 0 \in 0 .. N
      OBVIOUS
    <3> QED
      BY <2>1, <2>2, <3>1
  <2>4. ASSUME NEW n \in Nat, n \in Good PROVE n + 1 \in Good
    <3>1. CASE n + 1 <= N
      <4>1. n + 1 \in 0 .. N /\ n + 1 # 0 /\ n + 1 - 1 = n /\ n <= N
        BY <3>1
      <4>2. at[n] = g[n]
        BY <2>4, <4>1
      <4>3. at[n + 1] = g[n + 1]
        BY <2>1, <2>2, <4>1, <4>2
      <4> QED
        BY <4>3
    <3>2. CASE ~(n + 1 <= N)
      BY <3>2
    <3> QED
      BY <3>1, <3>2
  <2>5. \A n \in Nat : n \in Good
    <3> HIDE DEF Good
    <3> QED
      BY <2>3, <2>4, Induction
  <2> QED
    BY <2>5
<1>11. m <= N
  BY <1>1, Short
<1>12. at[N] = q[c]
  <2>1. place(N) = c /\ N \in 0 .. N
    BY <1>3, <1>11 DEF place
  <2>2. g[N] = q[place(N)]
    BY <2>1
  <2> HIDE DEF at, g
  <2> QED
    BY <1>10, <2>1, <2>2
<1>13. Walk(h, e) = at[N]
  BY DEF Walk, stops
<1>14. StopsAt(q, m, c, e)
  <2>1. ASSUME NEW i \in 1..(c - 1)
        PROVE  ~Same(entries[q[i]], e) /\ entries[q[i]].rolling_chksm <= e.rolling_chksm
    <3>1. i \in 1..m /\ ~ends(i)
      BY <1>4
    <3>2. q[i] \in 1..N
      BY <1>1, <3>1
    <3>3. entries[q[i]].rolling_chksm \in Nat
      BY <3>2 DEF Checked
    <3> QED
      BY <3>1, <3>3
  <2> QED
    BY <1>3, <2>1 DEF StopsAt
<1> QED
  <2> HIDE DEF at
  <2> QED
    BY <1>3, <1>12, <1>13, <1>14

(* Following next from the head of a chain meets its members, and them only. *)
VisitedBy(h, q, m) == Visited(h) = {q[i] : i \in 1..m}

LEMMA VisitedIs ==
  ASSUME NEW N \in Nat, N = Len(entries), NEW h, NEW m \in Nat, NEW q, Order(q, m, h, entries),
         Links(q, m, chain.head[h], chain.next, chain.pre)
  PROVE  VisitedBy(h, q, m)
<1>1. q \in [1..m -> 1..N] /\ \A i, j \in 1..m : q[i] = q[j] => i = j
  BY DEF Order
<1>2. CASE m = 0
  <2>1. chain.head[h] = NIL
    BY <1>2 DEF Links
  <2> QED
    BY <1>2, <2>1 DEF Visited, VisitedBy
<1>3. CASE m # 0
  <2> DEFINE F(a) == [n \in 1 .. N |-> IF n = 1 THEN chain.head[h] ELSE chain.next[a[n - 1]]]
             at == CHOOSE a : a = F(a)
             place(n) == IF n <= m THEN n ELSE m
             g == [n \in 1 .. N |-> q[place(n)]]
  <2>1. chain.head[h] = q[1] /\ 1 \in 1..m /\ q[1] \in 1..N
    BY <1>1, <1>3 DEF Links
  <2>2. q[place(1)] = chain.head[h]
    BY <1>3, <2>1
  <2>3. ASSUME NEW n \in 1 .. N, n # 1 PROVE q[place(n)] = chain.next[q[place(n - 1)]]
    <3>1. CASE n <= m
      <4>1. place(n) = n /\ place(n - 1) = n - 1 /\ n - 1 \in 1..m /\ n - 1 # m /\ (n - 1) + 1 = n
        BY <2>3, <3>1
      <4>2. chain.next[q[n - 1]] = q[(n - 1) + 1]
        BY <4>1 DEF Links
      <4> QED
        BY <4>1, <4>2
    <3>2. CASE n > m
      <4>1. place(n) = m /\ place(n - 1) = m /\ m \in 1..m
        BY <1>3, <3>2
      <4>2. chain.next[q[m]] = q[m]
        BY <4>1 DEF Links
      <4> QED
        BY <4>1, <4>2
    <3> QED
      BY <3>1, <3>2
  <2> HIDE DEF place
  <2>4. g = F(g)
    <3>1. ASSUME NEW n \in 1 .. N
          PROVE  g[n] = IF n = 1 THEN chain.head[h] ELSE chain.next[g[n - 1]]
      <4>1. CASE n = 1
        BY <2>2, <4>1
      <4>2. CASE n # 1
        <5>1. n - 1 \in 1 .. N
          BY <4>2
        <5> QED
          BY <2>3, <4>2, <5>1
      <4> QED
        BY <4>1, <4>2
    <3> QED
      BY <3>1
  <2>5. at = F(at)
    <3> HIDE DEF F, g
    <3> QED
      BY <2>4
  <2>6. \A n \in 1 .. N : at[n] = g[n]
    <3> DEFINE Good == {n \in Nat : n + 1 <= N => at[n + 1] = g[n + 1]}
    <3> HIDE DEF at
    <3>1. ASSUME NEW n \in 1 .. N
          PROVE  at[n] = IF n = 1 THEN chain.head[h] ELSE chain.next[at[n - 1]]
      BY <2>5
    <3>2. ASSUME NEW n \in 1 .. N
          PROVE  g[n] = IF n = 1 THEN chain.head[h] ELSE chain.next[g[n - 1]]
      <4> HIDE DEF g
      <4> QED
        BY <2>4
    <3> HIDE DEF g, F
    <3>3. 0 \in Good
      <4>1. CASE 1 <= N
        <5>1. 1 \in 1 .. N /\ 0 + 1 = 1
          BY <4>1
        <5> QED
          BY <3>1, <3>2, <5>1
      <4>2. CASE ~(1 <= N)
        BY <4>2
      <4> QED
        BY <4>1, <4>2
    <3>4. ASSUME NEW n \in Nat, n \in Good PROVE n + 1 \in Good
      <4>1. CASE n + 1 + 1 <= N
        <5>1. n + 1 + 1 \in 1 .. N /\ n + 1 + 1 # 1 /\ (n + 1 + 1) - 1 = n + 1 /\ n + 1 <= N
          BY <4>1
        <5>2. at[n + 1] = g[n + 1]
          BY <3>4, <5>1
        <5>3. at[n + 1 + 1] = g[n + 1 + 1]
          BY <3>1, <3>2, <5>1, <5>2
        <5> QED
          BY <5>3
      <4>2. CASE ~(n + 1 + 1 <= N)
        BY <4>2
      <4> QED
        BY <4>1, <4>2
    <3>5. \A n \in Nat : n \in Good
      <4> HIDE DEF Good
      <4> QED
        BY <3>3, <3>4, Induction
    <3>6. ASSUME NEW n \in 1 .. N PROVE at[n] = g[n]
      <4>1. PICK k \in Nat : n = k + 1
        <5>1. n - 1 \in Nat /\ n = (n - 1) + 1
          OBVIOUS
        <5> QED
          BY <5>1
      <4>2. k \in Good
        BY <3>5
      <4> QED
        BY <4>1, <4>2
    <3> QED
      BY <3>6
  <2>7. m <= N
    BY <1>1, Short
  <2>8. Visited(h) = {at[n] : n \in 1 .. N}
    <3>1. chain.head[h] # NIL
      BY <2>1 DEF NIL
    <3> QED
      BY <3>1 DEF Visited
  <2>9. ASSUME NEW n \in 1 .. N PROVE \E i \in 1..m : at[n] = q[i]
    <3>1. at[n] = q[place(n)]
      <4> HIDE DEF at
      <4> QED
        BY <2>6
    <3>2. place(n) \in 1..m
      BY <1>3 DEF place
    <3> HIDE DEF at
    <3> QED
      BY <3>1, <3>2
  <2>10. ASSUME NEW i \in 1..m PROVE \E n \in 1 .. N : at[n] = q[i]
    <3>1. i \in 1 .. N /\ place(i) = i
      BY <2>7 DEF place
    <3>2. at[i] = q[place(i)]
      <4> HIDE DEF at
      <4> QED
        BY <2>6, <3>1
    <3> HIDE DEF at
    <3> QED
      BY <3>1, <3>2
  <2> HIDE DEF at
  <2>11. ASSUME NEW x \in Visited(h) PROVE x \in {q[i] : i \in 1..m}
    BY <2>8, <2>9
  <2>12. ASSUME NEW x \in {q[i] : i \in 1..m} PROVE x \in Visited(h)
    BY <2>8, <2>10
  <2> QED
    BY <2>11, <2>12 DEF VisitedBy
<1> QED
  BY <1>2, <1>3
-----------------------------------------------------------------------------
(* The chains after a new entry k, behind the n before. *)
TypedChain(ch, n) ==
    ch \in [head : [0 .. CHUNK_BLK_HASH - 1 -> 0..n], next : [1..n -> 1..n], pre : [1..n -> 1..n]]

Chained(h, E, ch) ==
    \E m \in Nat : \E q : Order(q, m, h, E) /\ Links(q, m, ch.head[h], ch.next, ch.pre)

AllChained(E, ch) == \A h \in 0 .. CHUNK_BLK_HASH - 1 : Chained(h, E, ch)

(* A chain record, by its fields. *)
LEMMA ChainIs ==
  ASSUME NEW ch, NEW n, TypedChain(ch, n)
  PROVE  /\ ch = [head |-> ch.head, next |-> ch.next, pre |-> ch.pre]
         /\ ch.head \in [0 .. CHUNK_BLK_HASH - 1 -> 0..n]
         /\ ch.next \in [1..n -> 1..n] /\ ch.pre \in [1..n -> 1..n]
BY DEF TypedChain

LEMMA IsTyped ==
  ASSUME NEW n, NEW hd \in [0 .. CHUNK_BLK_HASH - 1 -> 0..n],
         NEW nx \in [1..n -> 1..n], NEW pr \in [1..n -> 1..n]
  PROVE  TypedChain([head |-> hd, next |-> nx, pre |-> pr], n)
BY DEF TypedChain

LEMMA SetHead ==
  \A hd, nx, pr, x, h, k : x = [head |-> hd, next |-> nx, pre |-> pr] =>
    [x EXCEPT !.head[h] = k] = [head |-> [hd EXCEPT ![h] = k], next |-> nx, pre |-> pr]
OBVIOUS

Fields(x, hd, nx, pr) == x = [head |-> hd, next |-> nx, pre |-> pr]

LEMMA SetNextPre ==
  ASSUME NEW hd, NEW nx, NEW pr, NEW x, Fields(x, hd, nx, pr),
         NEW c, NEW d, NEW nx2, nx2 = [nx EXCEPT ![c] = d],
         NEW e, NEW f, NEW pr2, pr2 = [pr EXCEPT ![e] = f],
         NEW y, y = [x EXCEPT !.next[c] = d, !.pre[e] = f]
  PROVE  Fields(y, hd, nx2, pr2)
<1>1. DOMAIN y = {"head", "next", "pre"} /\ y.head = hd /\ y.next = nx2 /\ y.pre = pr2
  BY DEF Fields
<1>2. y = [i \in {"head", "next", "pre"} |-> y[i]]
  BY DEF Fields
<1> QED
  BY <1>1, <1>2 DEF Fields

LEMMA SetPreNext ==
  ASSUME NEW hd, NEW nx, NEW pr, NEW x, Fields(x, hd, nx, pr),
         NEW c, NEW d, NEW nx2, nx2 = [nx EXCEPT ![c] = d],
         NEW e, NEW f, NEW pr2, pr2 = [pr EXCEPT ![e] = f],
         NEW y, y = [x EXCEPT !.pre[e] = f, !.next[c] = d]
  PROVE  Fields(y, hd, nx2, pr2)
<1>1. DOMAIN y = {"head", "next", "pre"} /\ y.head = hd /\ y.next = nx2 /\ y.pre = pr2
  BY DEF Fields
<1>2. y = [i \in {"head", "next", "pre"} |-> y[i]]
  BY DEF Fields
<1> QED
  BY <1>1, <1>2 DEF Fields

LEMMA AppendBoth ==
  ASSUME NEW hd, NEW nx, NEW pr, NEW x, Fields(x, hd, nx, pr), NEW k,
         NEW y, y = [x EXCEPT !.next = Append(@, k), !.pre = Append(@, k)]
  PROVE  Fields(y, hd, Append(nx, k), Append(pr, k))
<1>1. /\ DOMAIN y = {"head", "next", "pre"} /\ y.head = hd
      /\ y.next = Append(nx, k) /\ y.pre = Append(pr, k)
  BY DEF Fields
<1>2. y = [i \in {"head", "next", "pre"} |-> y[i]]
  BY DEF Fields
<1> QED
  BY <1>1, <1>2 DEF Fields

Lengthened(f2, f, n, k) ==
    f2 \in [1..k -> 1..k] /\ f2[k] = k /\ \A j \in 1..n : f2[j] = f[j]

LEMMA SeqIsFunction ==
  ASSUME NEW S, NEW s \in Seq(S), NEW k, k = Len(s)
  PROVE  s \in [1..k -> S]
OBVIOUS

LEMMA AppendAlone ==
  ASSUME NEW n \in Nat, NEW f \in [1..n -> 1..n], NEW k, k = n + 1
  PROVE  Lengthened(Append(f, k), f, n, k)
<1>1. f \in Seq(1..k) /\ Len(f) = n /\ k \in 1..k
  <2>1. \A j \in 1..n : f[j] \in 1..k
    OBVIOUS
  <2>2. f \in [1..n -> 1..k]
    BY <2>1
  <2>3. f \in Seq(1..k)
    BY <2>2
  <2>4. DOMAIN f = 1..n
    OBVIOUS
  <2>5. Len(f) = n
    BY <2>3, <2>4
  <2> QED
    BY <2>3, <2>5
<1>2. PICK s : s = Append(f, k)
  OBVIOUS
<1>3. s \in Seq(1..k) /\ Len(s) = k
  BY <1>1, <1>2
<1>4. s[k] = k /\ \A j \in 1..n : s[j] = f[j]
  BY <1>1, <1>2
<1>5. s \in [1..k -> 1..k]
  BY <1>3, SeqIsFunction
<1> QED
  BY <1>2, <1>4, <1>5 DEF Lengthened

(* The fields when the new entry is alone. *)
AloneFields(hd, nx, pr, n, k) ==
    /\ hd = chain.head /\ hd \in [0 .. CHUNK_BLK_HASH - 1 -> 0..k]
    /\ Lengthened(nx, chain.next, n, k) /\ Lengthened(pr, chain.pre, n, k)

LEMMA AloneIs ==
  ASSUME NEW n \in Nat, TypedChain(chain, n), NEW k, k = n + 1
  PROVE  \E hd, nx, pr : Fields(Alone(k), hd, nx, pr) /\ AloneFields(hd, nx, pr, n, k)
<1>1. PICK hd : hd = chain.head
  OBVIOUS
<1>2. PICK f : f = chain.next
  OBVIOUS
<1>3. PICK g : g = chain.pre
  OBVIOUS
<1>4. /\ Fields(chain, hd, f, g)
      /\ hd \in [0 .. CHUNK_BLK_HASH - 1 -> 0..n] /\ f \in [1..n -> 1..n] /\ g \in [1..n -> 1..n]
  BY <1>1, <1>2, <1>3, ChainIs DEF Fields
<1>5. Fields(Alone(k), hd, Append(f, k), Append(g, k))
  BY <1>4, AppendBoth DEF Alone
<1>6. hd \in [0 .. CHUNK_BLK_HASH - 1 -> 0..k]
  <2>1. \A x \in 0..n : x \in 0..k
    OBVIOUS
  <2> QED
    BY <1>4, <2>1
<1>7. AloneFields(hd, Append(f, k), Append(g, k), n, k)
  <2>1. Lengthened(Append(f, k), f, n, k) /\ Lengthened(Append(g, k), g, n, k)
    BY <1>4, AppendAlone
  <2> QED
    BY <1>1, <1>2, <1>3, <1>6, <2>1 DEF AloneFields
<1> QED
  BY <1>5, <1>7

(* The entry has been linked at the place p of the chain q of h. *)
LinkedAt(ch, h, q, m, p, n) ==
    /\ TypedChain(ch, n + 1)
    /\ ch.head = [chain.head EXCEPT ![h] = IF p = 1 THEN n + 1 ELSE chain.head[h]]
    /\ Relinked(q, m, p, n + 1, n, chain.next, chain.pre, ch.next, ch.pre)

LEMMA HeadLinks ==
  ASSUME NEW n \in Nat, TypedChain(chain, n), NEW h \in 0 .. CHUNK_BLK_HASH - 1, NEW q
  PROVE  LinkedAt(LinkHead(h, n + 1), h, q, 0, 1, n)
<1>1. PICK k \in Nat : k = n + 1
  OBVIOUS
<1>2. PICK hd, nx, pr : Fields(Alone(k), hd, nx, pr) /\ AloneFields(hd, nx, pr, n, k)
  BY <1>1, AloneIs
<1>3. PICK hd2 : hd2 = [hd EXCEPT ![h] = k]
  OBVIOUS
<1>4. PICK l : l = LinkHead(h, k)
  OBVIOUS
<1>5. l = [head |-> hd2, next |-> nx, pre |-> pr]
  BY <1>2, <1>3, <1>4, SetHead DEF LinkHead, Fields
<1>6. hd2 \in [0 .. CHUNK_BLK_HASH - 1 -> 0..k] /\ nx \in [1..k -> 1..k] /\ pr \in [1..k -> 1..k]
  BY <1>1, <1>2, <1>3 DEF AloneFields, Lengthened
<1>7. TypedChain(l, k) /\ l.head = hd2 /\ l.next = nx /\ l.pre = pr
  BY <1>5, <1>6, IsTyped
<1>8. Relinked(q, 0, 1, k, n, chain.next, chain.pre, nx, pr)
  BY <1>1, <1>2 DEF Relinked, AloneFields, Lengthened
<1> QED
  BY <1>1, <1>2, <1>3, <1>4, <1>7, <1>8 DEF LinkedAt, AloneFields

LEMMA BehindLinks ==
  ASSUME NEW n \in Nat, TypedChain(chain, n), NEW h \in 0 .. CHUNK_BLK_HASH - 1,
         NEW m \in Nat, m # 0, NEW q \in [1..m -> 1..n]
  PROVE  LinkedAt(LinkBehind(q[m], n + 1), h, q, m, m + 1, n)
<1>1. PICK k \in Nat : k = n + 1
  OBVIOUS
<1>2. PICK hd, nx, pr : Fields(Alone(k), hd, nx, pr) /\ AloneFields(hd, nx, pr, n, k)
  BY <1>1, AloneIs
<1>3. PICK c \in 1..n : c = q[m]
  OBVIOUS
<1>4. PICK nx2 : nx2 = [nx EXCEPT ![c] = k]
  OBVIOUS
<1>5. PICK pr2 : pr2 = [pr EXCEPT ![k] = c]
  OBVIOUS
<1>6. PICK l : l = LinkBehind(c, k)
  OBVIOUS
<1>7. l = [head |-> hd, next |-> nx2, pre |-> pr2]
  <2>1. PICK a : a = Alone(k)
    OBVIOUS
  <2>2. l = [a EXCEPT !.next[c] = k, !.pre[k] = c] /\ a = [head |-> hd, next |-> nx, pre |-> pr]
    BY <1>2, <1>6, <2>1 DEF LinkBehind, Fields
  <2>3. Fields(l, hd, nx2, pr2)
    BY <1>4, <1>5, <2>2, SetNextPre DEF Fields
  <2> QED
    BY <2>3 DEF Fields
<1>8. c \in 1..k /\ k \in 1..k /\ c # k
  BY <1>1
<1>9. nx \in [1..k -> 1..k] /\ pr \in [1..k -> 1..k] /\ hd \in [0 .. CHUNK_BLK_HASH - 1 -> 0..k]
  BY <1>2 DEF AloneFields, Lengthened
<1>10. nx2 \in [1..k -> 1..k] /\ pr2 \in [1..k -> 1..k]
  BY <1>4, <1>5, <1>8, <1>9
<1>11. TypedChain(l, k) /\ l.head = hd /\ l.next = nx2 /\ l.pre = pr2
  BY <1>7, <1>9, <1>10, IsTyped
<1>12. Relinked(q, m, m + 1, k, n, chain.next, chain.pre, nx2, pr2)
  <2>1. nx2[c] = k /\ nx2[k] = k /\ pr2[k] = c
    BY <1>2, <1>4, <1>5, <1>8, <1>9 DEF AloneFields, Lengthened
  <2>2. ASSUME NEW j \in 1..n PROVE (j # c => nx2[j] = chain.next[j]) /\ pr2[j] = chain.pre[j]
    <3>1. j \in 1..k /\ j # k
      BY <1>1
    <3> QED
      BY <1>2, <1>4, <1>5, <1>9, <3>1 DEF AloneFields, Lengthened
  <2>3. (m + 1) - 1 = m /\ m + 1 > 1 /\ ~(m + 1 <= m) /\ m + 1 # 1
    OBVIOUS
  <2> QED
    BY <1>3, <2>1, <2>2, <2>3 DEF Relinked
<1>13. chain.head = [chain.head EXCEPT ![h] = IF m + 1 = 1 THEN k ELSE chain.head[h]]
  <2>1. m + 1 # 1
    OBVIOUS
  <2>2. chain.head \in [0 .. CHUNK_BLK_HASH - 1 -> 0..n]
    BY ChainIs
  <2> QED
    BY <2>1, <2>2
<1> QED
  BY <1>1, <1>2, <1>3, <1>6, <1>11, <1>12, <1>13 DEF LinkedAt, AloneFields

LEMMA BeforeLinks ==
  ASSUME NEW n \in Nat, TypedChain(chain, n), NEW h \in 0 .. CHUNK_BLK_HASH - 1,
         NEW m \in Nat, NEW q \in [1..m -> 1..n], \A i, j \in 1..m : q[i] = q[j] => i = j,
         Links(q, m, chain.head[h], chain.next, chain.pre), NEW p \in 1..m
  PROVE  LinkedAt(LinkBefore(h, q[p], n + 1), h, q, m, p, n)
<1>1. PICK k \in Nat : k = n + 1
  OBVIOUS
<1>2. PICK hd, nx, pr : Fields(Alone(k), hd, nx, pr) /\ AloneFields(hd, nx, pr, n, k)
  BY <1>1, AloneIs
<1>3. PICK c \in 1..n : c = q[p]
  OBVIOUS
<1>4. PICK nx2 : nx2 = [nx EXCEPT ![k] = c]
  OBVIOUS
<1>5. PICK pr2 : pr2 = [pr EXCEPT ![c] = k]
  OBVIOUS
<1>6. PICK t : t = [head |-> hd, next |-> nx2, pre |-> pr2]
  OBVIOUS
<1>7. LinkBefore(h, c, k) =
        IF chain.pre[c] = c THEN [t EXCEPT !.head[h] = k]
        ELSE [t EXCEPT !.next[chain.pre[c]] = k, !.pre[k] = chain.pre[c]]
  <2>1. t = [Alone(k) EXCEPT !.pre[c] = k, !.next[k] = c]
    <3>1. PICK a : a = Alone(k)
      OBVIOUS
    <3>2. PICK y : y = [a EXCEPT !.pre[c] = k, !.next[k] = c]
      OBVIOUS
    <3>3. a = [head |-> hd, next |-> nx, pre |-> pr]
      BY <1>2, <3>1 DEF Fields
    <3>4. Fields(y, hd, nx2, pr2)
      BY <1>4, <1>5, <3>2, <3>3, SetPreNext DEF Fields
    <3> QED
      BY <1>6, <3>1, <3>2, <3>4 DEF Fields
  <2> QED
    BY <2>1 DEF LinkBefore
<1>8. c \in 1..k /\ k \in 1..k /\ c # k
  BY <1>1
<1>9. nx \in [1..k -> 1..k] /\ pr \in [1..k -> 1..k] /\ hd \in [0 .. CHUNK_BLK_HASH - 1 -> 0..k]
  BY <1>2 DEF AloneFields, Lengthened
<1>10. nx2 \in [1..k -> 1..k] /\ pr2 \in [1..k -> 1..k]
  BY <1>4, <1>5, <1>8, <1>9
<1>11. nx2[k] = c /\ pr2[c] = k /\ pr2[k] = k
  BY <1>2, <1>4, <1>5, <1>8, <1>9 DEF AloneFields, Lengthened
<1>12. ASSUME NEW j \in 1..n PROVE nx2[j] = chain.next[j] /\ (j # c => pr2[j] = chain.pre[j])
  <2>1. j \in 1..k /\ j # k
    BY <1>1
  <2> QED
    BY <1>2, <1>4, <1>5, <1>9, <2>1 DEF AloneFields, Lengthened
<1>13. PICK l : l = LinkBefore(h, c, k)
  OBVIOUS
<1>14. CASE p = 1
  <2>1. chain.pre[c] = c
    BY <1>3, <1>14 DEF Links
  <2>2. PICK hd2 : hd2 = [hd EXCEPT ![h] = k]
    OBVIOUS
  <2>3. l = [head |-> hd2, next |-> nx2, pre |-> pr2]
    BY <1>7, <1>13, <1>6, <2>1, <2>2, SetHead
  <2>4. hd2 \in [0 .. CHUNK_BLK_HASH - 1 -> 0..k]
    BY <1>1, <1>9, <2>2
  <2>5. TypedChain(l, k) /\ l.head = hd2 /\ l.next = nx2 /\ l.pre = pr2
    BY <1>10, <2>3, <2>4, IsTyped
  <2>6. Relinked(q, m, p, k, n, chain.next, chain.pre, nx2, pr2)
    <3>1. p # m + 1 /\ ~(p > 1) /\ p <= m
      BY <1>14
    <3> QED
      BY <1>3, <1>14, <1>11, <1>12, <3>1 DEF Relinked
  <2> QED
    BY <1>1, <1>2, <1>3, <1>13, <1>14, <2>2, <2>5, <2>6 DEF LinkedAt, AloneFields
<1>15. CASE p # 1
  <2>1. p - 1 \in 1..m /\ p - 1 # p /\ p > 1 /\ p <= m /\ p # m + 1
    BY <1>15
  <2>2. PICK b \in 1..n : b = q[p - 1]
    BY <2>1
  <2>3. chain.pre[c] = b
    BY <1>3, <2>1, <2>2 DEF Links
  <2>4. b # c /\ b \in 1..k /\ b # k
    BY <1>1, <1>3, <2>1, <2>2
  <2>5. PICK nx3 : nx3 = [nx2 EXCEPT ![b] = k]
    OBVIOUS
  <2>6. PICK pr3 : pr3 = [pr2 EXCEPT ![k] = b]
    OBVIOUS
  <2>7. l = [head |-> hd, next |-> nx3, pre |-> pr3]
    <3>1. l = [t EXCEPT !.next[b] = k, !.pre[k] = b]
      BY <1>7, <1>13, <2>3, <2>4
    <3>2. Fields(l, hd, nx3, pr3)
      BY <1>6, <2>5, <2>6, <3>1, SetNextPre DEF Fields
    <3> QED
      BY <3>2 DEF Fields
  <2>8. nx3 \in [1..k -> 1..k] /\ pr3 \in [1..k -> 1..k]
    BY <1>8, <1>10, <2>4, <2>5, <2>6
  <2>9. TypedChain(l, k) /\ l.head = hd /\ l.next = nx3 /\ l.pre = pr3
    BY <1>9, <2>7, <2>8, IsTyped
  <2>10. Relinked(q, m, p, k, n, chain.next, chain.pre, nx3, pr3)
    <3>1. nx3[k] = c /\ pr3[k] = b /\ nx3[b] = k /\ pr3[c] = k
      BY <1>8, <1>10, <1>11, <2>4, <2>5, <2>6
    <3>2. ASSUME NEW j \in 1..n
          PROVE  (j # b => nx3[j] = chain.next[j]) /\ (j # c => pr3[j] = chain.pre[j])
      <4>1. j \in 1..k /\ j # k
        BY <1>1
      <4> QED
        BY <1>10, <1>12, <2>5, <2>6, <4>1
    <3> QED
      BY <1>3, <1>15, <2>1, <2>2, <3>1, <3>2 DEF Relinked
  <2>11. chain.head = [chain.head EXCEPT ![h] = IF p = 1 THEN k ELSE chain.head[h]]
    <3>1. chain.head \in [0 .. CHUNK_BLK_HASH - 1 -> 0..n]
      BY ChainIs
    <3> QED
      BY <1>15, <3>1
  <2> QED
    BY <1>1, <1>2, <1>3, <1>13, <2>9, <2>10, <2>11 DEF LinkedAt, AloneFields
<1> QED
  BY <1>14, <1>15
-----------------------------------------------------------------------------
(* The chains hold the entries received, in order, and they still do so with one
   more; the cases are those of the insertion. *)
Holds(n) == n = Len(entries) /\ TypedChain(chain, n) /\ AllChained(entries, chain) /\ Checked(entries)

LEMMA LinksFields ==
  ASSUME NEW q, NEW m, NEW hd, NEW nx, NEW pr, Links(q, m, hd, nx, pr),
         NEW nx2, NEW pr2, \A i \in 1..m : nx2[q[i]] = nx[q[i]] /\ pr2[q[i]] = pr[q[i]]
  PROVE  Links(q, m, hd, nx2, pr2)
BY DEF Links

LEMMA Entered ==
  ASSUME NEW n \in Nat, Holds(n), NEW e, e.rolling_chksm \in Nat,
         NEW h \in 0 .. CHUNK_BLK_HASH - 1, h = Hash(e), NEW E2, Longer(E2, entries, e),
         NEW m \in Nat, NEW q, Order(q, m, h, entries),
         Links(q, m, chain.head[h], chain.next, chain.pre), FirstIn(E2, n + 1),
         NEW p \in 1..(m + 1),
         \A i \in 1..m : i < p => entries[q[i]].rolling_chksm <= e.rolling_chksm,
         \A i \in 1..m : i >= p => e.rolling_chksm <= entries[q[i]].rolling_chksm,
         NEW ch, LinkedAt(ch, h, q, m, p, n)
  PROVE  AllChained(E2, ch)
<1>1. n = Len(entries) /\ Len(entries) \in Nat /\ Checked(entries) /\ AllChained(entries, chain)
  BY DEF Holds
<1>2. Relinked(q, m, p, n + 1, n, chain.next, chain.pre, ch.next, ch.pre)
  BY DEF LinkedAt
<1>3. q \in [1..m -> 1..n] /\ \A i, j \in 1..m : q[i] = q[j] => i = j
  BY <1>1 DEF Order
<1>4. chain.head \in [0 .. CHUNK_BLK_HASH - 1 -> 0..n]
  BY ChainIs DEF Holds
<1>5. Chained(h, E2, ch)
  <2>1. Order(Insert(q, m, p, n + 1), m + 1, h, E2)
    BY <1>1, InsertOrder
  <2>2. ch.head[h] = IF p = 1 THEN n + 1 ELSE chain.head[h]
    BY <1>4 DEF LinkedAt
  <2>3. Links(Insert(q, m, p, n + 1), m + 1, ch.head[h], ch.next, ch.pre)
    BY <1>2, <1>3, <2>2, InsertLinks
  <2>4. m + 1 \in Nat
    OBVIOUS
  <2> QED
    BY <2>1, <2>3, <2>4 DEF Chained
<1>6. ASSUME NEW g \in 0 .. CHUNK_BLK_HASH - 1, g # h PROVE Chained(g, E2, ch)
  <2>1. Chained(g, entries, chain)
    BY <1>1 DEF AllChained
  <2>2. PICK l \in Nat : \E t : /\ Order(t, l, g, entries)
                                /\ Links(t, l, chain.head[g], chain.next, chain.pre)
    BY <2>1 DEF Chained
  <2>3. PICK t : Order(t, l, g, entries) /\ Links(t, l, chain.head[g], chain.next, chain.pre)
    BY <2>2
  <2>4. Order(t, l, g, E2)
    BY <1>1, <1>6, <2>3, SameOrder
  <2>5. t \in [1..l -> 1..n]
    BY <1>1, <2>3 DEF Order
  <2>6. ASSUME NEW i \in 1..m, NEW j \in 1..l PROVE q[i] # t[j]
    <3>1. q[i] \in 1..n /\ t[j] \in 1..n
      BY <1>3, <2>5
    <3>2. Hash(entries[q[i]]) = h
      BY <1>1, <3>1 DEF Order, Members
    <3>3. Hash(entries[t[j]]) = g
      BY <1>1, <2>3, <3>1 DEF Order, Members
    <3> QED
      BY <1>6, <3>2, <3>3
  <2>7. ch.head[g] = chain.head[g]
    BY <1>4, <1>6 DEF LinkedAt
  <2>8. Links(t, l, ch.head[g], ch.next, ch.pre)
    <3>1. PICK hd : hd = chain.head[g]
      OBVIOUS
    <3>2. Links(t, l, hd, chain.next, chain.pre)
      BY <2>3, <3>1
    <3>3. Links(t, l, hd, ch.next, ch.pre)
      <4>1. Apart(q, m, t, l)
        BY <2>6 DEF Apart
      <4>2. PICK k : k = n + 1
        OBVIOUS
      <4>3. PICK nx : nx = chain.next
        OBVIOUS
      <4>4. PICK pr : pr = chain.pre
        OBVIOUS
      <4>5. Relinked(q, m, p, k, n, nx, pr, ch.next, ch.pre) /\ Links(t, l, hd, nx, pr)
        BY <1>2, <3>2, <4>2, <4>3, <4>4
      <4> QED
        BY <1>3, <2>5, <4>1, <4>5, OtherLinks
    <3> QED
      BY <2>7, <3>1, <3>3
  <2> QED
    BY <2>4, <2>8 DEF Chained
<1> QED
  BY <1>5, <1>6 DEF AllChained

LEMMA NotEntered ==
  ASSUME NEW n \in Nat, Holds(n), NEW e, NEW E2, Longer(E2, entries, e), ~FirstIn(E2, n + 1)
  PROVE  TypedChain(Alone(n + 1), n + 1) /\ AllChained(E2, Alone(n + 1))
<1>1. PICK k \in Nat : k = n + 1
  OBVIOUS
<1>2. n = Len(entries) /\ Len(entries) \in Nat /\ AllChained(entries, chain) /\ TypedChain(chain, n)
  BY DEF Holds
<1>3. PICK hd, nx, pr : Fields(Alone(k), hd, nx, pr) /\ AloneFields(hd, nx, pr, n, k)
  BY <1>1, <1>2, AloneIs
<1>4. Alone(k).head = chain.head /\ Alone(k).next = nx /\ Alone(k).pre = pr
  BY <1>3 DEF Fields, AloneFields
<1>5. TypedChain(Alone(k), k)
  <2>1. hd \in [0 .. CHUNK_BLK_HASH - 1 -> 0..k] /\ nx \in [1..k -> 1..k] /\ pr \in [1..k -> 1..k]
    BY <1>3 DEF AloneFields, Lengthened
  <2>2. TypedChain([head |-> hd, next |-> nx, pre |-> pr], k)
    BY <2>1, IsTyped
  <2> QED
    BY <1>3, <2>2 DEF Fields
<1>6. ASSUME NEW g \in 0 .. CHUNK_BLK_HASH - 1 PROVE Chained(g, E2, Alone(k))
  <2>1. Chained(g, entries, chain)
    BY <1>2 DEF AllChained
  <2>2. PICK l \in Nat : \E t : /\ Order(t, l, g, entries)
                                /\ Links(t, l, chain.head[g], chain.next, chain.pre)
    BY <2>1 DEF Chained
  <2>3. PICK t : Order(t, l, g, entries) /\ Links(t, l, chain.head[g], chain.next, chain.pre)
    BY <2>2
  <2>4. Order(t, l, g, E2)
    BY <1>1, <1>2, <2>3, SameOrder
  <2>5. t \in [1..l -> 1..n]
    BY <1>2, <2>3 DEF Order
  <2>6. \A i \in 1..l : nx[t[i]] = chain.next[t[i]] /\ pr[t[i]] = chain.pre[t[i]]
    BY <1>3, <2>5 DEF AloneFields, Lengthened
  <2>7. Links(t, l, chain.head[g], nx, pr)
    BY <2>3, <2>6, LinksFields
  <2>8. Links(t, l, Alone(k).head[g], Alone(k).next, Alone(k).pre)
    BY <1>4, <2>7
  <2> QED
    BY <2>4, <2>8 DEF Chained
<1> QED
  BY <1>1, <1>5, <1>6 DEF AllChained

LEMMA LinkedKeeps ==
  ASSUME NEW n \in Nat, Holds(n), NEW e, e.rolling_chksm \in Nat,
         NEW h \in 0 .. CHUNK_BLK_HASH - 1, h = Hash(e), NEW E2, Longer(E2, entries, e)
  PROVE  TypedChain(Linked(h, e, n + 1), n + 1) /\ AllChained(E2, Linked(h, e, n + 1))
<1>1. n = Len(entries) /\ Len(entries) \in Nat /\ TypedChain(chain, n) /\ Checked(entries)
  BY DEF Holds
<1>2. PICK m \in Nat : \E q : /\ Order(q, m, h, entries)
                              /\ Links(q, m, chain.head[h], chain.next, chain.pre)
  BY DEF Holds, AllChained, Chained
<1>3. PICK q : Order(q, m, h, entries) /\ Links(q, m, chain.head[h], chain.next, chain.pre)
  BY <1>2
<1>4. q \in [1..m -> 1..n] /\ \A i, j \in 1..m : q[i] = q[j] => i = j
  BY <1>1, <1>3 DEF Order
<1>5. E2[n + 1] = e /\ \A j \in 1..n : E2[j] = entries[j]
  BY <1>1 DEF Longer
<1>6. ASSUME \A i \in 1..m : ~Same(entries[q[i]], e) PROVE FirstIn(E2, n + 1)
  <2>1. ASSUME NEW j \in 1..(n + 1 - 1) PROVE ~Same(E2[j], E2[n + 1])
    <3>1. j \in 1..n
      OBVIOUS
    <3>2. j \in 1..Len(entries)
      BY <1>1, <3>1
    <3>3. ~Same(entries[j], e)
      BY <1>1, <1>3, <1>6, <3>2, Representative
    <3> QED
      BY <1>5, <3>1, <3>3
  <2> QED
    BY <2>1 DEF FirstIn
<1>7. CASE m = 0
  <2>1. chain.head[h] = NIL
    BY <1>3, <1>7 DEF Links
  <2>2. Linked(h, e, n + 1) = LinkHead(h, n + 1)
    BY <2>1 DEF Linked
  <2>3. LinkedAt(LinkHead(h, n + 1), h, q, m, 1, n)
    BY <1>1, <1>7, HeadLinks
  <2>4. FirstIn(E2, n + 1)
    BY <1>6, <1>7
  <2>5. 1 \in 1..(m + 1) /\ \A i \in 1..m : FALSE
    BY <1>7
  <2>6. AllChained(E2, LinkHead(h, n + 1))
    BY <1>3, <2>3, <2>4, <2>5, Entered
  <2> QED
    BY <2>2, <2>3, <2>6 DEF LinkedAt
<1>8. CASE m # 0
  <2>1. chain.head[h] # NIL
    <3>1. 1 \in 1..m
      BY <1>8
    <3>2. q[1] \in 1..n
      BY <1>4, <3>1
    <3> QED
      BY <1>3, <1>8, <3>2 DEF Links, NIL
  <2>2. PICK c \in 1..m : StopsAt(q, m, c, e) /\ Walk(h, e) = q[c]
    BY <1>1, <1>3, <1>8, WalkIs
  <2>3. CASE Same(entries[q[c]], e)
    <3>1. Linked(h, e, n + 1) = Alone(n + 1)
      BY <2>1, <2>2, <2>3 DEF Linked
    <3>2. ~FirstIn(E2, n + 1)
      <4>1. q[c] \in 1..n
        BY <1>4
      <4>2. q[c] \in 1..(n + 1 - 1)
        BY <4>1
      <4> QED
        BY <1>5, <2>3, <4>1, <4>2 DEF FirstIn
    <3> QED
      BY <3>1, <3>2, NotEntered
  <2>4. \A i \in 1..m : entries[q[i]].rolling_chksm \in Nat
    BY <1>1, <1>4 DEF Checked
  <2>5. \A i \in 1..m : i < c => i \in 1..(c - 1)
    OBVIOUS
  <2>6. \A i \in 1..m : i < c => /\ ~Same(entries[q[i]], e)
                                 /\ entries[q[i]].rolling_chksm <= e.rolling_chksm
    BY <2>2, <2>5 DEF StopsAt
  <2>7. CASE ~Same(entries[q[c]], e) /\ entries[q[c]].rolling_chksm > e.rolling_chksm
    <3>1. Linked(h, e, n + 1) = LinkBefore(h, q[c], n + 1)
      BY <2>1, <2>2, <2>7 DEF Linked
    <3>2. LinkedAt(LinkBefore(h, q[c], n + 1), h, q, m, c, n)
      BY <1>1, <1>3, <1>4, BeforeLinks
    <3>3. ASSUME NEW i \in 1..m, i >= c PROVE entries[q[i]].rolling_chksm > e.rolling_chksm
      <4>1. entries[q[c]].rolling_chksm <= entries[q[i]].rolling_chksm
        BY <1>3, <3>3 DEF Order, Sorted
      <4> QED
        BY <2>7, <2>4, <4>1
    <3>4. \A i \in 1..m : ~Same(entries[q[i]], e)
      <4>1. ASSUME NEW i \in 1..m PROVE ~Same(entries[q[i]], e)
        <5>1. CASE i < c
          BY <2>6, <5>1
        <5>2. CASE i >= c
          BY <2>4, <3>3, <5>2 DEF Same
        <5> QED
          BY <5>1, <5>2
      <4> QED
        BY <4>1
    <3>5. \A i \in 1..m : i >= c => e.rolling_chksm <= entries[q[i]].rolling_chksm
      BY <2>4, <3>3
    <3>6. \A i \in 1..m : i < c => entries[q[i]].rolling_chksm <= e.rolling_chksm
      BY <2>6
    <3>7. FirstIn(E2, n + 1) /\ c \in 1..(m + 1)
      BY <1>6, <3>4
    <3>8. AllChained(E2, LinkBefore(h, q[c], n + 1))
      BY <1>3, <3>2, <3>5, <3>6, <3>7, Entered
    <3> QED
      BY <3>1, <3>2, <3>8 DEF LinkedAt
  <2>8. CASE ~Same(entries[q[c]], e) /\ ~(entries[q[c]].rolling_chksm > e.rolling_chksm)
    <3>1. Linked(h, e, n + 1) = LinkBehind(q[c], n + 1)
      BY <2>1, <2>2, <2>8 DEF Linked
    <3>2. c = m
      BY <2>2, <2>8 DEF StopsAt
    <3>3. LinkedAt(LinkBehind(q[m], n + 1), h, q, m, m + 1, n)
      BY <1>1, <1>4, <1>8, BehindLinks
    <3>4. ASSUME NEW i \in 1..m
          PROVE  ~Same(entries[q[i]], e) /\ entries[q[i]].rolling_chksm <= e.rolling_chksm
      <4>1. CASE i < c
        BY <2>6, <4>1
      <4>2. CASE i = c
        BY <2>8, <2>4, <4>2
      <4> QED
        BY <3>2, <4>1, <4>2
    <3>5. FirstIn(E2, n + 1) /\ m + 1 \in 1..(m + 1)
      BY <1>6, <3>4
    <3>6. \A i \in 1..m : i < m + 1 => entries[q[i]].rolling_chksm <= e.rolling_chksm
      BY <3>4
    <3>7. \A i \in 1..m : i >= m + 1 => e.rolling_chksm <= entries[q[i]].rolling_chksm
      OBVIOUS
    <3>8. AllChained(E2, LinkBehind(q[m], n + 1))
      BY <1>3, <3>3, <3>5, <3>6, <3>7, Entered
    <3> QED
      BY <3>1, <3>2, <3>3, <3>8 DEF LinkedAt
  <2> QED
    BY <2>3, <2>7, <2>8
<1> QED
  BY <1>7, <1>8
-----------------------------------------------------------------------------
USE RollingSyncAssumption, FilesAssumption

LEMMA WindowIs ==
  ASSUME NEW file \in Seq(Nat), NEW k \in Nat \ {0}
  PROVE  /\ Window(file, k) \in [1..BLOCK_SZ -> Nat]
         /\ k <= Len(file) => Window(file, k)[1] = file[k]
<1>1. \A i \in 1..BLOCK_SZ : k + i - 1 <= Len(file) => file[k + i - 1] \in Nat
  OBVIOUS
<1>2. Window(file, k) \in [1..BLOCK_SZ -> Nat]
  BY <1>1 DEF Window
<1>3. ASSUME k <= Len(file) PROVE Window(file, k)[1] = file[k]
  <2>1. 1 \in 1..BLOCK_SZ /\ k + 1 - 1 = k
    OBVIOUS
  <2>2. Window(file, k)[1] = IF k + 1 - 1 <= Len(file) THEN file[k + 1 - 1] ELSE 0
    BY <2>1 DEF Window
  <2> QED
    BY <1>3, <2>1, <2>2
<1> QED
  BY <1>2, <1>3

LEMMA WindowSlides ==
  ASSUME NEW file \in Seq(Nat), NEW k \in Nat \ {0}, NEW l, l = k + 1
  PROVE  Slides(Window(file, k), Window(file, l), BLOCK_SZ)
<1>1. ASSUME NEW i \in 1..(BLOCK_SZ - 1) PROVE Window(file, l)[i] = Window(file, k)[i + 1]
  <2>1. PICK j \in 1..BLOCK_SZ : j = i + 1 /\ i \in 1..BLOCK_SZ
    OBVIOUS
  <2>2. PICK m \in Int : m = l + i - 1 /\ m = k + j - 1
    BY <2>1
  <2>3. Window(file, l)[i] = IF m <= Len(file) THEN file[m] ELSE 0
    BY <2>1, <2>2 DEF Window
  <2>4. Window(file, k)[j] = IF m <= Len(file) THEN file[m] ELSE 0
    BY <2>1, <2>2 DEF Window
  <2> QED
    BY <2>1, <2>3, <2>4
<1> QED
  BY <1>1 DEF Slides

(* The checksum of a block, by its two sums. *)
Sums(b, x, y) ==
    \E v, P, P2 : /\ Weighted(v, b, BLOCK_SZ)
                  /\ Prefix(P, b, BLOCK_SZ) /\ x = P[BLOCK_SZ]
                  /\ Prefix(P2, v, BLOCK_SZ) /\ y = P2[BLOCK_SZ]

LEMMA ChecksumIs ==
  ASSUME NEW b \in [1..BLOCK_SZ -> Nat]
  PROVE  \E x, y \in Nat : /\ Sums(b, x, y)
                           /\ cal_rollin_cksm(b) = [akl |-> x % ROLLING_CHKSUM_M,
                                                    bkl |-> y % ROLLING_CHKSUM_M]
<1>1. PICK n \in Nat : n = BLOCK_SZ
  OBVIOUS
<1>2. b \in [1..n -> Nat]
  BY <1>1
<1>3. PICK v : Weighted(v, b, n)
  BY DEF Weighted
<1>4. v \in [1..n -> Nat]
  <2>1. ASSUME NEW i \in 1..n PROVE (n - i + 1) * b[i] \in Nat
    <3>1. n - i + 1 \in Nat /\ b[i] \in Nat
      BY <1>2
    <3> QED
      BY <3>1
  <2> QED
    BY <1>3, <2>1 DEF Weighted
<1>5. PICK g : /\ SumsUpTo(g, b, 1..n, Cardinality(1..n))
               /\ MapThenSumSet(LAMBDA i : b[i], DOMAIN b) = g[1..n]
  BY <1>2, PlainSum
<1>6. PICK h : /\ SumsUpTo(h, v, 1..n, Cardinality(1..n))
               /\ MapThenSumSet(LAMBDA i : (Len(b) - i + 1) * b[i], DOMAIN b) = h[1..n]
  BY <1>2, <1>3, WeightedSum
<1>7. PICK P : P = [m \in 0..n |-> g[1..m]] /\ Prefix(P, b, n)
  BY <1>2, <1>5, SumsArePrefix
<1>8. PICK P2 : P2 = [m \in 0..n |-> h[1..m]] /\ Prefix(P2, v, n)
  BY <1>4, <1>6, SumsArePrefix
<1>9. n \in 0..n
  OBVIOUS
<1>10. P[n] = g[1..n] /\ P2[n] = h[1..n] /\ P[n] \in Nat /\ P2[n] \in Nat
  BY <1>7, <1>8, <1>9 DEF Prefix
<1>11. Sums(b, P[n], P2[n])
  BY <1>1, <1>3, <1>7, <1>8 DEF Sums
<1>12. cal_rollin_cksm(b) = [akl |-> P[n] % ROLLING_CHKSUM_M, bkl |-> P2[n] % ROLLING_CHKSUM_M]
  BY <1>5, <1>6, <1>10 DEF cal_rollin_cksm
<1> QED
  BY <1>10, <1>11, <1>12

LEMMA ChecksumType ==
  ASSUME NEW file \in Seq(Nat), NEW k \in Nat \ {0}
  PROVE  skl(cal_rollin_cksm(Window(file, k))) \in Nat
<1>1. PICK M \in Nat \ {0} : M = ROLLING_CHKSUM_M
  OBVIOUS
<1>2. PICK x, y \in Nat : cal_rollin_cksm(Window(file, k)) = [akl |-> x % M, bkl |-> y % M]
  <2>1. Window(file, k) \in [1..BLOCK_SZ -> Nat]
    BY WindowIs
  <2>2. \A b \in [1..BLOCK_SZ -> Nat] :
           \E x, y \in Nat : cal_rollin_cksm(b) = [akl |-> x % M, bkl |-> y % M]
    BY <1>1, ChecksumIs
  <2> QED
    BY <2>1, <2>2
<1>3. x % M \in Nat /\ y % M \in Nat
  OBVIOUS
<1>4. PICK r \in Nat, s \in Nat : r = x % M /\ s = y % M
  BY <1>3
<1>5. r + s * M \in Nat
  <2>1. s * M \in Nat
    OBVIOUS
  <2> QED
    BY <2>1
<1> QED
  BY <1>2, <1>1, <1>4, <1>5 DEF skl

(* The derived checksum is the one computed afresh. *)
LEMMA Derived ==
  ASSUME NEW file \in Seq(Nat), NEW k \in 1..Len(file)
  PROVE  cal_rollin_cksm_plus_1(cal_rollin_cksm(Window(file, k)), file[k],
                                Window(file, k + 1)[BLOCK_SZ], BLOCK_SZ)
           = cal_rollin_cksm(Window(file, k + 1))
<1>1. PICK n \in Nat \ {0} : n = BLOCK_SZ
  OBVIOUS
<1>2. PICK M \in Nat \ {0} : M = ROLLING_CHKSUM_M
  OBVIOUS
<1>3. PICK b : b = Window(file, k)
  OBVIOUS
<1>4. PICK c : c = Window(file, k + 1)
  OBVIOUS
<1>5. /\ b \in [1..n -> Nat] /\ c \in [1..n -> Nat] /\ b[1] = file[k]
      /\ Slides(b, c, n)
  <2>1. k \in Nat \ {0} /\ k <= Len(file)
    OBVIOUS
  <2>2. PICK l \in Nat \ {0} : l = k + 1
    BY <2>1
  <2>3. \A m \in Nat \ {0} : Window(file, m) \in [1..BLOCK_SZ -> Nat]
    BY WindowIs
  <2>4. Window(file, k)[1] = file[k]
    BY <2>1, WindowIs
  <2>5. Slides(Window(file, k), Window(file, l), BLOCK_SZ)
    BY <2>1, <2>2, WindowSlides
  <2> QED
    BY <1>1, <1>3, <1>4, <2>1, <2>2, <2>3, <2>4, <2>5
<1>6. PICK x, y \in Nat : Sums(b, x, y) /\ cal_rollin_cksm(b) = [akl |-> x % M, bkl |-> y % M]
  BY <1>1, <1>2, <1>5, ChecksumIs
<1>7. PICK s, t \in Nat : Sums(c, s, t) /\ cal_rollin_cksm(c) = [akl |-> s % M, bkl |-> t % M]
  BY <1>1, <1>2, <1>5, ChecksumIs
<1>8. s = x - b[1] + c[n] /\ t = y - n * b[1] + s
  <2>1. PICK v, P, P2 : /\ Weighted(v, b, n) /\ Prefix(P, b, n) /\ x = P[n]
                        /\ Prefix(P2, v, n) /\ y = P2[n]
    BY <1>1, <1>6 DEF Sums
  <2>2. PICK w, Q, Q2 : /\ Weighted(w, c, n) /\ Prefix(Q, c, n) /\ s = Q[n]
                        /\ Prefix(Q2, w, n) /\ t = Q2[n]
    BY <1>1, <1>7 DEF Sums
  <2>3. NextSums(b, c, n, P[n], P2[n], Q[n], Q2[n])
    BY <1>5, <2>1, <2>2, NextWindow
  <2> QED
    BY <2>1, <2>2, <2>3 DEF NextSums
<1>9. PICK o \in Nat : o = b[1]
  <2>1. 1 \in 1..n
    OBVIOUS
  <2> QED
    BY <1>5, <2>1
<1>10. PICK z \in Nat : z = c[n]
  <2>1. n \in 1..n
    OBVIOUS
  <2> QED
    BY <1>5, <2>1
<1>11. PICK d \in Int : d = n * o
  OBVIOUS
<1>12. U32((x % M) - o + z) % M = s % M
  <2>1. PICK e \in Int : e = z - o
    OBVIOUS
  <2>2. ((x % M) + e) % M = (x + e) % M
    <3>1. \A i, j \in Int : ((i % M) + j) % M = (i + j) % M
      BY OneRemainder
    <3>2. x \in Int /\ e \in Int
      OBVIOUS
    <3> QED
      BY <3>1, <3>2, Zenon
  <2>3. PICK r \in Nat : r = x % M
    OBVIOUS
  <2>4. s = x - o + z
    BY <1>8, <1>9, <1>10, Zenon
  <2>5. r - o + z = r + e /\ x + e = s /\ r + e \in Int
    BY <2>1, <2>4
  <2>6. U32(r + e) % M = (r + e) % M
    BY <1>2, <2>5, WrapKeeps
  <2> QED
    BY <2>2, <2>3, <2>5, <2>6
<1>13. U32((y % M) - d + (s % M)) % M = t % M
  <2>1. PICK e \in Int : e = -d
    OBVIOUS
  <2>2. ((y % M) + e + (s % M)) % M = (y + e + s) % M
    <3>1. y \in Int /\ e \in Int /\ s \in Int
      OBVIOUS
    <3>2. SumsAgree(M, y, e, s)
      BY <3>1, TwoRemainders
    <3> QED
      BY <3>2 DEF SumsAgree
  <2>3. PICK r \in Nat : r = y % M
    OBVIOUS
  <2>4. PICK q \in Nat : q = s % M
    OBVIOUS
  <2>5. r - d + q = r + e + q /\ r + e + q \in Int
    BY <2>1
  <2>6. y + e + s = t
    BY <1>8, <1>9, <1>11, <2>1
  <2>7. U32(r + e + q) % M = (r + e + q) % M
    BY <1>2, <2>5, WrapKeeps
  <2> QED
    BY <2>2, <2>3, <2>4, <2>5, <2>6, <2>7
<1>14. cal_rollin_cksm_plus_1([akl |-> x % M, bkl |-> y % M], o, z, n) =
         [akl |-> U32((x % M) - o + z) % M,
          bkl |-> U32((y % M) - n * o + (U32((x % M) - o + z) % M)) % M]
  BY <1>2 DEF cal_rollin_cksm_plus_1
<1>15. cal_rollin_cksm_plus_1([akl |-> x % M, bkl |-> y % M], o, z, n) = cal_rollin_cksm(c)
  BY <1>7, <1>11, <1>12, <1>13, <1>14
<1> QED
  BY <1>1, <1>3, <1>4, <1>5, <1>6, <1>9, <1>10, <1>15

(* The derived checksums: the old file of dst is a sequence of bytes for good. *)
LEMMA OldFile == Spec => [](was.dst \in Seq(Nat))
<1>1. Init => was.dst \in Seq(Nat)
  BY DEF Init
<1>2. was.dst \in Seq(Nat) /\ [Next]_vars => (was.dst \in Seq(Nat))'
  <2> SUFFICES ASSUME was.dst \in Seq(Nat), [Next]_vars PROVE was' = was
    OBVIOUS
  <2>1. CASE DstStep
    BY <2>1 DEF DstStep, DstHeader, DstReply, DstBlock, DstDelta, DstFile, history
  <2>2. CASE SrcStep
    BY <2>2 DEF SrcStep, SrcOpen, SrcEntry, SrcFill, SrcHead, SrcSend, history
  <2>3. CASE DstDies \/ DstFails
    BY <2>3 DEF DstDies, DstFails
  <2>4. CASE UNCHANGED vars
    BY <2>4 DEF vars
  <2> QED
    BY <2>1, <2>2, <2>3, <2>4 DEF Next
<1> QED
  BY <1>1, <1>2, PTL DEF Spec

(* In 32 bits that wrap, and for every file, block size and modulus, the checksum
   derived from that of a block is the one of the block a byte further. *)
THEOREM DerivedChecksums == Spec => []RollingExact
<1>1. was.dst \in Seq(Nat) => RollingExact
  <2> SUFFICES ASSUME was.dst \in Seq(Nat), NEW k \in DOMAIN was.dst
               PROVE  cal_rollin_cksm_plus_1(cal_rollin_cksm(Window(was.dst, k)), was.dst[k],
                                             Window(was.dst, k + 1)[BLOCK_SZ], BLOCK_SZ)
                        = cal_rollin_cksm(Window(was.dst, k + 1))
    BY DEF RollingExact
  <2>1. k \in 1..Len(was.dst)
    OBVIOUS
  <2> QED
    BY <2>1, Derived
<1> QED
  BY <1>1, OldFile, PTL
-----------------------------------------------------------------------------
(* What src sends is one stream: its answer, the number of delta blocks, and the
   one delta block, which is its file. *)
Message(r, b, i) == IF i = 1 THEN r ELSE IF i = 2 THEN 1 ELSE [offset |-> 0, data |-> b]
Lane(r, b, g, p) == [i \in 1..(p - g) |-> Message(r, b, i + g)]

LEMMA LaneRead ==
  ASSUME NEW r, NEW b, NEW g \in 0..3, NEW p \in 0..3, g <= p
  PROVE  /\ Lane(r, b, g, p) # <<>> => g < p
         /\ g < p => /\ Lane(r, b, g, p)[1] = Message(r, b, g + 1)
                     /\ Tail(Lane(r, b, g, p)) = Lane(r, b, g + 1, p)
<1>1. PICK s : s = Lane(r, b, g, p)
  OBVIOUS
<1>2. PICK n \in Nat : n = p - g
  OBVIOUS
<1>3. s = [i \in 1..n |-> Message(r, b, i + g)]
  BY <1>1, <1>2 DEF Lane
<1>4. ASSUME ~(g < p) PROVE Lane(r, b, g, p) = <<>>
  <2>1. n = 0
    BY <1>2, <1>4
  <2> QED
    BY <1>1, <1>3, <2>1
<1>5. ASSUME g < p PROVE s[1] = Message(r, b, g + 1) /\ Tail(s) = Lane(r, b, g + 1, p)
  <2>1. n \in Nat \ {0} /\ 1 \in 1..n /\ p - (g + 1) = n - 1 /\ 1 + g = g + 1
    BY <1>2, <1>5
  <2>2. PICK S : Len(s) = n /\ s \in Seq(S)
    <3>1. PICK S : S = {Message(r, b, i + g) : i \in 1..n}
      OBVIOUS
    <3>2. s \in [1..n -> S]
      BY <1>3, <3>1
    <3>3. s \in Seq(S)
      BY <3>2
    <3>4. Len(s) = n
      BY <1>3, <3>3
    <3> QED
      BY <3>3, <3>4
  <2>3. Tail(s) = [i \in 1..(n - 1) |-> s[i + 1]]
    <3>1. s # <<>>
      BY <2>1, <2>2
    <3>2. Tail(s) \in Seq(S) /\ Len(Tail(s)) = n - 1
      BY <2>1, <2>2, <3>1
    <3>3. \A i \in 1..(n - 1) : Tail(s)[i] = s[i + 1]
      BY <2>1, <2>2, <3>1
    <3>4. Tail(s) = [i \in 1..(n - 1) |-> Tail(s)[i]]
      <4>1. PICK t \in Seq(S) : t = Tail(s) /\ Len(t) = n - 1
        BY <3>2
      <4>2. DOMAIN t = 1..(n - 1)
        BY <4>1
      <4>3. t = [i \in DOMAIN t |-> t[i]]
        OBVIOUS
      <4> QED
        BY <4>1, <4>2, <4>3
    <3> QED
      BY <3>3, <3>4
  <2>4. ASSUME NEW i \in 1..(n - 1) PROVE s[i + 1] = Message(r, b, i + (g + 1))
    <3>1. i + 1 \in 1..n /\ (i + 1) + g = i + (g + 1)
      OBVIOUS
    <3> QED
      BY <1>3, <3>1
  <2>5. Lane(r, b, g + 1, p) = [i \in 1..(n - 1) |-> Message(r, b, i + (g + 1))]
    BY <2>1 DEF Lane
  <2>6. s[1] = Message(r, b, 1 + g)
    BY <1>3, <2>1
  <2> QED
    BY <2>1, <2>3, <2>4, <2>5, <2>6
<1> QED
  BY <1>1, <1>4, <1>5

LEMMA LaneWritten ==
  ASSUME NEW r, NEW b
  PROVE  \A g \in 0..3, p \in 0..2, m \in 1..3 :
            g <= p /\ m = p + 1 => Append(Lane(r, b, g, p), Message(r, b, m)) = Lane(r, b, g, m)
<1> SUFFICES ASSUME NEW g \in 0..3, NEW p \in 0..2, g <= p
             PROVE  Append(Lane(r, b, g, p), Message(r, b, p + 1)) = Lane(r, b, g, p + 1)
  OBVIOUS
<1>1. PICK s : s = Lane(r, b, g, p)
  OBVIOUS
<1>2. PICK n \in Nat : n = p - g
  OBVIOUS
<1>3. s = [i \in 1..n |-> Message(r, b, i + g)]
  BY <1>1, <1>2 DEF Lane
<1>4. PICK S : Len(s) = n /\ s \in Seq(S)
  <2>1. PICK S : S = {Message(r, b, i + g) : i \in 1..n}
    OBVIOUS
  <2>2. s \in [1..n -> S]
    BY <1>3, <2>1
  <2>3. s \in Seq(S)
    BY <2>2
  <2>4. Len(s) = n
    BY <1>3, <2>3
  <2> QED
    BY <2>3, <2>4
<1>5. Append(s, Message(r, b, p + 1)) =
        [i \in 1..(n + 1) |-> IF i = n + 1 THEN Message(r, b, p + 1) ELSE s[i]]
  BY <1>4
<1>6. ASSUME NEW i \in 1..(n + 1)
      PROVE  (IF i = n + 1 THEN Message(r, b, p + 1) ELSE s[i]) = Message(r, b, i + g)
  <2>1. CASE i = n + 1
    <3>1. i + g = p + 1
      BY <1>2, <2>1
    <3> QED
      BY <2>1, <3>1
  <2>2. CASE i # n + 1
    <3>1. i \in 1..n
      BY <2>2
    <3> QED
      BY <1>3, <2>2, <3>1
  <2> QED
    BY <2>1, <2>2
<1>7. p + 1 - g = n + 1
  BY <1>2
<1>8. Lane(r, b, g, p + 1) = [i \in 1..(n + 1) |-> Message(r, b, i + g)]
  BY <1>7 DEF Lane
<1> QED
  BY <1>1, <1>5, <1>6, <1>8

(* What dst writes at the start of a file. *)
LEMMA WrittenAtStart ==
  ASSUME NEW file \in Seq(Nat), NEW data \in Seq(Nat)
  PROVE  /\ Written(file, 0, data) = data \o SubSeq(file, Len(data) + 1, Len(file))
         /\ Written(file, 0, data) \in Seq(Nat)
<1>1. WrittenUpTo(file, 0, data) = data
  <2>1. 0 + Len(data) = Len(data) /\ Len(data) \in Nat
    OBVIOUS
  <2>2. data = [i \in 1..Len(data) |-> data[i]]
    OBVIOUS
  <2>3. ASSUME NEW i \in 1..Len(data)
        PROVE  (IF i > 0 THEN data[i - 0] ELSE IF i <= Len(file) THEN file[i] ELSE 0) = data[i]
    OBVIOUS
  <2>4. WrittenUpTo(file, 0, data) = [i \in 1..Len(data) |-> data[i]]
    BY <2>1, <2>3 DEF WrittenUpTo
  <2> QED
    BY <2>2, <2>4
<1>2. 0 + Len(data) + 1 = Len(data) + 1
  OBVIOUS
<1>3. SubSeq(file, Len(data) + 1, Len(file)) \in Seq(Nat)
  OBVIOUS
<1>4. data \o SubSeq(file, Len(data) + 1, Len(file)) \in Seq(Nat)
  BY <1>3
<1> QED
  BY <1>1, <1>2, <1>4 DEF Written

(* The list of delta blocks is one block. *)
LEMMA OneDelta ==
  ASSUME NEW n \in Nat \ {0}
  PROVE  DeltaList(0, n) = <<[offset |-> 0, len |-> DeltaLen(n)]>>
<1> DEFINE D == 0 .. n + BLOCK_SZ
           one(o) == <<[offset |-> o, len |-> DeltaLen(n - o)]>>
           next(o) == o + DeltaLen(n - o)
           F(l) == [o \in D |-> IF o >= n THEN <<>> ELSE one(o) \o l[next(o)]]
           list == CHOOSE l : l = F(l)
           g == [o \in D |-> IF o >= n THEN <<>> ELSE one(o)]
<1>1. ASSUME NEW o \in D, ~(o >= n) PROVE next(o) \in D /\ next(o) >= n
  BY <1>1 DEF DeltaLen
<1>2. g = F(g)
  <2>1. ASSUME NEW o \in D
        PROVE  g[o] = IF o >= n THEN <<>> ELSE one(o) \o g[next(o)]
    <3>1. CASE o >= n
      BY <3>1
    <3>2. CASE ~(o >= n)
      <4>1. g[next(o)] = <<>>
        BY <1>1, <3>2
      <4>2. one(o) \o <<>> = one(o)
        OBVIOUS
      <4> QED
        BY <3>2, <4>1, <4>2
    <3> QED
      BY <3>1, <3>2
  <2> QED
    BY <2>1
<1>3. list = F(list)
  <2> HIDE DEF F, g
  <2> QED
    BY <1>2
<1>4. 0 \in D /\ ~(0 >= n)
  OBVIOUS
<1>5. list[0] = one(0) \o list[next(0)]
  <2> HIDE DEF list, one, next
  <2> QED
    BY <1>3, <1>4
<1>6. list[next(0)] = <<>>
  <2>1. next(0) \in D /\ next(0) >= n
    BY <1>1, <1>4
  <2> HIDE DEF list, next, one
  <2> QED
    BY <1>3, <2>1
<1>7. one(0) \o <<>> = <<[offset |-> 0, len |-> DeltaLen(n)]>>
  <2>1. n - 0 = n
    OBVIOUS
  <2> QED
    BY <2>1
<1>8. DeltaList(0, n) = list[0]
  BY DEF DeltaList
<1> QED
  <2> HIDE DEF list, one, next
  <2> QED
    BY <1>5, <1>6, <1>7, <1>8

LEMMA NoBlocks ==
  ASSUME NEW file \in Seq(Nat)
  PROVE  BlockNr(file) \in Nat /\ (BlockNr(file) = 0 <=> file = <<>>)
<1>1. PICK n \in Nat : n = Len(file)
  OBVIOUS
<1>2. PICK b \in Nat \ {0} : b = BLOCK_SZ
  OBVIOUS
<1>3. PICK q \in Int : q = (n + b - 1) \div b
  OBVIOUS
<1>4. PICK m \in Int : m = q * b
  OBVIOUS
<1>5. PICK r \in 0..(b - 1) : n + b - 1 = m + r
  <2>1. n + b - 1 = q * b + ((n + b - 1) % b) /\ (n + b - 1) % b \in 0..(b - 1)
    BY <1>3
  <2> QED
    BY <1>4, <2>1
<1>6. q >= 0
  <2>1. q <= -1 => q * b <= -b
    OBVIOUS
  <2> QED
    BY <1>4, <1>5, <2>1
<1>7. q = 0 <=> n = 0
  <2>1. q = 0 => m = 0
    BY <1>4
  <2>2. q >= 1 => q * b >= b
    OBVIOUS
  <2>3. n = 0 => ~(q >= 1)
    BY <1>4, <1>5, <2>2
  <2>4. m = 0 => n = 0
    BY <1>5
  <2> QED
    BY <1>6, <2>1, <2>3, <2>4
<1>8. file = <<>> <=> n = 0
  BY <1>1
<1> QED
  BY <1>1, <1>2, <1>3, <1>6, <1>7, <1>8 DEF BlockNr
-----------------------------------------------------------------------------
(* Where the programs are, and what is on the way between them. *)
Number == BlockNr(was.dst)
Readable == ~garbled /\ src \in Seq(Nat) /\ src # <<>>
Answer == IF garbled THEN "E_SRC_FILE_NOT_EXIST" ELSE Reply(src)
OldRep == IF was.rep = Missing THEN <<>> ELSE was.rep
Announced == {Entry(was.dst, i) : i \in 0..(Number - 1)}

Shapes ==
    /\ src \in SrcFiles /\ was.dst \in Seq(Nat) /\ was.rep \in Seq(Nat) \union {Missing}
    /\ dst \in {was.dst, Missing, <<>>} /\ rep \in Seq(Nat) \union {Missing}
    /\ number \in [src : Nat, dst : Nat] /\ sent \in Nat
    /\ buffer \in [off : 0 .. OFF - 1, bytes : Int, pos : Int]
    /\ garbled \in BOOLEAN

DstPlace ==
    /\ dstAt \in {"header", "reply", "blocks", "delta", "files", "ended"}
    /\ dead => dstAt = "ended"
    /\ failed => dead
    /\ dstAt # "ended" => dst = was.dst
    /\ dstAt \in {"header", "reply", "blocks", "delta"} => rep = was.rep
    /\ dstAt \in {"header", "reply", "delta", "files"} => sent = 0
    /\ dstAt = "blocks" => sent < Number
    /\ dstAt = "files" => number.dst = 1 /\ rep = OldRep
    /\ dstAt \in {"blocks", "delta", "files"} => Readable

SrcPlace ==
    /\ srcAt \in {"open", "entries", "search", "head", "send", "undefined", "ended"}
    /\ srcAt = "open" =>
          ~garbled /\ toSrc \in {<<>>, <<Number>>} /\ (dstAt = "ended" => dead)
    /\ dstAt = "header" => srcAt = "open" /\ toSrc = <<>>
    /\ srcAt \in {"entries", "search"} => Readable
    /\ srcAt \in {"head", "send", "undefined"} =>
          Readable /\ Number = 0 /\ delta = <<[offset |-> 0, len |-> DeltaLen(Len(src))]>>

Received ==
    /\ srcAt = "open" => entries = <<>>
    /\ srcAt # "open" => toSrc \in Seq(Announced)
    /\ entries \in Seq(Announced) /\ Len(entries) <= number.src
    /\ srcAt = "entries" => Len(entries) < number.src

(* p messages of the stream have been sent, and dst has read Got of them. *)
Got == IF dstAt \in {"header", "reply"} THEN 0 ELSE IF dstAt \in {"blocks", "delta"} THEN 1 ELSE 2

Sending(p) ==
    /\ srcAt = "open" => p = 0
    /\ srcAt \in {"entries", "search", "head"} => p = 1
    /\ srcAt \in {"send", "undefined"} => p = 2
    /\ p >= 1 => garbled \/ src # Unreadable
    /\ p >= 2 => Readable /\ Number = 0

InFlight(p) == Sending(p) /\ Got <= p /\ toDst = Lane(Answer, src, Got, p)

OnTheWay == dstAt # "ended" => \E p \in 0..3 : InFlight(p)

Stages == Shapes /\ DstPlace /\ SrcPlace /\ OnTheWay /\ Replica

LEMMA StagesInit == Init => Stages
<1> SUFFICES ASSUME Init PROVE Stages
  OBVIOUS
<1>1. Shapes
  <2>1. was = [dst |-> dst, rep |-> rep] /\ dst \in DstFiles /\ rep \in RepFiles /\ src \in SrcFiles
    BY DEF Init
  <2>2. was.dst = dst /\ was.rep = rep /\ dst \in Seq(Nat) /\ rep \in Seq(Nat) \union {Missing}
    BY <2>1
  <2>3. number \in [src : Nat, dst : Nat] /\ sent \in Nat /\ garbled \in BOOLEAN
    BY DEF Init
  <2>4. buffer \in [off : 0 .. OFF - 1, bytes : Int, pos : Int]
    BY DEF Init
  <2> QED
    BY <2>1, <2>2, <2>3, <2>4 DEF Shapes
<1>2. DstPlace /\ SrcPlace
  BY DEF Init, DstPlace, SrcPlace
<1>3. OnTheWay
  <2>1. Lane(Answer, src, 0, 0) = <<>>
    BY DEF Lane
  <2>2. InFlight(0)
    BY <2>1 DEF Init, InFlight, Sending, Got
  <2> QED
    BY <2>2 DEF OnTheWay
<1>4. Replica
  BY DEF Init, Replica
<1> QED
  BY <1>1, <1>2, <1>3, <1>4 DEF Stages

(* The frame of a step that leaves the stream and what dst has alone. *)
LEMMA SameStream ==
  ASSUME NEW p \in 0..3, InFlight(p), UNCHANGED <<src, toDst, was, garbled>>, Got' = Got,
         \A i \in 0..3 : Sending(i) => Sending(i)'
  PROVE  InFlight(p)'
BY DEF InFlight, Answer

LEMMA HeaderStage == Stages /\ DstHeader => Stages'
<1> SUFFICES ASSUME Stages, DstHeader PROVE Stages'
  OBVIOUS
<1> USE DEF Stages
<1>1. UNCHANGED <<src, dst, rep, srcAt, toDst, sent, number, buffer, delta, was, garbled, dead, failed>>
  BY DEF DstHeader, files, history
<1>2. dstAt = "header" /\ dstAt' = "reply" /\ srcAt = "open" /\ toSrc' = <<Number>>
  BY DEF DstHeader, SrcPlace, DstPlace, Number
<1>3. Shapes'
  BY <1>1 DEF Shapes
<1>4. DstPlace'
  BY <1>1, <1>2 DEF DstPlace
<1>5. SrcPlace'
  BY <1>1, <1>2 DEF SrcPlace, Number
<1>6. OnTheWay'
  <2>1. PICK p \in 0..3 : InFlight(p)
    BY <1>2 DEF OnTheWay
  <2>2. InFlight(p)'
    BY <1>1, <1>2, <2>1 DEF InFlight, Sending, Got, Answer, Readable, Number
  <2> QED
    BY <2>2 DEF OnTheWay
<1>7. Replica'
  BY <1>1, <1>2 DEF Replica
<1> QED
  BY <1>3, <1>4, <1>5, <1>6, <1>7

LEMMA ReplyStage == Stages /\ DstReply => Stages'
<1> SUFFICES ASSUME Stages, DstReply PROVE Stages'
  OBVIOUS
<1> USE DEF Stages
<1>1. UNCHANGED <<src, rep, srcAt, toSrc, sent, number, buffer, delta, was, garbled, dead, failed>>
  BY DEF DstReply, history
<1>2. /\ dstAt = "reply" /\ toDst # <<>> /\ dst = was.dst /\ rep = was.rep /\ sent = 0
      /\ ~dead /\ ~failed
  BY DEF DstReply, DstPlace
<1>3. PICK p \in 0..3 : InFlight(p) /\ Got = 0 /\ p >= 1
  <2>1. PICK p \in 0..3 : InFlight(p) /\ Got = 0
    BY <1>2 DEF OnTheWay, Got
  <2>2. toDst = Lane(Answer, src, 0, p)
    BY <2>1 DEF InFlight
  <2>3. 0 < p
    BY <1>2, <2>1, <2>2, LaneRead
  <2> QED
    BY <2>1, <2>3
<1>4. toDst[1] = Answer /\ Tail(toDst) = Lane(Answer, src, 1, p)
  <2>1. toDst = Lane(Answer, src, 0, p) /\ 0 < p
    BY <1>3 DEF InFlight
  <2>2. toDst[1] = Message(Answer, src, 0 + 1) /\ Tail(toDst) = Lane(Answer, src, 0 + 1, p)
    BY <1>3, <2>1, LaneRead, SMTT(60)
  <2> QED
    BY <2>2 DEF Message
<1>5. garbled \/ src # Unreadable
  BY <1>3 DEF InFlight, Sending
<1>6. srcAt # "open"
  BY <1>3 DEF InFlight, Sending
<1>7. /\ toDst' = Lane(Answer, src, 1, p) /\ dst' = AfterReply(Answer)
      /\ dstAt' = IF Answer # "E_OK" THEN "ended" ELSE IF dst = <<>> THEN "delta" ELSE "blocks"
  BY <1>4 DEF DstReply
<1>8. Answer = "E_OK" <=> Readable
  BY <1>5 DEF Answer, Reply, Readable, Shapes
<1>9. dst' \in {was.dst, Missing, <<>>}
  BY <1>2, <1>7 DEF AfterReply
<1>10. Shapes'
  BY <1>1, <1>9 DEF Shapes
<1>11. CASE ~Readable
  <2>1. dstAt' = "ended"
    BY <1>7, <1>8, <1>11
  <2>2. DstPlace'
    BY <1>1, <1>2, <2>1 DEF DstPlace
  <2>3. SrcPlace'
    BY <1>1, <1>6, <2>1 DEF SrcPlace, Readable, Number
  <2>4. Replica'
    <3>1. garbled => dst' = Missing
      BY <1>7 DEF Answer, AfterReply
    <3>2. ~garbled => src \in {Missing, <<>>}
      BY <1>5, <1>11 DEF Readable, Shapes
    <3>3. ~garbled => dst' = src
      BY <1>7, <3>2 DEF Answer, AfterReply, Reply
    <3> QED
      BY <1>1, <1>2, <3>1, <3>2, <3>3 DEF Replica
  <2> QED
    BY <1>10, <2>1, <2>2, <2>3, <2>4 DEF OnTheWay
<1>12. CASE Readable
  <2>1. dst' = dst /\ dstAt' = IF dst = <<>> THEN "delta" ELSE "blocks"
    BY <1>7, <1>8, <1>12 DEF AfterReply
  <2>2. Number \in Nat /\ (Number = 0 <=> dst = <<>>)
    BY <1>2, NoBlocks DEF Number, Shapes
  <2>3. DstPlace'
    BY <1>1, <1>2, <1>12, <2>1, <2>2 DEF DstPlace, Readable, Number
  <2>4. SrcPlace'
    BY <1>1, <1>6, <2>1 DEF SrcPlace, Readable, Number
  <2>5. Replica'
    BY <1>1, <1>2, <2>1 DEF Replica
  <2>6. InFlight(p)'
    <3>1. Got' = 1 /\ Sending(p)'
      BY <1>1, <1>3, <2>1 DEF Got, InFlight, Sending, Readable, Number
    <3>2. Answer' = Answer
      BY <1>1 DEF Answer
    <3> QED
      BY <1>1, <1>3, <1>7, <3>1, <3>2 DEF InFlight
  <2> QED
    BY <1>10, <2>3, <2>4, <2>5, <2>6 DEF OnTheWay
<1> QED
  BY <1>11, <1>12

LEMMA BlockStage == Stages /\ DstBlock => Stages'
<1> SUFFICES ASSUME Stages, DstBlock PROVE Stages'
  OBVIOUS
<1> USE DEF Stages
<1>1. UNCHANGED <<src, dst, rep, srcAt, toDst, number, buffer, delta, was, garbled, failed>>
  BY DEF DstBlock, files
<1>2. /\ dstAt = "blocks" /\ dst = was.dst /\ rep = was.rep /\ sent < Number /\ Readable
      /\ ~dead
  BY DEF DstBlock, DstPlace
<1>3. Number \in Nat /\ sent \in Nat /\ Readable'
  BY <1>1, <1>2, NoBlocks DEF Shapes, Number, Readable
<1>4. CASE /\ sent' = IF sent + 1 = BlockNr(dst) THEN 0 ELSE sent + 1
           /\ dstAt' = IF sent + 1 = BlockNr(dst) THEN "delta" ELSE "blocks"
           /\ UNCHANGED dead
  <2>1. Shapes'
    BY <1>1, <1>3, <1>4 DEF Shapes
  <2>2. Number' = Number /\ BlockNr(dst) = Number
    BY <1>1, <1>2 DEF Number
  <2>3. DstPlace'
    <3>1. dstAt' \in {"blocks", "delta"}
      BY <1>4
    <3>2. dstAt' = "delta" => sent' = 0
      BY <1>4
    <3>3. dstAt' = "blocks" => sent' < Number'
      BY <1>2, <1>3, <1>4, <2>2
    <3>4. UNCHANGED <<dst, rep, dead, failed, was>>
      BY <1>1, <1>4
    <3> QED
      BY <1>2, <1>3, <3>1, <3>2, <3>3, <3>4 DEF DstPlace
  <2>4. PICK p \in 0..3 : InFlight(p)
    BY <1>2 DEF OnTheWay
  <2>5. p >= 1
    BY <1>2, <2>4 DEF InFlight, Got
  <2>6. srcAt # "open"
    BY <2>4, <2>5 DEF InFlight, Sending
  <2>7. SrcPlace'
    BY <1>1, <1>3, <1>4, <2>2, <2>6 DEF SrcPlace
  <2>8. InFlight(p)'
    <3>1. Got' = Got
      BY <1>2, <1>4 DEF Got
    <3>2. Sending(p)'
      BY <1>1, <1>2, <1>3, <2>2, <2>4 DEF InFlight, Sending
    <3>3. Answer' = Answer
      BY <1>1 DEF Answer
    <3> QED
      BY <1>1, <2>4, <3>1, <3>2, <3>3 DEF InFlight
  <2>9. Replica'
    BY <1>1, <1>2, <1>4 DEF Replica
  <2> QED
    BY <2>1, <2>3, <2>7, <2>8, <2>9 DEF OnTheWay
<1>5. CASE srcAt = "ended" /\ dstAt' = "ended" /\ dead' = TRUE /\ UNCHANGED <<toSrc, sent>>
  <2>1. Shapes'
    BY <1>1, <1>5 DEF Shapes
  <2>2. DstPlace' /\ SrcPlace'
    BY <1>1, <1>2, <1>5 DEF DstPlace, SrcPlace
  <2>3. Replica' /\ OnTheWay'
    BY <1>1, <1>2, <1>5 DEF Replica, OnTheWay
  <2> QED
    BY <2>1, <2>2, <2>3
<1> QED
  BY <1>4, <1>5 DEF DstBlock

LEMMA DeltaStage == Stages /\ DstDelta => Stages'
<1> SUFFICES ASSUME Stages, DstDelta PROVE Stages'
  OBVIOUS
<1> USE DEF Stages
<1>1. UNCHANGED <<src, dst, srcAt, toSrc, sent, buffer, delta, was, garbled, dead, failed>>
  BY DEF DstDelta, history
<1>2. /\ dstAt = "delta" /\ dst = was.dst /\ rep = was.rep /\ sent = 0 /\ Readable
      /\ ~dead /\ ~failed /\ toDst # <<>>
  BY DEF DstDelta, DstPlace
<1>3. PICK p \in 0..3 : InFlight(p) /\ Got = 1
  BY <1>2 DEF OnTheWay, Got
<1>4. 1 < p /\ toDst[1] = 1 /\ Tail(toDst) = Lane(Answer, src, 2, p)
  <2>1. toDst = Lane(Answer, src, 1, p) /\ 1 <= p
    BY <1>3 DEF InFlight
  <2>2. 1 < p
    BY <1>2, <1>3, <2>1, LaneRead
  <2>3. toDst[1] = Message(Answer, src, 1 + 1) /\ Tail(toDst) = Lane(Answer, src, 1 + 1, p)
    BY <1>3, <2>1, <2>2, LaneRead
  <2> QED
    BY <2>2, <2>3 DEF Message
<1>5. /\ number' = [number EXCEPT !.dst = 1] /\ rep' = OldRep /\ dstAt' = "files"
      /\ toDst' = Lane(Answer, src, 2, p)
  BY <1>2, <1>4 DEF DstDelta, OldRep
<1>6. srcAt # "open" /\ Number = 0
  BY <1>3, <1>4 DEF InFlight, Sending
<1>7. Readable' /\ Number' = Number /\ OldRep' = OldRep /\ Answer' = Answer
  BY <1>1, <1>2 DEF Readable, Number, OldRep, Answer
<1>8. Shapes'
  <2>1. number' \in [src : Nat, dst : Nat] /\ OldRep \in Seq(Nat)
    <3>1. number' \in [src : Nat, dst : Nat]
      BY <1>5 DEF Shapes
    <3>2. <<>> \in Seq(Nat)
      OBVIOUS
    <3>3. OldRep \in Seq(Nat)
      BY <3>2 DEF Shapes, OldRep
    <3> QED
      BY <3>1, <3>3
  <2> QED
    BY <1>1, <1>5, <2>1 DEF Shapes
<1>9. DstPlace'
  <2>1. number'.dst = 1
    BY <1>5 DEF Shapes
  <2> QED
    BY <1>1, <1>2, <1>5, <1>7, <2>1 DEF DstPlace
<1>10. SrcPlace'
  BY <1>1, <1>5, <1>6, <1>7 DEF SrcPlace
<1>11. InFlight(p)'
  <2>1. Got' = 2 /\ Sending(p)'
    BY <1>1, <1>3, <1>5, <1>7 DEF Got, InFlight, Sending
  <2> QED
    BY <1>1, <1>4, <1>5, <1>7, <2>1 DEF InFlight
<1>12. Replica'
  BY <1>1, <1>2, <1>5 DEF Replica
<1> QED
  BY <1>8, <1>9, <1>10, <1>11, <1>12 DEF OnTheWay

LEMMA FileStage == Stages /\ DstFile => Stages'
<1> SUFFICES ASSUME Stages, DstFile PROVE Stages'
  OBVIOUS
<1> USE DEF Stages
<1>1. UNCHANGED <<src, dst, srcAt, toSrc, number, buffer, delta, was, garbled, dead, failed>>
  BY DEF DstFile, history
<1>2. /\ dstAt = "files" /\ dst = was.dst /\ rep = OldRep /\ sent = 0 /\ number.dst = 1
      /\ Readable /\ ~dead /\ ~failed /\ toDst # <<>>
  BY DEF DstFile, DstPlace
<1>3. PICK p \in 0..3 : InFlight(p) /\ Got = 2
  BY <1>2 DEF OnTheWay, Got
<1>4. 2 < p /\ toDst[1] = [offset |-> 0, data |-> src]
  <2>1. toDst = Lane(Answer, src, 2, p) /\ 2 <= p
    BY <1>3 DEF InFlight
  <2>2. 2 < p
    BY <1>2, <1>3, <2>1, LaneRead
  <2>3. toDst[1] = Message(Answer, src, 2 + 1)
    BY <1>3, <2>1, <2>2, LaneRead
  <2> QED
    BY <2>2, <2>3 DEF Message
<1>5. sent' = 1 /\ dstAt' = "ended" /\ rep' = Written(rep, 0, src)
  BY <1>2, <1>4 DEF DstFile
<1>6. srcAt # "open"
  BY <1>3, <1>4 DEF InFlight, Sending
<1>7. rep \in Seq(Nat) /\ src \in Seq(Nat)
  BY <1>2 DEF Shapes, OldRep, Readable
<1>8. rep' = src \o SubSeq(rep, Len(src) + 1, Len(rep)) /\ rep' \in Seq(Nat)
  BY <1>5, <1>7, WrittenAtStart
<1>9. Readable' /\ Number' = Number
  BY <1>1, <1>2 DEF Readable, Number
<1>10. Shapes'
  BY <1>1, <1>5, <1>8 DEF Shapes
<1>11. DstPlace' /\ SrcPlace'
  BY <1>1, <1>2, <1>5, <1>6, <1>9 DEF DstPlace, SrcPlace
<1>12. Replica'
  <2>1. src \notin {Missing, <<>>}
    BY <1>2 DEF Readable
  <2>2. SubSeq(rep, Len(src) + 1, Len(rep)) =
          IF was.rep = Missing THEN <<>> ELSE SubSeq(was.rep, Len(src) + 1, Len(was.rep))
    <3>1. CASE was.rep = Missing
      <4>1. rep = <<>> /\ SubSeq(<<>>, Len(src) + 1, 0) = <<>>
        BY <1>2, <1>7, <3>1 DEF OldRep
      <4> QED
        BY <3>1, <4>1
    <3>2. CASE was.rep # Missing
      BY <1>2, <3>2 DEF OldRep
    <3> QED
      BY <3>1, <3>2
  <2>3. rep' = src \o (IF was.rep = Missing THEN <<>>
                       ELSE SubSeq(was.rep, Len(src) + 1, Len(was.rep)))
    BY <1>8, <2>2
  <2> QED
    BY <1>1, <1>2, <2>1, <2>3 DEF Replica
<1> QED
  BY <1>5, <1>10, <1>11, <1>12 DEF OnTheWay

LEMMA DieStage == Stages /\ DstDies => Stages'
<1> SUFFICES ASSUME Stages, DstDies PROVE Stages'
  OBVIOUS
<1> USE DEF Stages
<1>1. /\ UNCHANGED <<src, dst, rep, srcAt, toSrc, toDst, sent, number, buffer, delta, was, garbled,
                     failed>>
      /\ dstAt' = "ended" /\ dead'
  BY DEF DstDies, files
<1>2. Shapes'
  BY <1>1 DEF Shapes
<1>3. DstPlace' /\ SrcPlace'
  BY <1>1 DEF DstPlace, SrcPlace, Readable, Number
<1>4. OnTheWay' /\ Replica'
  BY <1>1 DEF OnTheWay, Replica
<1> QED
  BY <1>2, <1>3, <1>4

LEMMA FailStage == Stages /\ DstFails => Stages'
<1> SUFFICES ASSUME Stages, DstFails PROVE Stages'
  OBVIOUS
<1> USE DEF Stages
<1>1. /\ UNCHANGED <<src, dst, rep, srcAt, toSrc, sent, number, buffer, delta, was, garbled>>
      /\ dstAt \in {"header", "reply", "delta"} /\ dstAt' = "ended" /\ dead' /\ failed'
  BY DEF DstFails, files
<1>2. Shapes'
  BY <1>1 DEF Shapes
<1>3. DstPlace' /\ SrcPlace'
  BY <1>1 DEF DstPlace, SrcPlace, Readable, Number
<1>4. OnTheWay'
  BY <1>1 DEF OnTheWay
<1>5. Replica'
  BY <1>1 DEF DstPlace, Replica
<1> QED
  BY <1>2, <1>3, <1>4, <1>5

(* The steps of src leave what dst has alone. *)
LEMMA SrcFrame ==
  ASSUME Stages, UNCHANGED <<files, dstAt, sent, was, dead, failed>>, number'.dst = number.dst,
         garbled' # garbled => srcAt = "open"
  PROVE  DstPlace' /\ Replica'
<1> USE DEF Stages
<1>1. UNCHANGED <<src, dst, rep, dstAt, sent, was, dead, failed>>
  BY DEF files
<1>2. CASE garbled' = garbled
  <2>1. DstPlace'
    BY <1>1, <1>2 DEF DstPlace, Number, OldRep, Readable
  <2>2. Replica'
    <3>1. Replica
      OBVIOUS
    <3>2. failed' <=> failed
      BY <1>1
    <3>3. dead' <=> dead
      BY <1>1
    <3>4. garbled' <=> garbled
      BY <1>2
    <3> HIDE DEF Stages
    <3> QED
      BY <1>1, <3>1, <3>2, <3>3, <3>4 DEF Replica
  <2> QED
    BY <2>1, <2>2
<1>3. CASE srcAt = "open"
  <2>1. dstAt \in {"header", "reply", "ended"}
    <3>1. dstAt # "ended" => Got = 0
      <4>1. ASSUME dstAt # "ended" PROVE Got = 0
        <5>1. PICK p \in 0..3 : InFlight(p)
          BY <4>1 DEF OnTheWay
        <5> QED
          BY <1>3, <5>1 DEF InFlight, Sending, Got
      <4> QED
        BY <4>1
    <3> QED
      BY <3>1 DEF Got, DstPlace
  <2>2. DstPlace'
    BY <1>1, <2>1 DEF DstPlace, Number, OldRep
  <2>3. dstAt = "ended" => dead
    BY <1>3 DEF SrcPlace
  <2>4. dst = was.dst \/ dead
    BY <2>3 DEF DstPlace
  <2>5. dst # was.dst => garbled' \/ src \in {Missing, <<>>}
    BY <1>3 DEF Replica, SrcPlace
  <2>6. Replica'
    BY <1>1, <2>3, <2>5 DEF Replica
  <2> QED
    BY <2>2, <2>6
<1> QED
  BY <1>2, <1>3

LEMMA OpenStage == Stages /\ SrcOpen => Stages'
<1> SUFFICES ASSUME Stages, SrcOpen PROVE Stages'
  OBVIOUS
<1> USE DEF Stages
<1>1. /\ UNCHANGED <<files, dstAt, sent, entries, chain, buffer, was, dead, failed>>
      /\ UNCHANGED <<src, dst, rep>>
  BY DEF SrcOpen, files
<1>2. srcAt = "open" /\ toSrc = <<Number>> /\ toSrc[1] = Number /\ toSrc' = <<>>
  <2>1. srcAt = "open" /\ toSrc = <<Number>> /\ toSrc' = Tail(toSrc)
    BY DEF SrcOpen, SrcPlace
  <2>2. \A x : Tail(<<x>>) = <<>>
    OBVIOUS
  <2> QED
    BY <2>1, <2>2
<1>3. Number \in Nat /\ Number' = Number
  BY <1>1, NoBlocks DEF Shapes, Number
<1>4. number' = [number EXCEPT !.src = Number] /\ srcAt' # "open"
  BY <1>2 DEF SrcOpen
<1>5. number' \in [src : Nat, dst : Nat] /\ number'.dst = number.dst
  BY <1>3, <1>4 DEF Shapes
<1>6. DstPlace' /\ Replica'
  BY <1>1, <1>2, <1>5, SrcFrame
<1>7. garbled' \in BOOLEAN
  BY DEF SrcOpen
<1>8. Shapes'
  BY <1>1, <1>5, <1>7 DEF Shapes
<1>9. dstAt # "header"
  BY <1>2 DEF SrcPlace
<1> DEFINE file == IF garbled' THEN Missing ELSE src
           goesOn == file \notin {Missing, Unreadable, <<>>}
<1>10. goesOn => Readable'
  BY <1>1 DEF Readable, Shapes
<1>11. \/ /\ toDst' = IF file = Unreadable THEN toDst ELSE Append(toDst, Reply(file))
          /\ delta' = IF goesOn /\ Number = 0 THEN DeltaList(0, Len(file)) ELSE delta
          /\ srcAt' = IF ~goesOn THEN "ended" ELSE IF Number = 0 THEN "head" ELSE "entries"
       \/ /\ goesOn /\ (Number > 0 \/ dead)
          /\ toDst' = IF Number > 0 THEN Append(toDst, "E_OK") ELSE toDst
          /\ srcAt' = "ended"
  BY <1>2 DEF SrcOpen
<1>12. SrcPlace'
  <2>1. srcAt' \in {"entries", "head", "ended"}
    BY <1>11
  <2>2. srcAt' = "entries" => Readable'
    BY <1>10, <1>11
  <2>3. ASSUME srcAt' = "head"
        PROVE  Readable' /\ Number = 0 /\ delta' = <<[offset |-> 0, len |-> DeltaLen(Len(src))]>>
    <3>1. goesOn /\ Number = 0 /\ delta' = DeltaList(0, Len(file))
      BY <1>11, <2>3
    <3>2. Readable' /\ file = src
      BY <1>10, <3>1
    <3>3. Len(src) \in Nat \ {0}
      BY <1>1, <3>2 DEF Readable
    <3> QED
      BY <3>1, <3>2, <3>3, OneDelta
  <2> QED
    BY <1>1, <1>3, <1>9, <2>1, <2>2, <2>3 DEF SrcPlace
<1>13. ASSUME dstAt # "ended" PROVE \E p \in 0..3 : InFlight(p)'
  <2>1. InFlight(0) /\ Got = 0 /\ toDst = Lane(Answer, src, 0, 0) /\ ~dead
    <3>1. PICK p \in 0..3 : InFlight(p)
      BY <1>13 DEF OnTheWay
    <3>2. p = 0
      BY <1>2, <3>1 DEF InFlight, Sending
    <3> QED
      BY <1>13, <3>1, <3>2 DEF InFlight, Got, DstPlace
  <2>2. toDst = <<>>
    BY <2>1 DEF Lane
  <2>3. Got' = 0
    BY <1>1, <2>1 DEF Got
  <2>4. Answer' = Reply(file) \/ (garbled' /\ Answer' = "E_SRC_FILE_NOT_EXIST")
    BY <1>1 DEF Answer
  <2>5. Answer' = Reply(file)
    BY <2>4 DEF Reply
  <2>6. Lane(Answer', src', 0, 0) = <<>> /\ Lane(Answer', src', 0, 1) = <<Answer'>>
    <3>1. Append(Lane(Answer', src', 0, 0), Message(Answer', src', 1)) = Lane(Answer', src', 0, 1)
      <4>1. 0 \in 0..3 /\ 0 \in 0..2 /\ 1 \in 1..3 /\ 1 = 0 + 1 /\ 0 <= 0
        OBVIOUS
      <4> QED
        BY <4>1, LaneWritten
    <3>2. Lane(Answer', src', 0, 0) = <<>>
      BY DEF Lane
    <3>3. Message(Answer', src', 1) = Answer'
      BY DEF Message
    <3>4. Append(<<>>, Answer') = <<Answer'>>
      OBVIOUS
    <3> QED
      BY <3>1, <3>2, <3>3, <3>4
  <2>7. CASE file = Unreadable /\ ~goesOn /\ toDst' = toDst /\ srcAt' = "ended"
    <3>1. InFlight(0)'
      BY <2>2, <2>3, <2>6, <2>7 DEF InFlight, Sending
    <3> QED
      BY <3>1
  <2>8. CASE file # Unreadable /\ toDst' = Append(toDst, Answer')
             /\ srcAt' \in {"entries", "head", "ended"}
    <3>1. garbled' \/ src' # Unreadable
      BY <1>1, <2>8
    <3>2. Sending(1)'
      BY <2>8, <3>1 DEF Sending
    <3>3. toDst' = Lane(Answer', src', 0, 1)
      BY <2>2, <2>6, <2>8
    <3>4. InFlight(1)'
      BY <2>3, <3>2, <3>3 DEF InFlight
    <3> QED
      BY <3>4
  <2>9. goesOn => Answer' = "E_OK" /\ file # Unreadable
    BY <2>5 DEF Reply
  <2> QED
    BY <1>11, <2>1, <2>5, <2>7, <2>8, <2>9
<1>14. OnTheWay'
  BY <1>1, <1>13 DEF OnTheWay
<1> QED
  BY <1>6, <1>8, <1>12, <1>14

(* The steps of src after the header that send nothing. *)
LEMMA SilentStage ==
  ASSUME Stages, UNCHANGED <<files, dstAt, toDst, sent, number, delta, history>>,
         srcAt # "open", srcAt' \notin {"open", "entries", "search", "head", "send", "undefined"}
           \/ srcAt' = srcAt \/ (srcAt = "entries" /\ srcAt' = "search")
           \/ (srcAt = "send" /\ srcAt' = "undefined"),
         srcAt' \in {"open", "entries", "search", "head", "send", "undefined", "ended"},
         buffer' \in [off : 0 .. OFF - 1, bytes : Int, pos : Int]
  PROVE  Stages'
<1> USE DEF Stages
<1>1. UNCHANGED <<src, dst, rep, dstAt, toDst, sent, number, delta, was, garbled, dead, failed>>
  BY DEF files, history
<1>2. DstPlace' /\ Replica'
  BY <1>1, SrcFrame
<1>3. Shapes'
  BY <1>1 DEF Shapes
<1>4. Readable' = Readable /\ Number' = Number /\ Answer' = Answer /\ Got' = Got
  BY <1>1 DEF Readable, Number, Answer, Got
<1>5. SrcPlace'
  BY <1>1, <1>4 DEF SrcPlace
<1>6. OnTheWay'
  <2>1. ASSUME NEW p \in 0..3, InFlight(p) PROVE InFlight(p)'
    <3>1. Sending(p)'
      BY <1>1, <1>4, <2>1 DEF InFlight, Sending
    <3> QED
      BY <1>1, <1>4, <2>1, <3>1 DEF InFlight
  <2> QED
    BY <1>1, <2>1 DEF OnTheWay
<1> QED
  BY <1>2, <1>3, <1>5, <1>6

LEMMA EntryStage == Stages /\ SrcEntry => Stages'
<1> SUFFICES ASSUME Stages, SrcEntry PROVE Stages'
  OBVIOUS
<1>1. /\ UNCHANGED <<files, dstAt, toDst, sent, number, buffer, delta, history>>
      /\ srcAt = "entries" /\ srcAt' \in {"entries", "search"}
  BY DEF SrcEntry
<1>2. buffer' \in [off : 0 .. OFF - 1, bytes : Int, pos : Int]
  BY <1>1 DEF Stages, Shapes
<1> QED
  BY <1>1, <1>2, SilentStage

LEMMA FillStage == Stages /\ SrcFill => Stages'
<1> SUFFICES ASSUME Stages, SrcFill PROVE Stages'
  OBVIOUS
<1>1. /\ UNCHANGED <<files, dstAt, toDst, sent, number, delta, history>>
      /\ srcAt = "search" /\ srcAt' \in {"search", "ended"}
  BY DEF SrcFill
<1>2. src \in Seq(Nat)
  BY <1>1 DEF Stages, SrcPlace, Readable
<1>3. PICK n \in Int : \/ buffer' = [off |-> FillAt, bytes |-> n, pos |-> buffer.pos + n]
                       \/ buffer' = [buffer EXCEPT !.pos = @ + n]
  <2> DEFINE n == IF FileEnd - buffer.pos < EVERY_READ_BYTES THEN FileEnd - buffer.pos
                  ELSE EVERY_READ_BYTES
  <2>1. n \in Int
    BY <1>2 DEF FileEnd, Stages, Shapes
  <2> QED
    BY <2>1 DEF SrcFill
<1>4. FillAt \in 0 .. OFF - 1
  BY DEF FillAt
<1>5. buffer \in [off : 0 .. OFF - 1, bytes : Int, pos : Int]
  BY DEF Stages, Shapes
<1>6. buffer' \in [off : 0 .. OFF - 1, bytes : Int, pos : Int]
  BY <1>3, <1>4, <1>5
<1> QED
  BY <1>1, <1>6, SilentStage

LEMMA HeadStage == Stages /\ SrcHead => Stages'
<1> SUFFICES ASSUME Stages, SrcHead PROVE Stages'
  OBVIOUS
<1> USE DEF Stages
<1>1. /\ UNCHANGED <<files, dstAt, toSrc, sent, number, buffer, delta, history>>
      /\ UNCHANGED <<src, dst, rep, was, garbled, dead, failed>>
      /\ srcAt = "head"
  BY DEF SrcHead, files, history
<1>2. DstPlace' /\ Replica'
  BY <1>1, SrcFrame
<1>3. Shapes'
  BY <1>1 DEF Shapes
<1>4. Readable' = Readable /\ Number' = Number /\ Answer' = Answer /\ Got' = Got
  BY <1>1 DEF Readable, Number, Answer, Got
<1>5. srcAt' \in {"send", "ended"}
  BY DEF SrcHead
<1>6. SrcPlace'
  BY <1>1, <1>4, <1>5 DEF SrcPlace
<1>7. Readable /\ Number = 0 /\ Len(delta) = 1
  BY <1>1 DEF SrcPlace
<1>8. ASSUME dstAt # "ended" PROVE InFlight(2)'
  <2>1. PICK p \in 0..3 : InFlight(p)
    BY <1>8 DEF OnTheWay
  <2>2. p = 1 /\ toDst = Lane(Answer, src, Got, 1) /\ Got \in 0..1
    BY <1>1, <2>1 DEF InFlight, Sending, Got
  <2>3. ~dead /\ toDst' = Append(toDst, 1) /\ srcAt' = "send"
    BY <1>7, <1>8 DEF SrcHead, DstPlace
  <2>4. Append(Lane(Answer, src, Got, 1), Message(Answer, src, 2)) = Lane(Answer, src, Got, 2)
    <3>1. Got \in 0..3 /\ 1 \in 0..2 /\ 2 \in 1..3 /\ Got <= 1 /\ 2 = 1 + 1
      BY <2>2
    <3> QED
      BY <3>1, LaneWritten
  <2>5. toDst' = Lane(Answer, src, Got, 2)
    BY <2>2, <2>3, <2>4 DEF Message
  <2>6. src # Unreadable
    BY <1>7 DEF Readable
  <2>7. Sending(2)'
    BY <1>1, <1>4, <1>7, <2>3, <2>6 DEF Sending
  <2> QED
    BY <1>1, <1>4, <2>2, <2>5, <2>7 DEF InFlight
<1>9. OnTheWay'
  BY <1>1, <1>8 DEF OnTheWay
<1> QED
  BY <1>2, <1>3, <1>6, <1>9

LEMMA SendStage == Stages /\ SrcSend => Stages'
<1> SUFFICES ASSUME Stages, SrcSend PROVE Stages'
  OBVIOUS
<1> USE DEF Stages
<1>1. /\ UNCHANGED <<files, dstAt, toSrc, sent, number, buffer, history>>
      /\ UNCHANGED <<src, dst, rep, was, garbled, dead, failed>>
      /\ srcAt = "send"
  BY DEF SrcSend, files, history
<1>2. /\ Readable /\ Number = 0 /\ delta = <<[offset |-> 0, len |-> DeltaLen(Len(src))]>>
      /\ Len(delta) = 1 /\ delta[1] = [offset |-> 0, len |-> DeltaLen(Len(src))]
  BY <1>1 DEF SrcPlace
<1>3. DstPlace' /\ Replica'
  BY <1>1, SrcFrame
<1>4. Readable' = Readable /\ Number' = Number /\ Answer' = Answer /\ Got' = Got
  BY <1>1 DEF Readable, Number, Answer, Got
<1>5. buffer' \in [off : 0 .. OFF - 1, bytes : Int, pos : Int]
  BY <1>1 DEF Shapes
<1>6. CASE /\ delta[1].offset + delta[1].len <= FileEnd
           /\ toDst' = Append(toDst, [offset |-> delta[1].offset,
                                      data |-> SubSeq(src, delta[1].offset + 1,
                                                      delta[1].offset + delta[1].len)])
           /\ srcAt' = "ended"
  <2>1. Shapes' /\ SrcPlace'
    BY <1>1, <1>4, <1>6 DEF Shapes, SrcPlace
  <2>2. toDst' = Append(toDst, [offset |-> 0, data |-> src])
    <3>1. Len(src) \in Nat /\ DeltaLen(Len(src)) >= Len(src) /\ DeltaLen(Len(src)) \in Nat
      BY <1>2 DEF Readable, DeltaLen
    <3>2. delta[1].offset = 0 /\ delta[1].len = DeltaLen(Len(src))
      BY <1>2
    <3>3. DeltaLen(Len(src)) = Len(src)
      BY <1>6, <3>1, <3>2 DEF FileEnd
    <3>4. SubSeq(src, 1, Len(src)) = src
      BY <1>2 DEF Readable
    <3>5. 0 + 1 = 1 /\ 0 + Len(src) = Len(src)
      BY <3>1
    <3> QED
      BY <1>6, <3>2, <3>3, <3>4, <3>5
  <2>3. ASSUME dstAt # "ended" PROVE InFlight(3)'
    <3>1. PICK p \in 0..3 : InFlight(p)
      BY <2>3 DEF OnTheWay
    <3>2. p = 2 /\ toDst = Lane(Answer, src, Got, 2) /\ Got \in 0..2
      BY <1>1, <3>1 DEF InFlight, Sending, Got
    <3>3. Append(Lane(Answer, src, Got, 2), Message(Answer, src, 3)) = Lane(Answer, src, Got, 3)
      <4>1. Got \in 0..3 /\ 2 \in 0..2 /\ 3 \in 1..3 /\ Got <= 2 /\ 3 = 2 + 1
        BY <3>2
      <4> QED
        BY <4>1, LaneWritten
    <3>4. toDst' = Lane(Answer, src, Got, 3)
      BY <2>2, <3>2, <3>3 DEF Message
    <3>5. src # Unreadable
      BY <1>2 DEF Readable
    <3>6. Sending(3)'
      BY <1>1, <1>2, <1>4, <1>6, <3>5 DEF Sending
    <3> QED
      BY <1>1, <1>4, <3>2, <3>4, <3>6 DEF InFlight
  <2>4. OnTheWay'
    BY <1>1, <2>3 DEF OnTheWay
  <2> QED
    BY <1>3, <2>1, <2>4
<1>7. CASE srcAt' \in {"undefined", "ended"} /\ UNCHANGED <<toDst, delta>>
  BY <1>1, <1>5, <1>7, SilentStage
<1> QED
  BY <1>2, <1>6, <1>7 DEF SrcSend

LEMMA StagesStep == Stages /\ [Next]_vars => Stages'
<1> SUFFICES ASSUME Stages, [Next]_vars PROVE Stages'
  OBVIOUS
<1>1. CASE DstStep
  BY <1>1, HeaderStage, ReplyStage, BlockStage, DeltaStage, FileStage DEF DstStep
<1>2. CASE SrcStep
  BY <1>2, OpenStage, EntryStage, FillStage, HeadStage, SendStage DEF SrcStep
<1>3. CASE DstDies \/ DstFails
  BY <1>3, DieStage, FailStage
<1>4. CASE UNCHANGED vars
  <2>1. UNCHANGED <<files, dstAt, toDst, sent, number, delta, history>> /\ srcAt' = srcAt
    BY <1>4 DEF vars, files, history
  <2>2. UNCHANGED <<src, dst, rep, dstAt, toSrc, toDst, sent, number, buffer, delta, was, garbled, dead, failed>>
    BY <1>4 DEF vars
  <2>3. DstPlace' /\ Replica'
    BY <2>1, <2>2, SrcFrame
  <2>4. Shapes'
    BY <2>2 DEF Stages, Shapes
  <2>5. Readable' = Readable /\ Number' = Number /\ Answer' = Answer /\ Got' = Got
    BY <2>2 DEF Readable, Number, Answer, Got
  <2>6. SrcPlace'
    BY <2>1, <2>2, <2>5 DEF Stages, SrcPlace
  <2>7. OnTheWay'
    BY <2>1, <2>2, <2>5 DEF Stages, OnTheWay, InFlight, Sending
  <2> QED
    BY <2>3, <2>4, <2>6, <2>7 DEF Stages
<1> QED
  BY <1>1, <1>2, <1>3, <1>4 DEF Next

LEMMA StagesAlways == Spec => []Stages
BY StagesInit, StagesStep, PTL DEF Spec

(* What dst ends with, for all files, block sizes and bounds: its file goes or is
   emptied as that of src is, or file.rep becomes the file of src, before what a
   longer file.rep had; a call that fails ends it with both files as they were, and
   nothing else happens to the file of dst, unless src read another name. *)
THEOREM ReplicaExact == Spec => []Replica
<1>1. Stages => Replica
  BY DEF Stages
<1> QED
  BY <1>1, StagesAlways, PTL
-----------------------------------------------------------------------------
(* The entries src receives are those of the blocks of dst. *)
LEMMA AnnouncedTypes ==
  ASSUME Shapes
  PROVE  \A e \in Announced : e.rolling_chksm \in Nat /\ Hash(e) \in 0 .. CHUNK_BLK_HASH - 1
<1> SUFFICES ASSUME NEW i \in 0..(Number - 1)
             PROVE  /\ Entry(was.dst, i).rolling_chksm \in Nat
                    /\ Hash(Entry(was.dst, i)) \in 0 .. CHUNK_BLK_HASH - 1
  BY DEF Announced
<1>1. Number \in Nat /\ was.dst \in Seq(Nat)
  BY NoBlocks DEF Shapes, Number
<1>2. PICK k \in Nat \ {0} : k = i * BLOCK_SZ + 1
  <2>1. i \in Nat
    BY <1>1
  <2>2. i * BLOCK_SZ \in Nat
    BY <2>1
  <2> QED
    BY <2>2
<1>3. Entry(was.dst, i).rolling_chksm = skl(cal_rollin_cksm(Window(was.dst, k)))
  BY <1>2 DEF Entry
<1>4. PICK c \in Nat : c = Entry(was.dst, i).rolling_chksm
  BY <1>1, <1>3, ChecksumType
<1> QED
  BY <1>4 DEF Hash

LEMMA ReceivedInit == Init => Received
BY DEF Init, Received

LEMMA ReceivedStep == Stages /\ Received /\ [Next]_vars => Received'
<1> SUFFICES ASSUME Stages, Received, [Next]_vars PROVE Received'
  OBVIOUS
<1>1. Shapes /\ DstPlace /\ SrcPlace /\ OnTheWay
  BY DEF Stages
<1>2. Number \in Nat
  BY <1>1, NoBlocks DEF Shapes, Number
<1>3. CASE DstHeader
  BY <1>3, <1>1 DEF DstHeader, Received, SrcPlace, files, history, Announced, Number
<1>4. CASE DstBlock
  <2>1. UNCHANGED <<srcAt, entries, number, was>>
    BY <1>4 DEF DstBlock
  <2>2. Announced' = Announced
    BY <2>1 DEF Announced, Number
  <2>3. CASE UNCHANGED toSrc
    BY <2>1, <2>2, <2>3 DEF Received
  <2>4. CASE toSrc' = Append(toSrc, Entry(dst, sent))
    <3>1. dst = was.dst /\ sent \in 0..(Number - 1)
      BY <1>4, <1>1, <1>2 DEF DstBlock, DstPlace, Shapes
    <3>2. Entry(dst, sent) \in Announced
      BY <3>1 DEF Announced
    <3>3. srcAt # "open"
      <4>1. dstAt = "blocks"
        BY <1>4 DEF DstBlock
      <4>2. PICK p \in 0..3 : InFlight(p)
        BY <1>1, <4>1 DEF OnTheWay
      <4>3. p >= 1
        BY <4>1, <4>2 DEF InFlight, Got
      <4> QED
        BY <4>2, <4>3 DEF InFlight, Sending
    <3>4. toSrc' \in Seq(Announced)
      BY <2>4, <3>2, <3>3 DEF Received
    <3> QED
      BY <2>1, <2>2, <3>3, <3>4 DEF Received
  <2> QED
    BY <1>4, <2>3, <2>4 DEF DstBlock
<1>5. CASE DstReply \/ DstFile \/ DstDies \/ DstFails
  BY <1>5 DEF DstReply, DstFile, DstDies, DstFails, Received, files, history, Announced, Number
<1>6. CASE DstDelta
  <2>1. UNCHANGED <<srcAt, entries, toSrc, was>> /\ number'.src = number.src
    BY <1>6, <1>1 DEF DstDelta, history, Shapes
  <2> QED
    BY <2>1 DEF Received, Announced, Number
<1>7. CASE SrcOpen
  <2>1. srcAt = "open" /\ toSrc = <<Number>> /\ UNCHANGED <<entries, was>> /\ toSrc' = Tail(toSrc)
    BY <1>7, <1>1 DEF SrcOpen, SrcPlace
  <2>2. \A x : Tail(<<x>>) = <<>>
    OBVIOUS
  <2>3. toSrc[1] = Number /\ toSrc' = <<>> /\ entries' = <<>>
    BY <2>1, <2>2 DEF Received
  <2>4. number'.src = Number
    BY <1>7, <1>1, <2>3 DEF SrcOpen, Shapes
  <2>5. srcAt' # "open" /\ (srcAt' = "entries" => Number # 0)
    BY <1>7, <2>3 DEF SrcOpen
  <2> QED
    BY <1>2, <2>1, <2>3, <2>4, <2>5 DEF Received
<1>8. CASE SrcEntry
  <2>1. /\ UNCHANGED <<number, was>> /\ srcAt = "entries" /\ toSrc # <<>> /\ toSrc' = Tail(toSrc)
        /\ entries' = Append(entries, toSrc[1])
        /\ srcAt' = IF Len(entries) + 1 = number.src THEN "search" ELSE "entries"
    BY <1>8 DEF SrcEntry, history
  <2>2. Announced' = Announced
    BY <2>1 DEF Announced, Number
  <2>3. /\ toSrc \in Seq(Announced) /\ entries \in Seq(Announced) /\ Len(entries) < number.src
        /\ number.src \in Nat
    BY <1>1, <2>1 DEF Received, Shapes
  <2>4. /\ toSrc' \in Seq(Announced) /\ entries' \in Seq(Announced)
        /\ Len(entries') = Len(entries) + 1
    BY <2>1, <2>3
  <2>5. Len(entries') <= number.src /\ (srcAt' = "entries" => Len(entries') < number.src)
    BY <2>1, <2>3, <2>4
  <2> QED
    BY <2>1, <2>2, <2>4, <2>5 DEF Received
<1>9. CASE SrcFill \/ SrcHead \/ SrcSend
  BY <1>9 DEF SrcFill, SrcHead, SrcSend, Received, files, history, Announced, Number
<1>10. CASE UNCHANGED vars
  BY <1>10 DEF vars, Received, Announced, Number
<1> QED
  BY <1>3, <1>4, <1>5, <1>6, <1>7, <1>8, <1>9, <1>10 DEF Next, DstStep, SrcStep
-----------------------------------------------------------------------------
(* The chains, whatever has been received. *)
Chains == TypedChain(chain, Len(entries)) /\ AllChained(entries, chain)

LEMMA EntriesChecked ==
  ASSUME Stages, Received
  PROVE  entries \in Seq(Announced) /\ Len(entries) \in Nat /\ Checked(entries)
<1>1. entries \in Seq(Announced) /\ Shapes
  BY DEF Received, Stages
<1>2. \A k \in 1..Len(entries) : entries[k] \in Announced
  BY <1>1
<1> QED
  BY <1>1, <1>2, AnnouncedTypes DEF Checked

LEMMA ChainsInit == Init => Chains
<1> SUFFICES ASSUME Init PROVE Chains
  OBVIOUS
<1>1. /\ entries = <<>> /\ Len(entries) = 0
      /\ chain = [head |-> [h \in 0 .. CHUNK_BLK_HASH - 1 |-> NIL], next |-> <<>>, pre |-> <<>>]
  BY DEF Init
<1>2. TypedChain(chain, 0)
  <2>1. [h \in 0 .. CHUNK_BLK_HASH - 1 |-> NIL] \in [0 .. CHUNK_BLK_HASH - 1 -> 0..0]
    BY DEF NIL
  <2>2. <<>> \in [1..0 -> 1..0]
    OBVIOUS
  <2>3. PICK hd : hd = [h \in 0 .. CHUNK_BLK_HASH - 1 |-> NIL]
    OBVIOUS
  <2>4. PICK nx : nx = <<>>
    OBVIOUS
  <2>5. hd \in [0 .. CHUNK_BLK_HASH - 1 -> 0..0] /\ nx \in [1..0 -> 1..0]
    BY <2>1, <2>2, <2>3, <2>4
  <2>6. TypedChain([head |-> hd, next |-> nx, pre |-> nx], 0)
    BY <2>5, IsTyped
  <2> QED
    BY <1>1, <2>3, <2>4, <2>6
<1>3. ASSUME NEW h \in 0 .. CHUNK_BLK_HASH - 1 PROVE Chained(h, entries, chain)
  <2>1. PICK q : q = <<>>
    OBVIOUS
  <2>2. q \in [1..0 -> 1..Len(entries)] /\ \A i, j \in 1..0 : q[i] = q[j] => i = j
    BY <1>1, <2>1
  <2>3. Members(q, 0, h, entries) /\ Sorted(q, 0, entries)
    BY <1>1 DEF Members, Sorted
  <2>4. chain.head[h] = NIL
    BY <1>1
  <2>5. Links(q, 0, chain.head[h], chain.next, chain.pre)
    BY <2>4 DEF Links
  <2> QED
    BY <2>2, <2>3, <2>5 DEF Chained, Order
<1> QED
  BY <1>1, <1>2, <1>3 DEF Chains, AllChained

LEMMA ChainsStep == Stages /\ Received /\ Chains /\ [Next]_vars => Chains'
<1> SUFFICES ASSUME Stages, Received, Chains, [Next]_vars PROVE Chains'
  OBVIOUS
<1>1. CASE SrcEntry
  <2>1. PICK n \in Nat : n = Len(entries)
    BY EntriesChecked
  <2>2. PICK e : e = toSrc[1]
    OBVIOUS
  <2>3. /\ srcAt = "entries" /\ toSrc # <<>> /\ entries' = Append(entries, e)
        /\ chain' = Linked(Hash(e), e, n + 1)
    BY <1>1, <2>1, <2>2 DEF SrcEntry
  <2>4. toSrc \in Seq(Announced) /\ Shapes
    BY <2>3 DEF Received, Stages
  <2>5. e \in Announced
    BY <2>2, <2>3, <2>4
  <2>6. e.rolling_chksm \in Nat /\ Hash(e) \in 0 .. CHUNK_BLK_HASH - 1
    BY <2>4, <2>5, AnnouncedTypes
  <2>7. Longer(entries', entries, e) /\ Len(entries') = n + 1
    <3>1. entries \in Seq(Announced)
      BY EntriesChecked
    <3>2. Longer(Append(entries, e), entries, e)
      BY <2>5, <3>1, AppendIsLonger
    <3> QED
      BY <2>1, <2>3, <3>2 DEF Longer
  <2>8. Holds(n)
    BY <2>1, EntriesChecked DEF Holds, Chains
  <2>9. PICK h \in 0 .. CHUNK_BLK_HASH - 1 : h = Hash(e)
    BY <2>6
  <2>10. PICK E2 : E2 = entries'
    OBVIOUS
  <2>11. TypedChain(Linked(h, e, n + 1), n + 1) /\ AllChained(E2, Linked(h, e, n + 1))
    BY <2>6, <2>7, <2>8, <2>9, <2>10, LinkedKeeps
  <2>12. PICK ch : ch = Linked(h, e, n + 1)
    OBVIOUS
  <2>13. chain' = ch /\ TypedChain(ch, n + 1) /\ AllChained(E2, ch)
    BY <2>3, <2>9, <2>11, <2>12
  <2>14. TypedChain(chain', Len(entries')) /\ AllChained(entries', chain')
    BY <2>7, <2>10, <2>13
  <2> QED
    BY <2>14 DEF Chains
<1>2. CASE UNCHANGED <<entries, chain>>
  BY <1>2 DEF Chains
<1>3. CASE UNCHANGED vars
  BY <1>2, <1>3 DEF vars
<1>4. CASE DstStep \/ DstDies \/ DstFails
  BY <1>2, <1>4 DEF DstStep, DstHeader, DstReply, DstBlock, DstDelta, DstFile, DstDies, DstFails
<1>5. CASE SrcOpen \/ SrcFill \/ SrcHead \/ SrcSend
  BY <1>2, <1>5 DEF SrcOpen, SrcFill, SrcHead, SrcSend
<1> QED
  BY <1>1, <1>3, <1>4, <1>5 DEF Next, SrcStep

LEMMA ChainsAlways == Spec => [](Stages /\ Received /\ Chains)
<1>1. Init => Stages /\ Received /\ Chains
  BY StagesInit, ReceivedInit, ChainsInit
<1>2. Stages /\ Received /\ Chains /\ [Next]_vars => (Stages /\ Received /\ Chains)'
  BY StagesStep, ReceivedStep, ChainsStep
<1> QED
  BY <1>1, <1>2, PTL DEF Spec

(* The state variables are of the types of the C structures they stand for; where
   the programs are, the links and the offset of the buffer stay in their ranges. *)
THEOREM RsyncTypeCorrect == Spec => []TypeOK
<1>1. ASSUME Stages, Received, Chains PROVE TypeOK
  <2>1. Shapes /\ DstPlace /\ SrcPlace /\ entries \in Seq(Announced) /\ Len(entries) <= number.src
    BY <1>1 DEF Stages, Received
  <2>2. /\ dst = Missing \/ dst \in Seq(Nat)
        /\ rep = Missing \/ rep \in Seq(Nat)
    <3>1. /\ dst \in {was.dst, Missing, <<>>} /\ was.dst \in Seq(Nat)
          /\ rep \in Seq(Nat) \union {Missing}
      BY <2>1 DEF Shapes
    <3>2. <<>> \in Seq(Nat)
      OBVIOUS
    <3> QED
      BY <3>1, <3>2
  <2>3. sent \in Nat /\ number.src \in Nat /\ number.dst \in Nat /\ buffer.off \in 0 .. OFF - 1
    BY <2>1 DEF Shapes
  <2>4. DOMAIN entries = 1..Len(entries)
    BY <2>1
  <2>5. /\ chain.head \in [0 .. CHUNK_BLK_HASH - 1 -> 0 .. Len(entries)]
        /\ chain.next \in [DOMAIN entries -> DOMAIN entries]
        /\ chain.pre \in [DOMAIN entries -> DOMAIN entries]
    BY <1>1, <2>4, ChainIs DEF Chains
  <2> QED
    BY <2>1, <2>2, <2>3, <2>5 DEF TypeOK, DstPlace, SrcPlace
<1> QED
  BY <1>1, ChainsAlways, PTL

(* Whatever entries have come, in whatever order: each chain holds those of its
   hash, the first of the same only, by their checksums, and can be followed in
   both directions. *)
THEOREM ChainsHold == Spec => []ChainsExact
<1>1. ASSUME Stages, Received, Chains PROVE ChainsExact
  <2>1. PICK n \in Nat : n = Len(entries)
    BY <1>1, EntriesChecked
  <2>2. DOMAIN entries = 1..n
    BY <1>1, <2>1, EntriesChecked
  <2> SUFFICES ASSUME NEW h \in 0 .. CHUNK_BLK_HASH - 1
               PROVE  /\ Visited(h) = {k \in DOMAIN entries : Hash(entries[k]) = h /\ First(k)}
                      /\ \A k \in Visited(h) :
                            LET after == chain.next[k] IN
                            /\ after = k \/ (chain.pre[after] = k
                                   /\ entries[k].rolling_chksm <= entries[after].rolling_chksm)
                            /\ chain.pre[k] = k <=> chain.head[h] = k
    BY DEF ChainsExact
  <2>3. PICK m \in Nat : \E q : /\ Order(q, m, h, entries)
                                /\ Links(q, m, chain.head[h], chain.next, chain.pre)
    BY <1>1 DEF Chains, AllChained, Chained
  <2>4. PICK q : Order(q, m, h, entries) /\ Links(q, m, chain.head[h], chain.next, chain.pre)
    BY <2>3
  <2>5. q \in [1..m -> 1..n] /\ \A i, j \in 1..m : q[i] = q[j] => i = j
    BY <2>1, <2>4 DEF Order
  <2>6. Visited(h) = {q[i] : i \in 1..m}
    <3>1. VisitedBy(h, q, m)
      BY <2>1, <2>4, VisitedIs
    <3> QED
      BY <3>1 DEF VisitedBy
  <2>7. \A k \in 1..n : (\E i \in 1..m : q[i] = k) <=> Hash(entries[k]) = h /\ First(k)
    BY <2>1, <2>4 DEF Order, Members, First, FirstIn
  <2>8. Visited(h) = {k \in DOMAIN entries : Hash(entries[k]) = h /\ First(k)}
    <3>1. ASSUME NEW k \in Visited(h) PROVE k \in 1..n /\ Hash(entries[k]) = h /\ First(k)
      <4>1. PICK i \in 1..m : q[i] = k
        BY <2>6
      <4> QED
        BY <2>5, <2>7, <4>1
    <3>2. ASSUME NEW k \in 1..n, Hash(entries[k]) = h, First(k) PROVE k \in Visited(h)
      BY <2>6, <2>7, <3>2
    <3> QED
      BY <2>2, <3>1, <3>2
  <2>9. ASSUME NEW k \in Visited(h)
        PROVE  /\ \/ chain.next[k] = k
                  \/ /\ chain.pre[chain.next[k]] = k
                     /\ entries[k].rolling_chksm <= entries[chain.next[k]].rolling_chksm
               /\ chain.pre[k] = k <=> chain.head[h] = k
    <3>1. PICK i \in 1..m : q[i] = k
      BY <2>6
    <3>2. ASSUME i # m
          PROVE  /\ chain.pre[chain.next[k]] = k
                 /\ entries[k].rolling_chksm <= entries[chain.next[k]].rolling_chksm
      <4>1. i + 1 \in 1..m /\ i + 1 # 1 /\ (i + 1) - 1 = i /\ i <= i + 1
        BY <3>2
      <4>2. chain.next[k] = q[i + 1] /\ chain.pre[q[i + 1]] = q[i]
        BY <2>4, <3>1, <3>2, <4>1 DEF Links
      <4>3. entries[q[i]].rolling_chksm <= entries[q[i + 1]].rolling_chksm
        BY <2>4, <4>1 DEF Order, Sorted
      <4> QED
        BY <3>1, <4>2, <4>3
    <3>3. i = m => chain.next[k] = k
      BY <2>4, <3>1 DEF Links
    <3>4. m # 0 /\ 1 \in 1..m
      BY <3>1
    <3>5. chain.head[h] = q[1] /\ chain.pre[k] = IF i = 1 THEN q[i] ELSE q[i - 1]
      BY <2>4, <3>1, <3>4 DEF Links
    <3>6. i # 1 => i - 1 \in 1..m /\ q[i - 1] # q[i] /\ q[1] # q[i]
      <4>1. i # 1 => i - 1 \in 1..m /\ i - 1 # i
        OBVIOUS
      <4> QED
        BY <2>5, <3>4, <4>1
    <3>7. chain.pre[k] = k <=> chain.head[h] = k
      BY <3>1, <3>5, <3>6
    <3> QED
      BY <3>2, <3>3, <3>7
  <2> QED
    BY <2>8, <2>9
<1> QED
  BY <1>1, ChainsAlways, PTL
=============================================================================
