---------------------------- MODULE RollingSync ----------------------------
(***************************************************************************)
(* The synchronisation of src/rsync.  dst has a file and wants it to become *)
(* the one of src: it sends a header, checksums of its blocks, and builds  *)
(* file.rep from what src answers.  src accepts one connection.  A         *)
(* connection is a queue of messages each way; Read() and Write() move a   *)
(* whole message, and Read() at the end of a stream never returns.         *)
(*                                                                         *)
(* A byte is a number, an MD5 sum is the block itself (no two blocks that  *)
(* differ have one), and offsets wrap at OFF.                              *)
(***************************************************************************)
EXTENDS Integers, FiniteSets, SequencesExt

CONSTANTS
    BLOCK_SZ,
    ROLLING_CHKSUM_M,
    CHUNK_BLK_HASH,    \* the chains
    EVERY_READ_BYTES,  \* what fill_buf() asks for
    Room,              \* the bytes of data that fit in buf behind an entry
    OFF,               \* 2^64, where offsets wrap
    SrcFiles,          \* the files src may have: a sequence of bytes, ...
    DstFiles,          \* ... dst, ...
    RepFiles,          \* ... and what file.rep may hold from before
    Missing,           \* no file
    Unreadable         \* a file that cannot be opened

ASSUME RollingSyncAssumption ==
    /\ {BLOCK_SZ, ROLLING_CHKSUM_M, CHUNK_BLK_HASH, EVERY_READ_BYTES, OFF} \subseteq Nat \ {0}
    /\ Room \in Nat
    /\ Missing # Unreadable

ASSUME FilesAssumption ==
    /\ SrcFiles \subseteq Seq(Nat) \union {Missing, Unreadable}
    /\ DstFiles \subseteq Seq(Nat) /\ RepFiles \subseteq Seq(Nat) \union {Missing}
    /\ {Missing, Unreadable} \cap Seq(Nat) = {}

VARIABLES
    src,     \* the file of src
    dst,     \* the file of dst
    rep,     \* file.rep of dst
    dstAt,   \* where dst is
    srcAt,   \* where src is
    toSrc,   \* what dst has sent and src has not read
    toDst,   \* what src has sent and dst has not read
    sent,    \* i of dst: the entries sent, then the delta blocks written
    number,  \* block_nr in the header src read, then in the one dst read
    entries, \* cblk_array up to the entry received
    chain,   \* the hash chains: head, next and pre
    buffer,  \* of src: buf_file_off, buf_bytes, and the position of the file
    delta,   \* the list of delta blocks still to be sent
    was,     \* history: dst and rep at the start
    garbled, \* history: src read another file name
    dead,    \* dst is gone too early: it was killed or a call of its failed
    failed   \* history: a call of dst failed

vars == <<src, dst, rep, dstAt, srcAt, toSrc, toDst, sent, number, entries, chain, buffer, delta,
          was, garbled, dead, failed>>
files == <<src, dst, rep>>
history == <<was, garbled, dead, failed>>

NIL == 0

TypeOK ==
    /\ dst = Missing \/ dst \in Seq(Nat)
    /\ rep = Missing \/ rep \in Seq(Nat)
    /\ dstAt \in {"header", "reply", "blocks", "delta", "files", "ended"}
    /\ srcAt \in {"open", "entries", "search", "head", "send", "undefined", "ended"}
    /\ sent \in Nat /\ number.src \in Nat /\ number.dst \in Nat
    /\ Len(entries) <= number.src
    /\ chain.head \in [0 .. CHUNK_BLK_HASH - 1 -> 0 .. Len(entries)]
    /\ chain.next \in [DOMAIN entries -> DOMAIN entries]
    /\ chain.pre \in [DOMAIN entries -> DOMAIN entries]
    /\ buffer.off \in 0 .. OFF - 1

Init ==
    /\ src \in SrcFiles /\ dst \in DstFiles /\ rep \in RepFiles
    /\ dstAt = "header" /\ srcAt = "open"
    /\ toSrc = <<>> /\ toDst = <<>>
    /\ sent = 0 /\ number = [src |-> 0, dst |-> 0]
    /\ entries = <<>>
    /\ chain = [head |-> [h \in 0 .. CHUNK_BLK_HASH - 1 |-> NIL], next |-> <<>>, pre |-> <<>>]
    /\ buffer = [off |-> 0, bytes |-> 0, pos |-> 0]
    /\ delta = <<>>
    /\ was = [dst |-> dst, rep |-> rep] /\ garbled = FALSE
    /\ dead = FALSE /\ failed = FALSE
-----------------------------------------------------------------------------
(* cal_rollin_cksm() of a block: akl, bkl and, from them, skl. *)
cal_rollin_cksm(b) ==
    [akl |-> MapThenSumSet(LAMBDA i : b[i], DOMAIN b) % ROLLING_CHKSUM_M,
     bkl |-> MapThenSumSet(LAMBDA i : (Len(b) - i + 1) * b[i], DOMAIN b) % ROLLING_CHKSUM_M]

skl(c) == c.akl + c.bkl * ROLLING_CHKSUM_M

(* A u32, which goes up to the square of ROLLING_CHKSUM_M. *)
U32(k) == k % (ROLLING_CHKSUM_M * ROLLING_CHKSUM_M)

PlusOneOldSum(c, o, n, len) ==
    [akl |-> U32(c.akl - o + n) % ROLLING_CHKSUM_M,
     bkl |-> U32(c.bkl - len * o + c.akl) % ROLLING_CHKSUM_M]

(* cal_rollin_cksm_plus_1(): the block has lost its first byte o and got n at its
   end. *)
cal_rollin_cksm_plus_1(c, o, n, len) ==
    LET new_akl == U32(c.akl - o + n) % ROLLING_CHKSUM_M IN
    [akl |-> new_akl, bkl |-> U32(c.bkl - len * o + new_akl) % ROLLING_CHKSUM_M]

(* The block from the k-th byte of a file on, with zeros behind the end. *)
Window(file, k) == [i \in 1 .. BLOCK_SZ |-> IF k + i - 1 <= Len(file) THEN file[k + i - 1] ELSE 0]
-----------------------------------------------------------------------------
BlockNr(file) == (Len(file) + BLOCK_SZ - 1) \div BLOCK_SZ

(* The entry of block i, from 0: the checksum is that of the padded block. *)
Entry(file, i) ==
    LET first == i * BLOCK_SZ + 1
        len == IF Len(file) - i * BLOCK_SZ >= BLOCK_SZ THEN BLOCK_SZ ELSE Len(file) - i * BLOCK_SZ
    IN [block_no |-> i, block_len |-> len, rolling_chksm |-> skl(cal_rollin_cksm(Window(file, first))),
        md5 |-> SubSeq(file, first, first + len - 1)]

(* dst opens its file and sends chunk_file_header.  The file name in it is
   copied without its end into memory that was not cleared: src may read a
   longer name. *)
DstHeader ==
    /\ dstAt = "header"
    /\ toSrc' = Append(toSrc, BlockNr(dst)) /\ dstAt' = "reply"
    /\ UNCHANGED <<files, srcAt, toDst, sent, number, entries, chain, buffer, delta, history>>

(* dst reads the reply, and deletes its file, or empties it, or goes on. *)
AfterReplySwapped(err) ==
    CASE err = "E_SRC_FILE_NOT_EXIST" -> <<>>
      [] err = "E_SRC_FILE_NO_BLK" -> Missing
      [] OTHER -> dst

AfterReply(err) ==
    CASE err = "E_SRC_FILE_NOT_EXIST" -> Missing
      [] err = "E_SRC_FILE_NO_BLK" -> <<>>
      [] OTHER -> dst

DstReply ==
    /\ dstAt = "reply" /\ toDst # <<>>
    /\ toDst' = Tail(toDst)
    /\ dst' = AfterReply(toDst[1])
    /\ dstAt' = IF toDst[1] # "E_OK" THEN "ended" ELSE IF dst = <<>> THEN "delta" ELSE "blocks"
    /\ UNCHANGED <<src, rep, srcAt, toSrc, sent, number, entries, chain, buffer, delta, history>>

(* dst sends chunk_block_entry i.  When src has closed the connection, this may
   kill it. *)
DstBlock ==
    /\ dstAt = "blocks"
    /\ \/ /\ toSrc' = Append(toSrc, Entry(dst, sent))
          /\ sent' = IF sent + 1 = BlockNr(dst) THEN 0 ELSE sent + 1
          /\ dstAt' = IF sent + 1 = BlockNr(dst) THEN "delta" ELSE "blocks"
          /\ UNCHANGED dead
       \/ /\ srcAt = "ended"
          /\ dstAt' = "ended" /\ dead' = TRUE
          /\ UNCHANGED <<toSrc, sent>>
    /\ UNCHANGED <<files, srcAt, toDst, number, entries, chain, buffer, delta, was, garbled,
                   failed>>

(* dst reads delta_file_header and opens file.rep, which it does not empty. *)
DstDelta ==
    /\ dstAt = "delta" /\ toDst # <<>>
    /\ toDst' = Tail(toDst)
    /\ number' = [number EXCEPT !.dst = toDst[1]]
    /\ rep' = IF rep = Missing THEN <<>> ELSE rep
    /\ dstAt' = IF toDst[1] = 0 THEN "ended" ELSE "files"
    /\ UNCHANGED <<src, dst, srcAt, toSrc, sent, entries, chain, buffer, delta, history>>

(* What is in a file up to the end of data written at an offset, and in all of it;
   a gap reads as 0. *)
WrittenUpTo(file, off, data) ==
    [i \in 1 .. off + Len(data) |->
        IF i > off THEN data[i - off] ELSE IF i <= Len(file) THEN file[i] ELSE 0]

Written(file, off, data) ==
    WrittenUpTo(file, off, data) \o SubSeq(file, off + Len(data) + 1, Len(file))

(* dst writes a delta block that is not a duplicate to file.rep. *)
DstFile ==
    /\ dstAt = "files" /\ toDst # <<>>
    /\ toDst' = Tail(toDst)
    /\ rep' = Written(rep, toDst[1].offset, toDst[1].data)
    /\ sent' = sent + 1
    /\ dstAt' = IF sent + 1 = number.dst THEN "ended" ELSE "files"
    /\ UNCHANGED <<src, dst, srcAt, toSrc, number, entries, chain, buffer, delta, history>>

(* dst is killed. *)
DstDies ==
    /\ dstAt # "ended"
    /\ dstAt' = "ended" /\ dead' = TRUE
    /\ UNCHANGED <<files, srcAt, toSrc, toDst, sent, number, entries, chain, buffer, delta, was,
                   garbled, failed>>

(* A call of dst fails, and it ends: the connection is refused, its file can be
   neither deleted nor emptied, or file.rep cannot be opened. *)
DstFails ==
    /\ \/ dstAt = "header" /\ UNCHANGED toDst
       \/ dstAt = "reply" /\ toDst # <<>> /\ toDst[1] # "E_OK" /\ toDst' = Tail(toDst)
       \/ dstAt = "delta" /\ toDst # <<>> /\ toDst' = Tail(toDst)
    /\ dstAt' = "ended" /\ dead' = TRUE /\ failed' = TRUE
    /\ UNCHANGED <<files, srcAt, toSrc, sent, number, entries, chain, buffer, delta, was, garbled>>
-----------------------------------------------------------------------------
DeltaLenOfBlock(left) == BLOCK_SZ

(* update_delta_block_list() without a duplicate: a block of what is left, when
   that is a block or more, and a whole block when it is less. *)
DeltaLen(left) == IF left >= BLOCK_SZ THEN left ELSE BLOCK_SZ

DeltaList(off, end) ==
    LET list[o \in 0 .. end + BLOCK_SZ] ==
            IF o >= end THEN <<>>
            ELSE <<[offset |-> o, len |-> DeltaLen(end - o)]>> \o list[o + DeltaLen(end - o)]
    IN list[off]

(* src reads the header, opens the file and replies; with no reply it closes the
   connection when the file is there and cannot be opened.  The malloc() of the
   array of entries may fail, and a write to a dst that is gone ends src. *)
Reply(file) ==
    IF file = Missing THEN "E_SRC_FILE_NOT_EXIST"
    ELSE IF file = <<>> THEN "E_SRC_FILE_NO_BLK" ELSE "E_OK"

SrcOpen ==
    /\ srcAt = "open" /\ toSrc # <<>>
    /\ toSrc' = Tail(toSrc)
    /\ number' = [number EXCEPT !.src = toSrc[1]]
    /\ \E longer \in BOOLEAN :
          LET file == IF longer THEN Missing ELSE src
              goesOn == file \notin {Missing, Unreadable, <<>>}
          IN
          /\ garbled' = longer
          /\ \/ /\ toDst' = IF file = Unreadable THEN toDst ELSE Append(toDst, Reply(file))
                /\ delta' = IF goesOn /\ toSrc[1] = 0 THEN DeltaList(0, Len(file)) ELSE delta
                /\ srcAt' = IF ~goesOn THEN "ended" ELSE IF toSrc[1] = 0 THEN "head" ELSE "entries"
             \/ /\ goesOn /\ (toSrc[1] > 0 \/ dead)
                /\ toDst' = IF toSrc[1] > 0 THEN Append(toDst, "E_OK") ELSE toDst
                /\ srcAt' = "ended"
                /\ UNCHANGED delta
    /\ UNCHANGED <<files, dstAt, sent, entries, chain, buffer, was, dead, failed>>
-----------------------------------------------------------------------------
Hash(e) == e.rolling_chksm % CHUNK_BLK_HASH

Same(d, e) ==
    d.block_len = e.block_len /\ d.rolling_chksm = e.rolling_chksm /\ d.md5 = e.md5

(* The walk along a chain in front of a new entry e: it stops at an entry that is
   the same, at one with a greater checksum, and at the last one. *)
Walk(h, e) ==
    LET stops(k) == Same(entries[k], e) \/ entries[k].rolling_chksm > e.rolling_chksm
                        \/ chain.next[k] = k
        at[n \in 0 .. Len(entries)] ==
            IF n = 0 THEN chain.head[h]
            ELSE IF stops(at[n - 1]) THEN at[n - 1] ELSE chain.next[at[n - 1]]
    IN at[Len(entries)]

AloneUnset(k) == [chain EXCEPT !.next = Append(@, NIL), !.pre = Append(@, NIL)]

(* The chains with the new entry k alone, before c or behind it. *)
Alone(k) == [chain EXCEPT !.next = Append(@, k), !.pre = Append(@, k)]

LinkHead(h, k) == [Alone(k) EXCEPT !.head[h] = k]

LinkBefore(h, c, k) ==
    LET t == [Alone(k) EXCEPT !.pre[c] = k, !.next[k] = c] IN
    IF chain.pre[c] = c THEN [t EXCEPT !.head[h] = k]
    ELSE [t EXCEPT !.next[chain.pre[c]] = k, !.pre[k] = chain.pre[c]]

LinkBehind(c, k) == [Alone(k) EXCEPT !.next[c] = k, !.pre[k] = c]

LinkedForward(h, e, k) ==
    LET c == Walk(h, e) IN
    IF chain.head[h] = NIL THEN LinkHead(h, k)
    ELSE IF Same(entries[c], e) THEN Alone(k)
    ELSE LinkBehind(c, k)

Linked(h, e, k) ==
    LET c == Walk(h, e) IN
    IF chain.head[h] = NIL THEN LinkHead(h, k)
    ELSE IF Same(entries[c], e) THEN Alone(k)
    ELSE IF entries[c].rolling_chksm > e.rolling_chksm THEN LinkBefore(h, c, k)
    ELSE LinkBehind(c, k)

(* src receives an entry. *)
SrcEntry ==
    /\ srcAt = "entries" /\ toSrc # <<>>
    /\ toSrc' = Tail(toSrc)
    /\ entries' = Append(entries, toSrc[1])
    /\ chain' = Linked(Hash(toSrc[1]), toSrc[1], Len(entries) + 1)
    /\ srcAt' = IF Len(entries) + 1 = number.src THEN "search" ELSE "entries"
    /\ UNCHANGED <<files, dstAt, toDst, sent, number, buffer, delta, history>>
-----------------------------------------------------------------------------
(* read_from_buf(0, block_sz) of the search for duplicates: the bytes asked for are
   in the buffer, or end where the file does.  They never are: what follows in the
   search is not reached, and src would be stuck here in the model. *)
FileEnd == Len(src)
BufferEnd == (buffer.off + buffer.bytes) % OFF

Served ==
    \/ BLOCK_SZ <= BufferEnd /\ 0 >= buffer.off
    \/ 0 >= buffer.off /\ 0 < BufferEnd /\ BLOCK_SZ >= BufferEnd /\ BufferEnd = FileEnd

(* fill_buf(offset - 1): the lseek() to OFF - 1 fails and the file is read where it
   stands.  A short read is taken only when it ends where the file does. *)
FillAt == (0 - 1) % OFF

SrcFill ==
    LET n == IF FileEnd - buffer.pos < EVERY_READ_BYTES THEN FileEnd - buffer.pos
             ELSE EVERY_READ_BYTES
        taken == n = EVERY_READ_BYTES \/ (n + FillAt) % OFF = FileEnd
    IN
    /\ srcAt = "search" /\ ~Served
    /\ buffer' = IF taken THEN [off |-> FillAt, bytes |-> n, pos |-> buffer.pos + n]
                 ELSE [buffer EXCEPT !.pos = @ + n]
    /\ srcAt' = IF taken THEN "search" ELSE "ended"
    /\ UNCHANGED <<files, dstAt, toSrc, toDst, sent, number, entries, chain, delta, history>>
-----------------------------------------------------------------------------
(* src sends delta_file_header ... *)
SrcHead ==
    /\ srcAt = "head"
    /\ \/ toDst' = Append(toDst, Len(delta)) /\ srcAt' = "send"
       \/ dead /\ srcAt' = "ended" /\ UNCHANGED toDst
    /\ UNCHANGED <<files, dstAt, toSrc, sent, number, entries, chain, buffer, delta, history>>

(* ... and the delta block: a Read() of more than the file has never returns, and
   one of more than the buffer has is undefined. *)
SrcSend ==
    /\ srcAt = "send"
    /\ \/ /\ delta[1].offset + delta[1].len <= FileEnd /\ delta[1].len <= Room
          /\ toDst' = Append(toDst, [offset |-> delta[1].offset,
                                     data |-> SubSeq(src, delta[1].offset + 1,
                                                     delta[1].offset + delta[1].len)])
          /\ delta' = Tail(delta)
          /\ srcAt' = IF Len(delta) = 1 THEN "ended" ELSE "send"
       \/ /\ delta[1].offset + delta[1].len <= FileEnd /\ delta[1].len > Room
          /\ srcAt' = "undefined" /\ UNCHANGED <<toDst, delta>>
       \/ dead /\ srcAt' = "ended" /\ UNCHANGED <<toDst, delta>>
    /\ UNCHANGED <<files, dstAt, toSrc, sent, number, entries, chain, buffer, history>>

DstStep == DstHeader \/ DstReply \/ DstBlock \/ DstDelta \/ DstFile
SrcStep == SrcOpen \/ SrcEntry \/ SrcFill \/ SrcHead \/ SrcSend

Next == DstStep \/ SrcStep \/ DstDies \/ DstFails

Spec == Init /\ [][Next]_vars

(* Both programs run on. *)
FairSpec == Spec /\ WF_vars(DstStep) /\ WF_vars(SrcStep)
-----------------------------------------------------------------------------
(* src.c:297-364, the insertion by hand into doubly linked chains: following next
   from a head meets, in the order of their checksums, every entry received whose
   checksum has that hash, the first one only of those that are the same; pre is
   the way back, and the ends point to themselves. *)
Visited(h) ==
    LET at[n \in 1 .. Len(entries)] == IF n = 1 THEN chain.head[h] ELSE chain.next[at[n - 1]]
    IN IF chain.head[h] = NIL THEN {} ELSE {at[n] : n \in 1 .. Len(entries)}

First(k) == \A j \in 1 .. k - 1 : ~Same(entries[j], entries[k])

ChainsExact ==
    \A h \in 0 .. CHUNK_BLK_HASH - 1 :
        /\ Visited(h) = {k \in DOMAIN entries : Hash(entries[k]) = h /\ First(k)}
        /\ \A k \in Visited(h) :
              LET after == chain.next[k] IN
              /\ after = k \/ (chain.pre[after] = k
                               /\ entries[k].rolling_chksm <= entries[after].rolling_chksm)
              /\ chain.pre[k] = k <=> chain.head[h] = k

(* rsync_utility.c:14-50: from the checksum of a block that of the next one, a byte
   further, is derived in 32 bits that wrap, and it is the one computed afresh, at
   every place of a file and behind its end. *)
RollingExact ==
    \A k \in DOMAIN was.dst :
        cal_rollin_cksm_plus_1(cal_rollin_cksm(Window(was.dst, k)), was.dst[k],
                               Window(was.dst, k + 1)[BLOCK_SZ], BLOCK_SZ)
            = cal_rollin_cksm(Window(was.dst, k + 1))

(* dst.c:75-98 and 131-177 with src.c:252-290 and 451-457: when dst has ended by itself
   and no call of its failed, its file is gone or empty as that of src is, or
   file.rep is the file of src, followed by what a longer file.rep had before.  A
   call that failed has left both files as they were, and in no case is the file
   of dst another one unless src said so. *)
Replica ==
    /\ dst # was.dst => garbled \/ src \in {Missing, <<>>}
    /\ failed => dst = was.dst /\ rep = was.rep
    /\ dstAt = "ended" /\ ~dead /\ ~garbled =>
          IF src \in {Missing, <<>>} THEN dst = src
          ELSE /\ dst = was.dst
               /\ rep = src \o (IF was.rep = Missing THEN <<>>
                                ELSE SubSeq(was.rep, Len(src) + 1, Len(was.rep)))

(* Both programs end, unless one of the reasons known holds: dst is gone; src has
   a file of less than a block, or of more than the buffer has room for, and that
   of dst is empty; or, for dst, src closes the connection without a word.  That it
   does between any two files that are not empty: fill_buf() reads from offset
   2^64 - 1, where no block is looked for, until a short read ends the session. *)
Unsendable == was.dst = <<>> /\ src \in Seq(Nat) /\ (Len(src) \in 1 .. BLOCK_SZ - 1 \/ Len(src) > Room)
ClosedEarly == src = Unreadable \/ (src \notin {Missing, <<>>} /\ was.dst # <<>>)

Ends ==
    /\ <>(srcAt = "ended" \/ dead \/ Unsendable)
    /\ <>(dstAt = "ended" \/ Unsendable \/ ClosedEarly)
=============================================================================
