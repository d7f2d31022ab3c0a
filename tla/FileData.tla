------------------------------ MODULE FileData ------------------------------
(***************************************************************************)
(* The data of files: fileread(), filewrite() and filestat(), readi(),     *)
(* writei(), bmap(), itrunc() and the block allocator of fs.c, run by      *)
(* processes that share open files, files and the disk.                    *)
(*                                                                         *)
(* The inode's lock is held over the steps of a chunk of a write and of a  *)
(* truncation; each step is one turn of writei()'s loop or one bfree(), so *)
(* that calls on different files compete for blocks in between.            *)
(***************************************************************************)
EXTENDS Integers, Sequences, FiniteSets

CONSTANTS
    Procs,
    Inodes,
    Files,        \* [open files -> Inodes]
    Calls,        \* [Procs -> set of [op, f, n, ok]]: the first ok of n bytes are mapped
    BSIZE,        \* bytes in a block
    NDIRECT,
    NINDIRECT,
    NBLOCKS,      \* data blocks on the disk
    BPB,          \* bitmap bits in a block
    MAXOPBLOCKS,
    Src(_)        \* Src(p): the bytes that p writes

VARIABLES
    inode,   \* [Inodes -> [addrs, size, lock]]
    block,   \* [Blocks -> sequence of bytes or block numbers]
    used,    \* the blocks whose bit is set in the bitmap
    off,     \* [DOMAIN Files -> Nat]: the offsets of struct file
    got,     \* [Procs -> bytes]: what the last read() or fstat() returned
    proc     \* [Procs -> record]: see Init

vars == <<inode, block, used, off, got, proc>>

Blocks == 1 .. NBLOCKS
MAXFILE == NDIRECT + NINDIRECT
Zeros(n) == [k \in 1 .. n |-> 0]
Min(a, b) == IF a < b THEN a ELSE b
Idle == [pc |-> "user", call |-> [op |-> "none"], i |-> 0, tot |-> 0, n1 |-> 0, todo |-> <<>>,
         snap |-> <<>>, logged |-> {}]

Init ==
    /\ inode = [i \in Inodes |-> [addrs |-> Zeros(NDIRECT + 1), size |-> 0, lock |-> "free"]]
    /\ block = [b \in Blocks |-> Zeros(BSIZE)]
    /\ used = {}
    /\ off = [f \in DOMAIN Files |-> 0]
    /\ got = [p \in Procs |-> <<>>]
    \* pc; the call; filewrite's i; writei's tot and n; itrunc's blocks to free;
    \* history: the file when it was locked, the blocks given to log_write
    /\ proc = [p \in Procs |-> Idle]

-----------------------------------------------------------------------------
(* Blocks.  d is [block, used, logged]; a log entry is a block number, the  *)
(* negated number of a bitmap block, or 0 for the block of the inode.       *)

BBLOCK(b) == 0 - (((b - 1) \div BPB) + 1)

\* r is the zeroed block, 0 if there is none.
balloc(d) ==
    LET free == Blocks \ d.used
        b == CHOOSE x \in free : \A y \in free : x <= y
    IN  IF free = {} THEN [d |-> d, r |-> 0]
        ELSE [d |-> [block |-> [d.block EXCEPT ![b] = Zeros(BSIZE)], used |-> d.used \cup {b},
                     logged |-> d.logged \cup {BBLOCK(b), b}],
              r |-> b]

\* bmap(ip, bn) returns [d, addrs, r]; r is the block, 0 if the disk is full.
bmap(d, addrs, bn) ==
    LET j == bn - NDIRECT + 1
        Direct(k) == [d |-> k.d, r |-> k.r, addrs |-> [addrs EXCEPT ![bn + 1] = k.r]]
        Entry(k, as, ind) ==
            [d |-> IF k.r = 0 THEN k.d
                   ELSE [k.d EXCEPT !.block[ind][j] = k.r, !.logged = @ \cup {ind}],
             r |-> k.r, addrs |-> as]
        Indirect(e, as, ind) ==
            IF e.block[ind][j] # 0 THEN [d |-> e, r |-> e.block[ind][j], addrs |-> as]
            ELSE Entry(balloc(e), as, ind)
        Loaded(k) == IF k.r = 0 THEN [d |-> k.d, r |-> 0, addrs |-> addrs]
                     ELSE Indirect(k.d, [addrs EXCEPT ![NDIRECT + 1] = k.r], k.r)
    IN  IF bn < NDIRECT
        THEN IF addrs[bn + 1] # 0 THEN [d |-> d, r |-> addrs[bn + 1], addrs |-> addrs]
             ELSE Direct(balloc(d))
        ELSE IF addrs[NDIRECT + 1] # 0 THEN Indirect(d, addrs, addrs[NDIRECT + 1])
             ELSE Loaded(balloc(d))

\* The bytes of block data with src put in at offset o.
Copied(data, o, src) ==
    [k \in 1 .. BSIZE |-> IF k > o /\ k <= o + Len(src) THEN src[k - o] ELSE data[k]]

Disk(logged) == [block |-> block, used |-> used, logged |-> logged]
SetDisk(d) == block' = d.block /\ used' = d.used

\* The blocks of an inode in the order in which itrunc frees them.
Entries(a) == SelectSeq(IF a[NDIRECT + 1] = 0 THEN <<>> ELSE block[a[NDIRECT + 1]],
                        LAMBDA b : b # 0)
Allocated(a) == SelectSeq(SubSeq(a, 1, NDIRECT) \o Entries(a) \o <<a[NDIRECT + 1]>>,
                          LAMBDA b : b # 0)

\* The bytes of inode i, as readi finds them.
Content(i) ==
    [k \in 1 .. inode[i].size |->
        block[bmap(Disk({}), inode[i].addrs, (k - 1) \div BSIZE).r][((k - 1) % BSIZE) + 1]]

-----------------------------------------------------------------------------
(* System calls *)

Ip(p) == Files[proc[p].call.f]
At(p, pc) == proc[p].pc = pc
Unlocked(i) == inode[i].lock = "free"

syscall(p) ==
    /\ At(p, "user")
    /\ \E c \in Calls[p] : proc' = [proc EXCEPT ![p] = [Idle EXCEPT !.pc = c.op, !.call = c]]
    /\ UNCHANGED <<inode, block, used, off, got>>

\* fileread and readi, all with the inode locked.
fileread(p) ==
    LET c == proc[p].call
        size == inode[Ip(p)].size
        o == off[c.f]
        n == IF o > size THEN 0 ELSE Min(c.n, size - o)
    IN  /\ At(p, "read") /\ Unlocked(Ip(p))
        /\ \/ /\ n > c.ok      \* either_copyout fails
              /\ UNCHANGED <<off, got>>
           \/ /\ n <= c.ok
              /\ got' = [got EXCEPT ![p] = SubSeq(Content(Ip(p)), o + 1, o + n)]
              /\ off' = [off EXCEPT ![c.f] = @ + n]
        /\ proc' = [proc EXCEPT ![p] = Idle]
        /\ UNCHANGED <<inode, block, used>>

stati(i) == <<inode[i].size>>   \* of struct stat, the size

filestat(p) ==
    LET c == proc[p].call
    IN  /\ At(p, "fstat") /\ Unlocked(Ip(p))
        /\ got' = IF c.ok < c.n THEN got ELSE [got EXCEPT ![p] = stati(Ip(p))]
        /\ proc' = [proc EXCEPT ![p] = Idle]
        /\ UNCHANGED <<inode, block, used, off>>

\* Mutant: no slop for writes that are not aligned.
MaxWrite_noslop == ((MAXOPBLOCKS - 1 - 1) \div 2) * BSIZE

MaxWrite == ((MAXOPBLOCKS - 1 - 1 - 2) \div 2) * BSIZE

\* filewrite's loop: begin_op, ilock and the tests at the head of writei.
filewrite(p) ==
    LET r == proc[p]
        o == off[r.call.f]
        n1 == Min(r.call.n - r.i, MaxWrite)
    IN  /\ At(p, "write") /\ Unlocked(Ip(p))
        /\ \/ /\ o > inode[Ip(p)].size \/ o + n1 > MAXFILE * BSIZE
              /\ proc' = [proc EXCEPT ![p] = Idle]
              /\ UNCHANGED inode
           \/ /\ o <= inode[Ip(p)].size /\ o + n1 <= MAXFILE * BSIZE
              /\ inode' = [inode EXCEPT ![Ip(p)].lock = p]
              /\ proc' = [proc EXCEPT ![p].pc = "writei", ![p].n1 = n1, ![p].tot = 0,
                                      ![p].snap = Content(Ip(p)), ![p].logged = {}]
        /\ UNCHANGED <<block, used, off, got>>

\* Mutant: the inode is written back only if there was room.
NewAddrs_success(b, old) == IF b.r = 0 THEN old ELSE b.addrs

\* bmap may have added a block to addrs even if it failed.
NewAddrs(b, old) == b.addrs

\* One turn of writei's loop.  copyin fails once it is past the mapped bytes,
\* and what it copied before stays in the buffer.
writei(p) ==
    LET r == proc[p]
        o == off[r.call.f] + r.tot
        m == Min(r.n1 - r.tot, BSIZE - (o % BSIZE))
        from == r.i + r.tot
        Bytes(n) == SubSeq(Src(p), from + 1, from + n)
    IN  /\ At(p, "writei")
        /\ \E b \in {bmap(Disk(r.logged), inode[Ip(p)].addrs, o \div BSIZE)} :
              /\ inode' = [inode EXCEPT ![Ip(p)].addrs = NewAddrs(b, @)]
              /\ \/ /\ b.r = 0
                    /\ SetDisk(b.d)
                    /\ proc' = [proc EXCEPT ![p].pc = "writei_end", ![p].logged = b.d.logged]
                 \/ /\ b.r # 0 /\ from + m > r.call.ok
                    /\ SetDisk([b.d EXCEPT !.block[b.r] = Copied(@, o % BSIZE,
                                                                 Bytes(r.call.ok - from))])
                    /\ proc' = [proc EXCEPT ![p].pc = "writei_end", ![p].logged = b.d.logged]
                 \/ /\ b.r # 0 /\ from + m <= r.call.ok
                    /\ SetDisk([b.d EXCEPT !.block[b.r] = Copied(@, o % BSIZE, Bytes(m))])
                    /\ proc' = [proc EXCEPT ![p].tot = @ + m,
                                            ![p].pc = IF r.tot + m = r.n1 THEN "writei_end" ELSE @,
                                            ![p].logged = b.d.logged \cup {b.r}]
        /\ UNCHANGED <<off, got>>

\* Mutant: the offset moves over bytes that were not written.
NewOffset_asked(p) == [off EXCEPT ![proc[p].call.f] = @ + proc[p].n1]

NewOffset(p) == [off EXCEPT ![proc[p].call.f] = @ + proc[p].tot]

\* The end of writei and of filewrite's turn.
writei_end(p) ==
    LET r == proc[p]
        o == off[r.call.f] + r.tot
        i == r.i + r.tot
    IN  /\ At(p, "writei_end")
        /\ inode' = [inode EXCEPT ![Ip(p)].size = IF o > @ THEN o ELSE @, ![Ip(p)].lock = "free"]
        /\ off' = NewOffset(p)
        /\ proc' = [proc EXCEPT ![p] = IF r.tot # r.n1 \/ i = r.call.n THEN Idle
                                       ELSE [Idle EXCEPT !.pc = "write", !.call = r.call, !.i = i]]
        /\ UNCHANGED <<block, used, got>>

\* sys_open with O_TRUNC of a file that is there; f is the new struct file.
sys_open(p) ==
    LET i == Ip(p)
    IN  /\ At(p, "open") /\ Unlocked(i)
        /\ inode' = [inode EXCEPT ![i].lock = p, ![i].addrs = Zeros(NDIRECT + 1)]
        /\ proc' = [proc EXCEPT ![p].pc = "itrunc", ![p].todo = Allocated(inode[i].addrs),
                                ![p].snap = Content(i)]
        /\ UNCHANGED <<block, used, off, got>>

bfree(d, b) == [d EXCEPT !.used = @ \ {b}, !.logged = @ \cup {BBLOCK(b)}]

\* One bfree of itrunc, and its end.
itrunc(p) ==
    LET r == proc[p]
    IN  /\ At(p, "itrunc")
        /\ \/ /\ r.todo # <<>>
              /\ \E d \in {bfree(Disk(r.logged), Head(r.todo))} :
                    /\ used' = d.used
                    /\ proc' = [proc EXCEPT ![p].todo = Tail(@), ![p].logged = d.logged]
              /\ UNCHANGED <<inode, off>>
           \/ /\ r.todo = <<>>
              /\ inode' = [inode EXCEPT ![Ip(p)].size = 0, ![Ip(p)].lock = "free"]
              /\ off' = [off EXCEPT ![r.call.f] = 0]
              /\ proc' = [proc EXCEPT ![p] = Idle]
              /\ UNCHANGED used
        /\ UNCHANGED <<block, got>>

Next == \E p \in Procs :
    \/ syscall(p) \/ fileread(p) \/ filestat(p) \/ filewrite(p) \/ writei(p) \/ writei_end(p)
    \/ sys_open(p) \/ itrunc(p)

Spec == Init /\ [][Next]_vars

-----------------------------------------------------------------------------
(* Properties *)

\* Every block of the disk is free, or one inode points to it once, or a
\* truncation has still to free it, whatever fails in the middle: bfree() never
\* meets a free block, no block is in two files, and none is lost.
BlocksExact ==
    LET Owners(b) ==
            {<<i, k>> \in UNION {{i} \X DOMAIN Allocated(inode[i].addrs) : i \in Inodes} :
                Allocated(inode[i].addrs)[k] = b}
        Freers(b) == {<<p, k>> \in UNION {{p} \X DOMAIN proc[p].todo : p \in Procs} :
                         proc[p].todo[k] = b}
    IN  \A b \in Blocks : Cardinality(Owners(b)) + Cardinality(Freers(b))
                            = IF b \in used THEN 1 ELSE 0

\* One chunk of a write gives log_write() at most the MAXOPBLOCKS blocks that
\* begin_op() reserved for it: data, bitmap, indirect and inode blocks (the last
\* by iupdate), also if every block it allocates is in another bitmap block and
\* the write starts in the middle of a block.
TransactionFits == \A p \in Procs : Cardinality(proc[p].logged \cup {0}) <= MAXOPBLOCKS

Seen(i) == IF Unlocked(i) THEN Content(i) ELSE proc[inode[i].lock].snap

Contents == [i \in Inodes |-> Seen(i)]

BF == INSTANCE ByteFile WITH
          content <- Contents,
          MaxChunk <- MaxWrite, MAXSIZE <- MAXFILE * BSIZE

\* Through blocks, indirect blocks and chunks, files are byte sequences, and the
\* users of one open file never write over each other or read the same bytes.
ByteFileSpec == BF!Spec
=============================================================================
