-------------------------------- MODULE Mkfs --------------------------------
(***************************************************************************)
(* mkfs.c: the image of a file system that the kernel boots from.  A sector *)
(* is an array of cells; a cell holds a byte of a file, a directory entry, *)
(* an inode (IPB to a sector), a block number or a bit of the bitmap.  The *)
(* names of the files are their numbers.  There are fewer files than       *)
(* NINODES, as mkfs does not check.                                        *)
(***************************************************************************)
EXTENDS Integers, Sequences, FiniteSets

CONSTANTS
    BSIZE,      \* cells in a sector
    IPB,        \* inodes in a sector
    BPB,        \* bits in a sector of the bitmap
    FSSIZE,     \* sectors of the image
    NINODES,
    LOGSIZE,
    NDIRECT,
    NINDIRECT,
    MaxLen      \* bound on the length of a file

VARIABLES
    disk,    \* [sect, freeblock, freeinode, ok]: the image and mkfs's counters
    files,   \* the files read so far: a sequence of sequences of bytes
    left,    \* bytes of the last of them that are still to be read
    stage    \* "files", "done" or "dead"

vars == <<disk, files, left, stage>>

-----------------------------------------------------------------------------
(* Layout: boot block, super block, log, inodes, bitmap, data *)

nbitmap == FSSIZE \div BPB + 1
ninodeblocks == NINODES \div IPB + 1
inodestart == 2 + LOGSIZE
bmapstart == 2 + LOGSIZE + ninodeblocks

\* Mutant: the bitmap is not counted as metadata.
nmeta_nobitmap == 2 + LOGSIZE + ninodeblocks

nmeta == 2 + LOGSIZE + ninodeblocks + nbitmap

IBLOCK(i) == i \div IPB + inodestart
MAXFILE == NDIRECT + NINDIRECT
Zeroes == [k \in 0 .. BSIZE - 1 |-> 0]

-----------------------------------------------------------------------------
winode(d, inum, din) == [d EXCEPT !.sect[IBLOCK(inum)][inum % IPB] = din]
rinode(d, inum) == d.sect[IBLOCK(inum)][inum % IPB]

\* The inode that ialloc returns is d.freeinode.
ialloc(d, type) ==
    winode([d EXCEPT !.freeinode = @ + 1], d.freeinode,
           [type |-> type, nlink |-> 1, size |-> 0, addrs |-> [k \in 0 .. NDIRECT |-> 0]])

\* The block x of a file, or freeblock++ if there is none yet.
Block(d, x) == IF x # 0 THEN [d |-> d, x |-> x]
               ELSE [d |-> [d EXCEPT !.freeblock = @ + 1], x |-> d.freeblock]

\* rsect beyond the end of the image: die("read").
die(d, din) == [d |-> [d EXCEPT !.ok = FALSE], din |-> din]

\* The loop of iappend: the cells xs are written at din.size.
RECURSIVE AppendFrom(_, _, _)
AppendFrom(d, din, xs) ==
    LET off == din.size
        fbn == off \div BSIZE
        room == (fbn + 1) * BSIZE - off
        n1 == IF Len(xs) < room THEN Len(xs) ELSE room
        Copied(b) == [k \in 0 .. BSIZE - 1 |->
                         IF fbn * BSIZE + k >= off /\ fbn * BSIZE + k < off + n1
                         THEN xs[fbn * BSIZE + k - off + 1] ELSE b[k]]
        Put(e, dn, x) == IF x >= FSSIZE THEN die(e, dn)
                         ELSE AppendFrom([e EXCEPT !.sect[x] = Copied(@)],
                                         [dn EXCEPT !.size = off + n1], SubSeq(xs, n1 + 1, Len(xs)))
        Direct(a) == Put(a.d, [din EXCEPT !.addrs[fbn] = a.x], a.x)
        Entry(a, ind) == Put([a.d EXCEPT !.sect[ind][fbn - NDIRECT] = a.x],
                             [din EXCEPT !.addrs[NDIRECT] = ind], a.x)
        Indirect(i) == IF i.x >= FSSIZE THEN die(i.d, din)
                       ELSE Entry(Block(i.d, i.d.sect[i.x][fbn - NDIRECT]), i.x)
    IN  IF xs = <<>> THEN [d |-> d, din |-> din]
        ELSE IF fbn >= MAXFILE THEN die(d, din)   \* the assertion
        ELSE IF fbn < NDIRECT THEN Direct(Block(d, din.addrs[fbn]))
        ELSE Indirect(Block(d, din.addrs[NDIRECT]))

iappend(d, inum, xs) ==
    LET Written(a) == winode(a.d, inum, a.din)
    IN  Written(AppendFrom(d, rinode(d, inum), xs))

\* The bitmap of the first `used` blocks.
balloc(d, used) ==
    IF used >= BPB THEN [d EXCEPT !.ok = FALSE]
    ELSE [d EXCEPT !.sect[bmapstart] = [b \in 0 .. BPB - 1 |-> IF b < used THEN 1 ELSE 0]]

-----------------------------------------------------------------------------
(* main *)

ROOTINO == 1
Dirent(name, inum) == [name |-> name, inum |-> inum]

\* The image is truncated, zeroed and given a root directory.
Formatted ==
    LET zeroed == [sect |-> [s \in 0 .. FSSIZE - 1 |-> Zeroes], freeblock |-> nmeta,
                   freeinode |-> 1, ok |-> TRUE]
        root == iappend(ialloc(zeroed, "dir"), ROOTINO, <<Dirent(".", ROOTINO)>>)
    IN  iappend(root, ROOTINO, <<Dirent("..", ROOTINO)>>)

Init == disk = Formatted /\ files = <<>> /\ left = 0 /\ stage = "files"

\* mkfs is run once more.
main ==
    /\ stage # "files"
    /\ disk' = Formatted /\ files' = <<>> /\ left' = 0 /\ stage' = "files"

Step(d) == disk' = d /\ stage' = IF d.ok THEN "files" ELSE "dead"

\* The next file of argv: an inode and an entry of the root directory.
Open(len) ==
    /\ stage = "files" /\ left = 0 /\ disk.freeinode < NINODES
    /\ Step(iappend(ialloc(disk, "file"), ROOTINO, <<Dirent(Len(files) + 1, disk.freeinode)>>))
    /\ files' = Append(files, [k \in 1 .. len |-> <<Len(files) + 1, k>>])
    /\ left' = len

\* read() returns cc bytes of the file, at most a sector.
Read(cc) ==
    LET f == files[Len(files)]
        at == Len(f) - left
    IN  /\ stage = "files" /\ cc <= left
        /\ Step(iappend(disk, disk.freeinode - 1, SubSeq(f, at + 1, at + cc)))
        /\ left' = left - cc
        /\ UNCHANGED files

\* The size of the root directory is rounded up, and the bitmap is written.
Finish ==
    LET din == rinode(disk, ROOTINO)
        size == (din.size \div BSIZE + 1) * BSIZE
    IN  /\ stage = "files" /\ left = 0
        /\ disk' = balloc(winode(disk, ROOTINO, [din EXCEPT !.size = size]), disk.freeblock)
        /\ stage' = IF disk'.ok THEN "done" ELSE "dead"
        /\ UNCHANGED <<files, left>>

Next == (\E len \in 0 .. MaxLen : Open(len)) \/ (\E cc \in 1 .. BSIZE : Read(cc)) \/ Finish
        \/ main

Spec == Init /\ [][Next]_vars

-----------------------------------------------------------------------------
(* Properties *)

\* The blocks that an inode points to, as the kernel's bmap() finds them.
DataBlock(i, bn) ==
    LET a == rinode(disk, i).addrs
    IN  IF bn < NDIRECT THEN a[bn]
        ELSE IF a[NDIRECT] = 0 THEN 0 ELSE disk.sect[a[NDIRECT]][bn - NDIRECT]
Pointed == {<<i, k>> \in (1 .. disk.freeinode - 1) \X (0 .. MAXFILE) :
               IF k = MAXFILE THEN rinode(disk, i).addrs[NDIRECT] # 0 ELSE DataBlock(i, k) # 0}
Target(x) == IF x[2] = MAXFILE THEN rinode(disk, x[1]).addrs[NDIRECT] ELSE DataBlock(x[1], x[2])
Cell(i, k) == disk.sect[DataBlock(i, k \div BSIZE)][k % BSIZE]

\* The kernel finds the file system that mkfs was asked for: the bitmap has exactly
\* the metadata and the blocks of files, each of which is in one place; every file is
\* an inode with one link, one entry in the root directory and the bytes it had on the
\* host, through direct and indirect blocks, in whatever pieces they were read; and the
\* root directory's size covers its entries.  (If they fill their last block, the size
\* covers one block more, which is not there.)
ImageExact == stage = "done" =>
    LET n == Len(files)
        root == rinode(disk, ROOTINO)
    IN  /\ \A x, y \in Pointed : Target(x) = Target(y) => x = y
        /\ \A b \in 0 .. FSSIZE - 1 :
              disk.sect[bmapstart + b \div BPB][b % BPB] = 1
                <=> b < nmeta \/ \E x \in Pointed : Target(x) = b
        /\ \A x \in Pointed : Target(x) \in bmapstart + nbitmap .. FSSIZE - 1
        /\ \A f \in 1 .. n :
              /\ rinode(disk, f + 1).type = "file" /\ rinode(disk, f + 1).nlink = 1
              /\ rinode(disk, f + 1).size = Len(files[f])
              /\ \A k \in 1 .. Len(files[f]) : Cell(f + 1, k - 1) = files[f][k]
        /\ root.type = "dir" /\ root.size % BSIZE = 0
        /\ root.size - (n + 2) \in 1 .. BSIZE
        /\ Cell(ROOTINO, 0) = Dirent(".", ROOTINO) /\ Cell(ROOTINO, 1) = Dirent("..", ROOTINO)
        /\ \A f \in 1 .. n : Cell(ROOTINO, f + 1) = Dirent(f, f + 1)
=============================================================================
