------------------------------ MODULE FileData ------------------------------
(***************************************************************************)
(* The contents of files (xv6/fs.c: balloc, bfree, bmap, itrunc, readi,    *)
(* writei; xv6/file.c: fileread, filewrite): the bitmap, direct and        *)
(* indirect blocks, and offsets shared by processes.                       *)
(*                                                                         *)
(* A step is one transaction under the inode's lock: a chunk of filewrite, *)
(* a read, a truncation; a crash comes between two of them (module Log).   *)
(* A cell of a block holds a byte or, in an indirect block, a block        *)
(* number.  The byte at an offset of a file is a value of its own, so that *)
(* bytes at the wrong place are seen; a free block holds junk.             *)
(***************************************************************************)
EXTENDS Integers, Sequences, FiniteSets, SequencesExt

CONSTANTS FProc,
          Handles,              \* struct files; dup and fork share them
          Inode,                \* inode numbers
          NBLOCKS,              \* data blocks
          BSIZE, NDIRECT,
          NINDIRECT,            \* cells of an indirect block: BSIZE / sizeof(uint)
          MAXOPBLOCKS,
          Counts                \* sizes of a read or write call

ASSUME FileDataAssumption ==
    /\ {NBLOCKS, BSIZE, NDIRECT} \subseteq Nat \ {0} /\ NINDIRECT \in 1 .. BSIZE
    /\ MAXOPBLOCKS \in Nat /\ MAXOPBLOCKS >= 6 /\ Counts \subseteq Nat /\ Inode \subseteq Nat

Block == 1 .. NBLOCKS
MAXFILE == NDIRECT + NINDIRECT
Bitmap == -1         \* the blocks of metadata that a transaction logs
Dinode == -2

VARIABLES fs,      \* bitmap, blocks and in-core inodes; logged: by the current transaction
          dinode,  \* the inodes on the disk
          handle,  \* inode and offset of each struct file
          ongoing     \* of each process: the rest of its write

fvars == <<fs, dinode, handle, ongoing>>

Zero == [c \in 0 .. BSIZE - 1 |-> 0]
Fresh == [addrs |-> [k \in 0 .. NDIRECT |-> 0], size |-> 0]

\* The byte of a file at an offset: no block number, no zero
FileByte(i, o) == NBLOCKS + 1 + i * MAXFILE * BSIZE + o

\* What an earlier use left in a block: it could be a block number.
Junk == [c \in 0 .. BSIZE - 1 |-> 1]

\* iinit's file system, with empty files.
FInit == /\ fs = [used |-> {}, data |-> [b \in Block |-> Junk],
                  ino |-> [i \in Inode |-> Fresh], logged |-> {}, panic |-> "none"]
         /\ dinode = [i \in Inode |-> Fresh]
         /\ handle \in [Handles -> [ip : {CHOOSE i \in Inode : TRUE}, off : {0}]]
         /\ ongoing = [p \in FProc |-> [left |-> 0, h |-> CHOOSE h \in Handles : TRUE]]

-----------------------------------------------------------------------------
Log(s, blocks) == [s EXCEPT !.logged = @ \cup blocks]
Panic(s, m) == [s EXCEPT !.panic = IF @ = "none" THEN m ELSE @]

NextFree(s) == CHOOSE b \in Block \ s.used : \A c \in Block \ s.used : b <= c

\* Faulty variant: the block is not zeroed.
balloc_NoZero(s) == IF s.used = Block THEN Panic(s, "balloc: out of blocks")
                    ELSE Log([s EXCEPT !.used = @ \cup {NextFree(s)}], {Bitmap, NextFree(s)})

\* balloc and its bzero; the block is NextFree(s)
balloc(s) == IF s.used = Block THEN Panic(s, "balloc: out of blocks")
             ELSE Log([s EXCEPT !.used = @ \cup {NextFree(s)}, !.data[NextFree(s)] = Zero], {Bitmap, NextFree(s)})

bfree(s, b) == IF b \notin s.used THEN Panic(s, "freeing free block")
               ELSE Log([s EXCEPT !.used = @ \ {b}, !.data[b] = Junk], {Bitmap})

\* Where the file's bnth block is, 0 if it has none
BlockAddr(s, i, bn) ==
    IF bn < NDIRECT THEN s.ino[i].addrs[bn]
    ELSE IF s.ino[i].addrs[NDIRECT] = 0 THEN 0
    ELSE s.data[s.ino[i].addrs[NDIRECT]][bn - NDIRECT]

\* A slot of the inode, filled if it is empty
Direct(s, i, k) == IF s.ino[i].addrs[k] # 0 \/ s.used = Block THEN (IF s.ino[i].addrs[k] # 0 THEN s ELSE balloc(s))
                   ELSE [balloc(s) EXCEPT !.ino[i].addrs[k] = NextFree(s)]

\* bmap, after which the block is BlockAddr(., i, bn)
bmap(s, i, bn) ==
    IF bn < NDIRECT THEN Direct(s, i, bn)
    ELSE IF bn >= MAXFILE THEN Panic(s, "bmap: out of range")
    ELSE LET t == Direct(s, i, NDIRECT)
             ind == t.ino[i].addrs[NDIRECT]
         IN  IF t.panic # "none" \/ t.data[ind][bn - NDIRECT] # 0 THEN t
             ELSE IF t.used = Block THEN balloc(t)
             ELSE Log([balloc(t) EXCEPT !.data[ind][bn - NDIRECT] = NextFree(t)], {ind})

\* off % BSIZE, and the m bytes from there
InRange(bn, c, from, to) == bn * BSIZE + c \in from .. to - 1

\* One turn of writei's loop: the cells of block bn that are in from .. to - 1
WriteBlock(s, i, bn, from, to) ==
    LET t == bmap(s, i, bn)
        b == BlockAddr(t, i, bn)
    IN  IF t.panic # "none" THEN t
        ELSE Log([t EXCEPT !.data[b] = [c \in 0 .. BSIZE - 1 |->
                      IF InRange(bn, c, from, to) THEN FileByte(i, bn * BSIZE + c) ELSE @[c]]], {b})

\* The blocks of from .. to - 1, in order
BlocksOf(from, to) == IF to <= from THEN << >>
                      ELSE [k \in 1 .. ((to - 1) \div BSIZE) - (from \div BSIZE) + 1 |-> (from \div BSIZE) + k - 1]

\* writei of n bytes at off, if it is not refused; iupdate if the file grows
MayWrite(s, i, off, n) == off <= s.ino[i].size /\ off + n <= MAXFILE * BSIZE

\* Faulty variant: the size on the disk is left behind.
iupdate_Never == {}

\* iupdate logs the inode
iupdate == {Dinode}

writei(s, i, off, n) ==
    LET t == FoldLeft(LAMBDA u, bn : WriteBlock(u, i, bn, off, off + n), s, BlocksOf(off, off + n))
    IN  IF t.panic = "none" /\ off + n > s.ino[i].size THEN Log([t EXCEPT !.ino[i].size = off + n], iupdate) ELSE t

\* readi returns these cells
Cells(s, i, off, n) == [k \in 1 .. n |-> IF BlockAddr(s, i, (off + k - 1) \div BSIZE) = 0 THEN 0
                                         ELSE s.data[BlockAddr(s, i, (off + k - 1) \div BSIZE)][(off + k - 1) % BSIZE]]

Least(x, y) == IF x < y THEN x ELSE y

\* The blocks that itrunc frees, in its order: the direct ones, those of the indirect block, and that block
Truncated(s, i) == SelectSeq([k \in 1 .. MAXFILE + 1 |-> IF k <= MAXFILE THEN BlockAddr(s, i, k - 1)
                                                         ELSE s.ino[i].addrs[NDIRECT]], LAMBDA b : b # 0)

itruncOf(s, i) ==
    LET t == FoldLeft(bfree, s, Truncated(s, i))
    IN  Log([t EXCEPT !.ino[i] = Fresh], {Dinode})

-----------------------------------------------------------------------------
\* A transaction: what it does to the blocks, and iupdate's copy if it logged the inode
Transaction(s, i) ==
    /\ fs' = [(IF Cardinality(s.logged) > MAXOPBLOCKS THEN Panic(s, "too big a transaction") ELSE s) EXCEPT !.logged = {}]
    /\ dinode' = IF Dinode \in s.logged THEN [dinode EXCEPT ![i] = s.ino[i]] ELSE dinode

\* open, seen from here: the handle is for the file from its beginning on
sys_open(h, i) ==
    /\ fs.panic = "none" /\ \A p \in FProc : ongoing[p].left > 0 => ongoing[p].h # h
    /\ handle' = [handle EXCEPT ![h] = [ip |-> i, off |-> 0]]
    /\ UNCHANGED <<fs, dinode, ongoing>>

\* filewrite is called
sys_write(p, h, n) ==
    /\ ongoing[p].left = 0 /\ fs.panic = "none"
    /\ ongoing' = [ongoing EXCEPT ![p] = [left |-> n, h |-> h]]
    /\ UNCHANGED <<fs, dinode, handle>>

\* max in filewrite
ChunkMax == ((MAXOPBLOCKS - 1 - 1 - 2) \div 2) * BSIZE

\* One turn of its loop
filewrite(p) ==
    LET h == ongoing[p].h
        i == handle[h].ip
        n1 == Least(ongoing[p].left, ChunkMax)
    IN  /\ ongoing[p].left > 0 /\ fs.panic = "none"
        /\ IF MayWrite(fs, i, handle[h].off, n1)
           THEN /\ Transaction(writei(fs, i, handle[h].off, n1), i)
                /\ handle' = [handle EXCEPT ![h].off = @ + n1]
                /\ ongoing' = [ongoing EXCEPT ![p].left = @ - n1]
           ELSE ongoing' = [ongoing EXCEPT ![p].left = 0] /\ UNCHANGED <<fs, dinode, handle>>

\* fileread: up to the end of the file; the bytes it returns are what ContentsRight is about
fileread(p, h, n) ==
    LET size == fs.ino[handle[h].ip].size
    IN  /\ ongoing[p].left = 0 /\ fs.panic = "none" /\ handle[h].off < size
        /\ handle' = [handle EXCEPT ![h].off = Least(@ + n, size)]
        /\ UNCHANGED <<fs, dinode, ongoing>>

\* iput frees the contents of a file that nobody has open.
itrunc(i) ==
    /\ fs.panic = "none" /\ \A h \in Handles : handle[h].ip # i
    /\ Transaction(itruncOf(fs, i), i)
    /\ UNCHANGED <<handle, ongoing>>

FNext == \/ \E p \in FProc : \/ \E h \in Handles, n \in Counts : sys_write(p, h, n) \/ fileread(p, h, n)
                             \/ filewrite(p)
         \/ \E h \in Handles, i \in Inode : sys_open(h, i)
         \/ \E i \in Inode : itrunc(i)

FSpec == FInit /\ [][FNext]_fvars

-----------------------------------------------------------------------------
\* The blocks of a file, with the indirect one
Owned(i) == ({BlockAddr(fs, i, bn) : bn \in 0 .. MAXFILE - 1} \cup {fs.ino[i].addrs[NDIRECT]}) \ {0}

\* The bitmap is exact: a block is in use iff a file has it, no two files have the same one,
\* and a file has as many as its size needs.
BitmapExact ==
    fs.panic = "none" =>
        /\ fs.used = UNION {Owned(i) : i \in Inode}
        /\ \A i, j \in Inode : i # j => Owned(i) \cap Owned(j) = {}
        /\ \A i \in Inode : LET blocks == (fs.ino[i].size + BSIZE - 1) \div BSIZE
                            IN  Cardinality(Owned(i)) = blocks + (IF blocks > NDIRECT THEN 1 ELSE 0)

\* A file's byte at each offset below its size is the one written there, through direct and
\* indirect blocks that were other files' before.
ContentsRight ==
    fs.panic = "none" =>
        \A i \in Inode : Cells(fs, i, 0, fs.ino[i].size) = [k \in 1 .. fs.ino[i].size |-> FileByte(i, k - 1)]

\* Between two transactions the inode on the disk is the one in core: a crash there loses no
\* size and no block.
DinodeCurrent == fs.panic = "none" => dinode = fs.ino

\* A chunk of filewrite logs no more blocks than a transaction may have, unaligned or
\* with the first indirect block: what module Log assumes of its clients.
ChunkFits == fs.panic # "too big a transaction"

\* What is written is what is read, and is safe on disk after each transaction, none of which is
\* too large for the log.
FileRight == ContentsRight /\ DinodeCurrent /\ ChunkFits
=============================================================================
