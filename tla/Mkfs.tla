-------------------------------- MODULE Mkfs --------------------------------
(***************************************************************************)
(* mkfs.c: the image of the file system the kernel boots from.  Blocks and *)
(* inodes are handed out in order and never back; a byte is named by its   *)
(* file and place, a directory entry by the inode it names.                *)
(***************************************************************************)
EXTENDS Integers, Sequences, FiniteSets

CONSTANTS KFSSIZE,       \* blocks of the image
          KMETA,         \* nmeta
          KINODES,       \* NINODES
          KBSIZE,        \* bytes, or entries, of a block
          KDIRECT, KINDIRECT,
          KFiles         \* how many files are named on the command line

ROOTINO == 1
KMAXFILE == KDIRECT + KINDIRECT

VARIABLE mk              \* the image and where main is
NoInode == [type |-> "none", nlink |-> 0, size |-> 0, addrs |-> [k \in 0 .. KDIRECT |-> 0]]
Zeroes == [k \in 0 .. KBSIZE - 1 |-> <<0, 0>>]

\* rsect and wsect; the entries of an indirect block are <<block, 0>>.
rsect(m, b) == m.blocks[b]
wsect(m, b, buf) == [m EXCEPT !.blocks[b] = buf]

ialloc(m, type) == [m EXCEPT !.freeinode = @ + 1, !.inode[m.freeinode] = [NoInode EXCEPT !.type = type, !.nlink = 1]]

\* Faulty variant: the block of pointers is not written back.
Point_Lost(m, ib, k) == [m EXCEPT !.freeblock = @ + 1]

\* A new block behind the block of pointers
Point(m, ib, k) == [wsect(m, ib, [rsect(m, ib) EXCEPT ![k] = <<m.freeblock, 0>>]) EXCEPT !.freeblock = @ + 1]

\* The block of the file for fbn, allocated if it has none: the image and the block
Locate(m, inum, fbn) ==
    IF fbn < KDIRECT
    THEN IF m.inode[inum].addrs[fbn] # 0 THEN [m |-> m, x |-> m.inode[inum].addrs[fbn]]
         ELSE [m |-> [m EXCEPT !.inode[inum].addrs[fbn] = m.freeblock, !.freeblock = @ + 1], x |-> m.freeblock]
    ELSE LET i == IF m.inode[inum].addrs[KDIRECT] # 0 THEN m
                  ELSE [m EXCEPT !.inode[inum].addrs[KDIRECT] = m.freeblock, !.freeblock = @ + 1]
             ib == i.inode[inum].addrs[KDIRECT]
             k == fbn - KDIRECT
         IN  IF rsect(i, ib)[k][1] # 0 THEN [m |-> i, x |-> rsect(i, ib)[k][1]]
             ELSE [m |-> Point(i, ib, k), x |-> i.freeblock]

\* One turn of iappend's loop, for one byte or entry (a chunk within a block is its bytes in turn)
Append1(m, inum, byte) ==
    LET off == m.inode[inum].size
        at == Locate(m, inum, off \div KBSIZE)
    IN  [wsect(at.m, at.x, [rsect(at.m, at.x) EXCEPT ![off % KBSIZE] = byte]) EXCEPT !.inode[inum].size = off + 1]

Boot ==
    LET m == [at |-> "files", freeinode |-> 1, freeblock |-> KMETA, inode |-> [i \in 1 .. KINODES |-> NoInode],
              blocks |-> [b \in 0 .. KFSSIZE - 1 |-> Zeroes], bitmap |-> {}]
    IN  Append1(Append1(ialloc(m, "T_DIR"), ROOTINO, <<ROOTINO, 0>>), ROOTINO, <<ROOTINO, 0>>)

\* main up to its loop: the root with . and ..
ImageInit == mk = Boot

\* The inode whose file is being copied
Newest == mk.freeinode - 1

\* Blocks the next append may take; the image is large enough for the files (mkfs does not check).
Fits == mk.freeblock + 2 <= KFSSIZE

\* The next file of the command line: an inode and an entry of the root
add ==
    /\ mk.at = "files" /\ Newest <= KFiles /\ mk.freeinode <= KINODES /\ Fits
    /\ mk' = Append1(ialloc(mk, "T_FILE"), ROOTINO, <<mk.freeinode, 0>>)

\* A byte read from it; a file longer than MAXFILE fails the assertion.
copy ==
    /\ mk.at = "files" /\ Newest # ROOTINO /\ Fits
    /\ mk' = IF mk.inode[Newest].size \div KBSIZE >= KMAXFILE THEN [mk EXCEPT !.at = "aborted"]
             ELSE Append1(mk, Newest, <<Newest, mk.inode[Newest].size>>)

\* balloc
Marked == {b \in 0 .. KFSSIZE - 1 : b < mk.freeblock}

\* The fixed size of the root
RootSize(off) == (off \div KBSIZE + 1) * KBSIZE

\* The size of the root becomes a whole number of blocks; the bitmap is written.
finish ==
    /\ mk.at = "files"
    /\ mk' = [mk EXCEPT !.at = "done", !.bitmap = Marked,
                        !.inode[ROOTINO].size = RootSize(@)]

ImageNext == add \/ copy \/ finish
ImageSpec == ImageInit /\ [][ImageNext]_mk

-----------------------------------------------------------------------------
\* What the kernel finds: the blocks of an inode, the pointers' block included, and its bytes
Pointers(i) == {mk.inode[i].addrs[k] : k \in 0 .. KDIRECT} \ {0}
Indirect(i) == mk.inode[i].addrs[KDIRECT]
Behind(i) == IF Indirect(i) = 0 THEN {} ELSE {mk.blocks[Indirect(i)][k][1] : k \in 0 .. KINDIRECT - 1} \ {0}
OwnedBy(i) == Pointers(i) \cup Behind(i)
BlockAt(i, fbn) == IF fbn < KDIRECT THEN mk.inode[i].addrs[fbn]
                   ELSE IF Indirect(i) = 0 THEN 0 ELSE mk.blocks[Indirect(i)][fbn - KDIRECT][1]
ByteAt(i, off) == mk.blocks[BlockAt(i, off \div KBSIZE)][off % KBSIZE]
Inodes == 1 .. mk.freeinode - 1

\* The bitmap of the image is exact: a block is marked if and only if it is one of the meta blocks or
\* belongs to one inode, and no block belongs to two.
ImageBitmap == mk.at = "done" =>
    /\ mk.bitmap = (0 .. KMETA - 1) \cup UNION {OwnedBy(i) : i \in Inodes}
    /\ \A i, j \in Inodes : i # j => OwnedBy(i) \cap OwnedBy(j) = {}

\* Every file reads back byte for byte through the addresses the kernel follows, and the root lists
\* every inode once behind . and ..
ImageContents ==
    /\ \A i \in Inodes \ {ROOTINO} : \A off \in 0 .. mk.inode[i].size - 1 : ByteAt(i, off) = <<i, off>>
    /\ \A n \in 1 .. Cardinality(Inodes) : ByteAt(ROOTINO, n) = <<n, 0>>

\* The root's size is covered by its blocks, and what is behind its entries is free entries, unless
\* the entries fill their blocks: then its size counts one block that is not there.
RootCovered == mk.at = "done" =>
    LET entries == 1 + Cardinality(Inodes)
        size == mk.inode[ROOTINO].size
    IN  \/ entries % KBSIZE = 0 /\ size = entries + KBSIZE /\ BlockAt(ROOTINO, entries \div KBSIZE) = 0
        \/ size >= entries /\ \A off \in 0 .. size - 1 : BlockAt(ROOTINO, off \div KBSIZE) # 0 /\ (off >= entries => ByteAt(ROOTINO, off)[1] = 0)

\* The image is one the kernel can boot from: bitmap, files and root directory agree.
ImageRight == ImageBitmap /\ ImageContents /\ RootCovered
=============================================================================
