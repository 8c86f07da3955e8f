-------------------------------- MODULE Mkfs --------------------------------
(***************************************************************************)
(* mkfs/mkfs.c: the file system image the kernel boots from. One step for  *)
(* each inode made and each piece of a file that read() returns. Bytes are *)
(* counted in directory entries: one entry, or one piece of data, takes a  *)
(* unit, and BSIZE units make a block. A unit of data is the pair of the   *)
(* file and its place in it, so that the image shows where it came from.   *)
(***************************************************************************)
EXTENDS Integers, FiniteSets, FiniteSetsExt, Sequences

CONSTANTS BSIZE, NDIRECT, NINDIRECT, FSSIZE, NINODES, IPB, BPB, LOGSIZE,
          NFiles, Sizes  \* files on the command line, and what sizes they have

MkfsAssumption == {BSIZE, NDIRECT, NINDIRECT, FSSIZE, NINODES, IPB, BPB, LOGSIZE, NFiles} \subseteq Nat \ {0}

VARIABLES argv,       \* sizes of the files given
          dinode,     \* inodes on the image
          block,      \* blocks on the image
          bitmap,     \* blocks marked in use
          freeinode, freeblock,
          pc, i, got  \* where main() is, in which file, and how much of it is read

vars == <<argv, dinode, block, bitmap, freeinode, freeblock, pc, i, got>>

ROOTINO == 1
nbitmap == FSSIZE \div BPB + 1
ninodeblocks == NINODES \div IPB + 1
nmeta == 2 + LOGSIZE + ninodeblocks + nbitmap
MAXFILE == NDIRECT + NINDIRECT

Zero == <<0, 0>>
Zeroes == [u \in 0..(BSIZE - 1) |-> Zero]
NoInode == [type |-> "none", nlink |-> 0, size |-> 0, addrs |-> [n \in 0..NDIRECT |-> 0]]

(* The image is zeroed and the super block written. *)
Init ==
  /\ argv \in UNION {[1..n -> Sizes] : n \in 0..NFiles}
  /\ dinode = [n \in 1..(NFiles + 1) |-> NoInode]
  /\ block = [b \in 0..(FSSIZE - 1) |-> Zeroes] /\ bitmap = {}
  /\ freeinode = 1 /\ freeblock = nmeta
  /\ pc = "root" /\ i = 1 /\ got = 0

-----------------------------------------------------------------------------
(* ialloc(): the next inode, of the given type, with one link. *)
ialloc(d, type) == [d EXCEPT ![freeinode] = [NoInode EXCEPT !.type = type, !.nlink = 1]]

(* Entry n of an indirect block, kept as the block's units (Zero is address 0). *)
Address(unit) == unit[2]

(* The block of inode din that holds its unit off: iappend() gives it one if it *)
(* has none. s is the image: dinode din, blocks blk and the next free block.   *)
Mapped(s, fbn) ==
  IF fbn < NDIRECT
  THEN IF s.din.addrs[fbn] # 0 THEN s
       ELSE [s EXCEPT !.din.addrs[fbn] = s.free, !.free = @ + 1]
  ELSE LET t == IF s.din.addrs[NDIRECT] # 0 THEN s
                ELSE [s EXCEPT !.din.addrs[NDIRECT] = s.free, !.free = @ + 1]
           ind == t.din.addrs[NDIRECT]
       IN IF Address(t.blk[ind][fbn - NDIRECT]) # 0 THEN t
          ELSE [t EXCEPT !.blk[ind][fbn - NDIRECT] = <<0, t.free>>, !.free = @ + 1]

BlockOf(s, fbn) == IF fbn < NDIRECT THEN s.din.addrs[fbn] ELSE Address(s.blk[s.din.addrs[NDIRECT]][fbn - NDIRECT])

(* Faulty variant of iappend: a piece that fills a block starts a new one. *)
iappendLate(s, xp) ==
  LET off == s.din.size
      f[n \in 0..Len(xp)] ==
        IF n = 0 THEN s
        ELSE LET fbn == (off + n) \div BSIZE  t == Mapped(f[n - 1], fbn)
             IN [t EXCEPT !.blk[BlockOf(t, fbn)][(off + n - 1) % BSIZE] = xp[n]]
  IN [f[Len(xp)] EXCEPT !.din.size = off + Len(xp)]

(* iappend(): the units of xp after the end of the file, block by block. *)
iappend(s, xp) ==
  LET off == s.din.size
      f[n \in 0..Len(xp)] ==
        IF n = 0 THEN s
        ELSE LET fbn == (off + n - 1) \div BSIZE  t == Mapped(f[n - 1], fbn)
             IN [t EXCEPT !.blk[BlockOf(t, fbn)][(off + n - 1) % BSIZE] = xp[n]]
  IN [f[Len(xp)] EXCEPT !.din.size = off + Len(xp)]

(* The image after iappend() to inode inum of d. *)
Appended(d, inum, xp) ==
  LET s == iappend([din |-> d[inum], blk |-> block, free |-> freeblock], xp)
  IN dinode' = [d EXCEPT ![inum] = s.din] /\ block' = s.blk /\ freeblock' = s.free

(* A directory entry for inode inum. *)
Dirent(inum, name) == <<name, inum>>

(* The root directory with its entries "." and "..". *)
Root ==
  /\ pc = "root"
  /\ Appended(ialloc(dinode, "dir"), ROOTINO, <<Dirent(ROOTINO, "."), Dirent(ROOTINO, "..")>>)
  /\ freeinode' = freeinode + 1 /\ pc' = "file"
  /\ UNCHANGED <<argv, bitmap, i, got>>

(* The next file: its inode and its entry in the root directory. *)
File ==
  /\ pc = "file" /\ i <= Len(argv)
  /\ Appended(ialloc(dinode, "file"), ROOTINO, <<Dirent(freeinode, "file")>>)
  /\ freeinode' = freeinode + 1 /\ pc' = "read" /\ got' = 0
  /\ UNCHANGED <<argv, bitmap, i>>

(* read() returns up to a block of the file, which is appended. *)
Copy ==
  /\ pc = "read" /\ got < argv[i]
  /\ \E cc \in 1..Min({BSIZE, argv[i] - got}) :
       /\ Appended(dinode, freeinode - 1, [n \in 1..cc |-> <<i, got + n>>])
       /\ got' = got + cc
  /\ UNCHANGED <<argv, bitmap, freeinode, pc, i>>

Eof ==
  /\ pc = "read" /\ got = argv[i]
  /\ i' = i + 1 /\ pc' = "file"
  /\ UNCHANGED <<argv, dinode, block, bitmap, freeinode, freeblock, got>>

(* Faulty variant of balloc: the block after the last one is marked as well. *)
ballocMore(used) == 0..used

(* balloc(): the first used blocks are marked. *)
balloc(used) == 0..(used - 1)

(* The root directory's size is raised past its last block; the bitmap is written. *)
Finish ==
  /\ pc = "file" /\ i > Len(argv) /\ freeblock < BPB
  /\ dinode' = [dinode EXCEPT ![ROOTINO].size = (@ \div BSIZE + 1) * BSIZE]
  /\ bitmap' = balloc(freeblock)
  /\ pc' = "done"
  /\ UNCHANGED <<argv, block, freeinode, freeblock, i, got>>

Next == Root \/ File \/ Copy \/ Eof \/ Finish

Spec == Init /\ [][Next]_vars

-----------------------------------------------------------------------------
Done == pc = "done"
At(inum, fbn) == BlockOf([din |-> dinode[inum], blk |-> block], fbn)
Has(inum, fbn) == fbn < NDIRECT \/ dinode[inum].addrs[NDIRECT] # 0
Data(inum) == {At(inum, fbn) : fbn \in {f \in 0..(MAXFILE - 1) : Has(inum, f)}} \ {0}
Unit(inum, off) == block[At(inum, off \div BSIZE)][off % BSIZE]
Used(inum) == Data(inum) \cup ({dinode[inum].addrs[NDIRECT]} \ {0})
Inodes == 1..(freeinode - 1)
Dirents == 2 + Len(argv)

(* The bitmap of the finished image marks the metadata and the blocks in the   *)
(* files and nothing else, no block is in two files or twice in one, and all   *)
(* are on the disk: the kernel's balloc() starts from a true free list.        *)
BitmapExact ==
  Done => /\ bitmap = 0..(nmeta - 1) \cup UNION {Used(n) : n \in Inodes}
          /\ \A n, m \in Inodes : n # m => Used(n) \cap Used(m) = {}
          /\ \A n \in Inodes : Used(n) \subseteq nmeta..(FSSIZE - 1)
          /\ Cardinality(bitmap) = nmeta + MapThenSumSet(LAMBDA n : Cardinality(Used(n)), Inodes)

(* The finished image holds the files given, under the names given: each entry *)
(* of the root directory is an inode with one link, every file reads back as   *)
(* it was whatever pieces read() returned, and the directory ends in free      *)
(* entries. Its size counts a block it does not have if the entries fill the   *)
(* last one.                                                                   *)
ImageReadsBack ==
  Done => /\ dinode[ROOTINO].size - Cardinality(Data(ROOTINO)) * BSIZE = IF Dirents % BSIZE = 0 THEN BSIZE ELSE 0
          /\ [k \in 1..Dirents |-> Unit(ROOTINO, k - 1)[2]] = [k \in 1..Dirents |-> IF k <= 2 THEN ROOTINO ELSE k - 1]
          /\ \A k \in Dirents..(Cardinality(Data(ROOTINO)) * BSIZE - 1) : Unit(ROOTINO, k) = Zero
          /\ \A n \in 1..Len(argv) : /\ dinode[n + 1].nlink = 1 /\ dinode[n + 1].size = argv[n]
                                     /\ \A u \in 1..argv[n] : Unit(n + 1, u - 1) = <<n, u>>
=============================================================================
