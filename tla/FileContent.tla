---------------------------- MODULE FileContent ----------------------------
(***************************************************************************)
(* File contents: the block bitmap, bmap(), itrunc(), readi() and writei() *)
(* of kernel/fs.c, and fileread() and filewrite() of kernel/file.c, for    *)
(* processes that share files and open files. Reading a user's buffer may  *)
(* fail after some bytes.                                                  *)
(*                                                                         *)
(* The functional part works on s = [used, blk, ino, log]: the bitmap, the *)
(* blocks in the buffer cache, the inodes, and the blocks that the running *)
(* operation has passed to log_write(). A block is a function from its     *)
(* offsets, and holds bytes or, as an indirect block, block numbers.       *)
(***************************************************************************)
EXTENDS Integers, FiniteSets, Sequences, FiniteSetsExt

CONSTANTS Procs, Nobody, Files,
          Opens, FileOf(_),     \* open files, numbers, and the file each one is of
          Blocks,               \* data blocks of the disk
          NDIRECT, NINDIRECT, BSIZE, MAXOPBLOCKS,
          Sizes                 \* of the calls of read() and write()

FileContentAssumption ==
  /\ Nobody \notin Procs /\ Opens \subseteq Nat \ {0} /\ \A o \in Opens : FileOf(o) \in Files
  /\ Blocks \subseteq Nat \ {0} /\ IsFiniteSet(Blocks)
  /\ {NDIRECT, NINDIRECT, BSIZE} \subseteq Nat \ {0} /\ MAXOPBLOCKS \in Nat /\ MAXOPBLOCKS >= 6

VARIABLES used, blk, ino,  \* the bitmap, the blocks, the inodes
          off,             \* f->off
          lk,              \* ip->lock
          th,              \* what each process is doing in filewrite()
          unlogged,        \* history: blocks changed in the cache and not logged
          want             \* history: the bytes that programs put into each file

vars == <<used, blk, ino, off, lk, th, unlogged, want>>

MAXFILE == NDIRECT + NINDIRECT
Zero == [i \in 0..(Max({BSIZE, NINDIRECT}) - 1) |-> 0]
Idle == [pc |-> "user"]

Init ==
  /\ used = {} /\ blk = [b \in Blocks |-> Zero]
  /\ ino = [f \in Files |-> [size |-> 0, addrs |-> [i \in 0..NDIRECT |-> 0]]]
  /\ off = [o \in Opens |-> 0] /\ lk = [f \in Files |-> Nobody]
  /\ th = [p \in Procs |-> Idle] /\ unlogged = {} /\ want = [f \in Files |-> <<>>]

-----------------------------------------------------------------------------
(* The blocks that log_write() is called with: every bit of the bitmap is    *)
(* taken to be in a block of its own, the worst case.                        *)
Data(b) == <<"data", b>>
Bit(b) == <<"bit", b>>
Dinode(f) == <<"inode", f>>

(* Faulty variant of BZero: a block that was in use keeps its contents. *)
BZeroNot(c, b) == c

BZero(c, b) == [c EXCEPT ![b] = Zero]

(* balloc(): the first free block. *)
FreeBlock(s) == Min(Blocks \ s.used)
BAlloc(s) ==
  LET b == FreeBlock(s) IN
  [s EXCEPT !.used = @ \cup {b}, !.blk = BZero(@, b), !.log = @ \cup {Bit(b), Data(b)}]

(* bmap(): the state and the address, which may have been allocated. *)
BMap(s, f, bn) ==
  LET a0 == s.ino[f].addrs
      Slot(i) == IF a0[i] # 0 THEN s ELSE [BAlloc(s) EXCEPT !.ino[f].addrs[i] = FreeBlock(s)]
      t == Slot(NDIRECT)
      ind == t.ino[f].addrs[NDIRECT]
      e == bn - NDIRECT
      u == IF t.blk[ind][e] # 0 THEN t
           ELSE [BAlloc(t) EXCEPT !.blk[ind][e] = FreeBlock(t), !.log = @ \cup {Data(ind)}]
  IN IF bn < NDIRECT THEN [s |-> Slot(bn), addr |-> Slot(bn).ino[f].addrs[bn]]
     ELSE [s |-> u, addr |-> u.blk[ind][e]]

(* The blocks that itrunc() passes to bfree(). *)
Freed(s, f) ==
  LET a == s.ino[f].addrs
      ind == IF a[NDIRECT] = 0 THEN {} ELSE {s.blk[a[NDIRECT]][j] : j \in 0..(NINDIRECT - 1)}
  IN (({a[i] : i \in 0..NDIRECT} \cup ind) \ {0})

ITrunc(s, f) ==
  [s EXCEPT !.used = @ \ Freed(s, f), !.log = @ \cup {Bit(b) : b \in Freed(s, f)} \cup {Dinode(f)},
            !.ino[f] = [size |-> 0, addrs |-> [i \in 0..NDIRECT |-> 0]]]

(* The bytes of one turn of the loops of readi() and writei(). *)
Turn(o, left) == Min({left, BSIZE - (o % BSIZE)})

(* readi(): the state, in which bmap() may have allocated, and the bytes. *)
ReadI(s, f, o, n) ==
  LET size == s.ino[f].size
      m == IF o + n > size THEN size - o ELSE n
      At[i \in 0..m] == IF i = 0 THEN [s |-> s, out |-> <<>>]
                        ELSE LET b == BMap(At[i - 1].s, f, (o + i - 1) \div BSIZE) IN
                             [s |-> b.s, out |-> Append(At[i - 1].out, b.s.blk[b.addr][(o + i - 1) % BSIZE])]
  IN IF o > size THEN [s |-> s, out |-> <<>>] ELSE At[m]

-----------------------------------------------------------------------------
Now == [used |-> used, blk |-> blk, ino |-> ino, log |-> {}]
Is(s) == used' = s.used /\ blk' = s.blk /\ ino' = s.ino

(* fileread(): readi() and f->off, under the inode's lock. *)
Read(o, n) ==
  LET f == FileOf(o)  r == ReadI(Now, f, off[o], n) IN
  /\ lk[f] = Nobody
  /\ Is(r.s)
  /\ off' = [off EXCEPT ![o] = @ + Len(r.out)]
  /\ UNCHANGED <<lk, th, unlogged, want>>

(* open(O_TRUNC): itrunc() under the inode's lock; offsets stay. *)
Trunc(f) ==
  /\ lk[f] = Nobody
  /\ Is(ITrunc(Now, f))
  /\ want' = [want EXCEPT ![f] = <<>>]
  /\ unlogged' = unlogged \ Freed(Now, f)
  /\ UNCHANGED <<off, lk, th>>

(* Faulty variant of MaxChunk: no room for a write that is not aligned. *)
MaxChunkTight == ((MAXOPBLOCKS - 1 - 1) \div 2) * BSIZE

(* int max = ((MAXOPBLOCKS-1-1-2) / 2) * BSIZE. *)
MaxChunk == ((MAXOPBLOCKS - 1 - 1 - 2) \div 2) * BSIZE

(* filewrite() of n bytes, each of which tells the open file it came through. *)
Write(p, o, n) ==
  /\ th[p].pc = "user"
  /\ th' = [th EXCEPT ![p] = [pc |-> "chunk", o |-> o, left |-> n]]
  /\ UNCHANGED <<used, blk, ino, off, lk, unlogged, want>>

(* Faulty variant of Rejects: a file may be written beyond its end. *)
RejectsLong(size, o, n) == o + n > MAXFILE * BSIZE

(* writei()'s early returns. *)
Rejects(size, o, n) == o > size \/ o + n > MAXFILE * BSIZE

(* begin_op(); ilock(f->ip); writei() starts on n1 bytes, or returns -1. *)
Chunk(p) ==
  LET t == th[p]  f == FileOf(t.o)  n1 == Min({t.left, MaxChunk}) IN
  /\ t.pc = "chunk" /\ lk[f] = Nobody
  /\ IF Rejects(ino[f].size, off[t.o], n1) THEN th' = [th EXCEPT ![p] = Idle] /\ UNCHANGED lk
     ELSE /\ lk' = [lk EXCEPT ![f] = p]
          /\ th' = [th EXCEPT ![p] = [pc |-> "writei", o |-> t.o, left |-> t.left,
                                      at |-> off[t.o], n1 |-> n1, tot |-> 0, log |-> {}]]
  /\ UNCHANGED <<used, blk, ino, off, unlogged, want>>

(* k bytes v at offset o of block b, and of the reference content. *)
Put(c, b, o, k, v) == [c EXCEPT ![b] = [i \in DOMAIN @ |-> IF i >= o % BSIZE /\ i < (o % BSIZE) + k THEN v ELSE @[i]]]
Overlay(w, o, k, v, len) == [i \in 1..len |-> IF i > o /\ i <= o + k THEN v ELSE IF i <= Len(w) THEN w[i] ELSE 0]

(* One turn of writei()'s loop: bmap(), either_copyin() of m bytes of which k *)
(* arrive, and log_write() unless the copy failed.                            *)
WriteTurn(p, k) ==
  LET t == th[p]  f == FileOf(t.o)  m == Turn(t.at, t.n1 - t.tot)
      b == BMap([Now EXCEPT !.log = t.log], f, t.at \div BSIZE)
  IN /\ t.pc = "writei" /\ t.tot < t.n1 /\ k <= m
     /\ Is([b.s EXCEPT !.blk = Put(@, b.addr, t.at, k, t.o)])
     /\ want' = [want EXCEPT ![f] = Overlay(@, t.at, k, t.o, IF k = m THEN Max({Len(@), t.at + m}) ELSE Len(@))]
     /\ unlogged' = IF k = m THEN unlogged \ {b.addr} ELSE IF k > 0 THEN unlogged \cup {b.addr} ELSE unlogged
     /\ th' = [th EXCEPT ![p] = IF k = m THEN [@ EXCEPT !.at = @ + m, !.tot = @ + m, !.log = b.s.log \cup {Data(b.addr)}]
                                ELSE [@ EXCEPT !.pc = "short", !.log = b.s.log]]
     /\ UNCHANGED <<off, lk>>

(* The end of writei(): the size, iupdate(); f->off += r; iunlock(); end_op(). *)
WriteEnd(p) ==
  LET t == th[p]  f == FileOf(t.o)  left == t.left - t.n1 IN
  /\ t.pc = "short" \/ (t.pc = "writei" /\ t.tot = t.n1)
  /\ ino' = [ino EXCEPT ![f].size = Max({@, t.at})]
  /\ off' = [off EXCEPT ![t.o] = @ + t.tot]
  /\ lk' = [lk EXCEPT ![f] = Nobody]
  /\ th' = [th EXCEPT ![p] = IF t.pc = "short" \/ left = 0 THEN Idle
                             ELSE [pc |-> "chunk", o |-> t.o, left |-> left]]
  /\ UNCHANGED <<used, blk, unlogged, want>>

Next ==
  \/ \E o \in Opens, n \in Sizes : Read(o, n)
  \/ \E f \in Files : Trunc(f)
  \/ \E p \in Procs : \/ \E o \in Opens, n \in Sizes : Write(p, o, n)
                      \/ Chunk(p) \/ (\E k \in 0..BSIZE : WriteTurn(p, k)) \/ WriteEnd(p)

Spec == Init /\ [][Next]_vars

-----------------------------------------------------------------------------
(* read() returns the bytes that programs wrote, at every offset and across    *)
(* block boundaries, and its bmap() calls never allocate: a file has no holes, *)
(* so a read changes nothing although it runs outside a transaction.           *)
ReadsRight ==
  \A f \in {g \in Files : lk[g] = Nobody}, o \in 0..(MAXFILE * BSIZE), n \in {1, MAXFILE * BSIZE} :
    LET r == ReadI(Now, f, o, n) IN
    r.s = Now /\ r.out = SubSeq(want[f], o + 1, Min({o + n, Len(want[f])}))

Indirect(f) == IF ino[f].addrs[NDIRECT] = 0 THEN {} ELSE {blk[ino[f].addrs[NDIRECT]][j] : j \in 0..(NINDIRECT - 1)}
Reached(f) == ({ino[f].addrs[i] : i \in 0..NDIRECT} \cup Indirect(f)) \ {0}
Pointers(f) ==
  LET a == ino[f].addrs IN
  Cardinality({i \in 0..NDIRECT : a[i] # 0})
    + (IF a[NDIRECT] = 0 THEN 0 ELSE Cardinality({j \in 0..(NINDIRECT - 1) : blk[a[NDIRECT]][j] # 0}))

(* The bitmap marks exactly the blocks that files point to, and no block has   *)
(* two pointers: blocks are neither leaked nor shared, also when a write is    *)
(* cut short after bmap() has allocated, or a file is truncated in between.    *)
BlocksExact ==
  /\ used = UNION {Reached(f) : f \in Files}
  /\ Cardinality(used) = MapThenSumSet(Pointers, Files)

(* One transaction of filewrite() logs no more blocks than it has reserved,    *)
(* the inode included, wherever it starts and however the bits of the blocks   *)
(* it allocates are spread over the bitmap: "including i-node, indirect block, *)
(* allocation blocks, and 2 blocks of slop for non-aligned writes".            *)
OpFits == \A p \in Procs : th[p].pc \in {"writei", "short"} => Cardinality(th[p].log) + 1 <= MAXOPBLOCKS

(* A block whose contents have changed in the buffer cache has been passed to  *)
(* log_write() by the time its file is unlocked.                               *)
ChangesLogged == (\A f \in Files : lk[f] = Nobody) => unlogged = {}

(* The state without the contents of free blocks, which balloc() clears. *)
Live == <<used, [b \in used |-> blk[b]], ino, off, lk, th, unlogged, want>>
=============================================================================
