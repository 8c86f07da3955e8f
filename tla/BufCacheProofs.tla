--------------------------- MODULE BufCacheProofs ---------------------------
(***************************************************************************)
(* Proofs about BufCache: its invariant (module BufCacheInv) is inductive, *)
(* and the cache is coherent, for every finite set of threads, every       *)
(* number of buffers, blocks and pins, and any contents of the blocks.     *)
(***************************************************************************)
EXTENDS BufCacheInv, Integers, WellFoundedInduction, FiniteSetTheorems, TLAPS

USE ZenonT(60) DEF bufVars, ioVars, Goto, Held, Owner, Using, Retry, Wakened, Dropped,
                   Recyclable, Cached

(* The layers of the invariant, one by one. *)
LEMMA Layers ==
  ASSUME IInv
  PROVE  /\ TypeOK /\ ListInv /\ WantInv /\ OneBufferPerBlock /\ RefcntCounts
         /\ HolderInv /\ NoLostWakeup /\ DirtyInv /\ DataInv /\ PinInv /\ EnoughBuffers
BY DEF IInv

-----------------------------------------------------------------------------
(* What bget() does on a miss *)

(* No buffer is unused: bget() panics. *)
MissPanic(p) ==
  /\ pc[p] = "idle" /\ \A b \in Bufs : ~Recyclable(b)
  /\ Goto(p, "panic") /\ UNCHANGED <<bufVars, ioVars, holder, pinned, want, buf>>

(* bget() recycles buffer b for block n. *)
Recycle(p, n, b) ==
  /\ pc[p] = "idle" /\ ~Cached(n) /\ Recyclable(b)
  /\ blockno' = [blockno EXCEPT ![b] = n]
  /\ valid' = [valid EXCEPT ![b] = FALSE]
  /\ refcnt' = [refcnt EXCEPT ![b] = 1]
  /\ want' = [want EXCEPT ![p] = n] /\ buf' = [buf EXCEPT ![p] = b]
  /\ Goto(p, "lock")
  /\ UNCHANGED <<lru, data, disk, cur, dirty, holder, pinned>>

(* A set of numbers has a smallest one. *)
LEMMA Smallest ==
  ASSUME NEW T \in SUBSET Nat, T # {}
  PROVE  \E k \in T : \A m \in T : k <= m
<1>1. \E k \in T : \A m \in T : <<m, k>> \notin OpToRel(<, Nat)
  BY NatLessThanWellFounded, WFMin
<1>2. PICK k \in T : \A m \in T : <<m, k>> \notin OpToRel(<, Nat)
  BY <1>1
<1>3. ASSUME NEW m \in T PROVE k <= m
  <2>1. ~(m < k)
    BY <1>2 DEF OpToRel
  <2> QED  BY <2>1, SMTT(30)
<1> QED  BY <1>3

(* The backward scan of bget() stops at a buffer: some unused one is the last of the list. *)
LEMMA LastUnused ==
  ASSUME CacheAssumption, NEW R \in SUBSET Bufs, R # {}
  PROVE  \E i \in R : \A j \in Bufs : j > i => j \notin R
<1> DEFINE T == {k \in Nat : NBUF - k \in R}
<1>1. NBUF \in Nat
  BY DEF CacheAssumption
<1>2. T \in SUBSET Nat /\ T # {}
  <2>1. PICK i \in Bufs : i \in R
    OBVIOUS
  <2>2. NBUF - i \in Nat /\ NBUF - (NBUF - i) = i
    BY <1>1, <2>1, SMTT(30) DEF Bufs
  <2>3. NBUF - i \in T
    BY <2>1, <2>2
  <2> QED  BY <2>3
<1>3. PICK k \in T : \A m \in T : k <= m
  BY <1>2, Smallest
<1>4. NBUF - k \in R
  BY <1>3
<1>5. ASSUME NEW j \in Bufs, j > NBUF - k, j \in R
      PROVE  FALSE
  <2>1. NBUF - j \in Nat /\ NBUF - (NBUF - j) = j /\ k \in Nat
    BY <1>1, <1>3, SMTT(30) DEF Bufs
  <2>2. NBUF - j \in T
    BY <1>5, <2>1
  <2>3. k <= NBUF - j
    BY <1>3, <2>2
  <2> QED  BY <1>1, <1>5, <2>1, <2>3, SMTT(30) DEF Bufs
<1> QED  BY <1>4, <1>5

(* bget() panics, or recycles a buffer that nobody refers to. *)
LEMMA Miss ==
  ASSUME CacheAssumption, TypeOK, ListInv, NEW p \in Procs, NEW n \in Blocks, BgetMiss(p, n)
  PROVE  MissPanic(p) \/ \E b \in Bufs : Recycle(p, n, b)
<1>1. CASE \A b \in Bufs : ~Recyclable(b)
  BY <1>1 DEF BgetMiss, MissPanic
<1>2. CASE ~ \A b \in Bufs : ~Recyclable(b)
  <2> DEFINE R == {i \in Bufs : Recyclable(lru[i])}
             Last(i) == Recyclable(lru[i]) /\ \A j \in Bufs : j > i => ~Recyclable(lru[j])
             at == CHOOSE i \in Bufs : Last(i)
  <2>1. R # {}
    BY <1>2 DEF ListInv
  <2>2. \E i \in R : \A j \in Bufs : j > i => j \notin R
    BY <2>1, LastUnused
  <2>3. \E i \in Bufs : Last(i)
    BY <2>2
  <2>4. at \in Bufs /\ Last(at)
    BY <2>3
  <2>5. lru[at] \in Bufs /\ Recyclable(lru[at])
    BY <2>4 DEF TypeOK
  <2>6. Recycle(p, n, lru[at])
    BY <1>2, <2>5 DEF BgetMiss, Recycle
  <2> QED  BY <2>5, <2>6
<1> QED  BY <1>1, <1>2

-----------------------------------------------------------------------------
(* Every step keeps every layer *)

(* A step of thread p, with the two outcomes of a miss apart. *)
Move(p) ==
  \/ MissPanic(p) \/ (\E n \in Blocks, b \in Bufs : Recycle(p, n, b) \/ BgetHit(p, n, b))
  \/ AcquireSleep(p) \/ BreadStart(p) \/ BreadDone(p) \/ BwriteDone(p) \/ ReleaseSleep(p)
  \/ Unref(p) \/ BwriteStart(p) \/ Bpin(p) \/ Bunpin(p) \/ (\E v \in Vals : Modify(p, v))

(* Every step of the cache is such a step. *)
LEMMA Moves ==
  ASSUME CacheAssumption, IInv, [Next]_vars
  PROVE  UNCHANGED vars \/ \E p \in Procs : Move(p)
<1>1. ASSUME NEW p \in Procs, NEW n \in Blocks, BgetMiss(p, n)
      PROVE  Move(p)
  BY <1>1, Layers, Miss DEF Move
<1>2. ASSUME NEW p \in Procs, NEW n \in Blocks, NEW b \in Bufs, BgetHit(p, n, b)
      PROVE  Move(p)
  BY <1>2 DEF Move
<1>3. ASSUME NEW p \in Procs,
             Step(p) \/ BwriteStart(p) \/ Bpin(p) \/ Bunpin(p) \/ \E v \in Vals : Modify(p, v)
      PROVE  Move(p)
  BY <1>3 DEF Move, Step
<1> QED  BY <1>1, <1>2, <1>3 DEF Next

(* Unlinking a buffer and putting it in front loses none. *)
LEMMA FrontKeeps ==
  ASSUME CacheAssumption, TypeOK, ListInv, NEW b \in Bufs
  PROVE  /\ ToFront(b) \in [Bufs -> Bufs]
         /\ \A c \in Bufs : \E i \in Bufs : ToFront(b)[i] = c
<1> DEFINE at == CHOOSE i \in Bufs : lru[i] = b
           F == [i \in Bufs |-> IF i = 1 THEN b ELSE IF i <= at THEN lru[i - 1] ELSE lru[i]]
<1>1. ToFront(b) = F
  BY DEF ToFront
<1>2. at \in Bufs /\ lru[at] = b
  BY DEF ListInv
<1>3. NBUF \in Nat \ {0} /\ lru \in [Bufs -> Bufs] /\ Bufs = 1..NBUF
  BY DEF CacheAssumption, TypeOK, Bufs
<1> HIDE DEF at
<1>4. ASSUME NEW i \in Bufs PROVE F[i] \in Bufs
  <2>1. i # 1 => i - 1 \in Bufs
    BY <1>3, SMTT(30)
  <2> QED  BY <1>3, <2>1
<1>5. ASSUME NEW c \in Bufs PROVE \E i \in Bufs : F[i] = c
  <2>1. CASE c = b
    <3>1. 1 \in Bufs /\ F[1] = b
      BY <1>3, SMTT(30)
    <3> QED  BY <2>1, <3>1
  <2>2. CASE c # b
    <3>1. PICK i \in Bufs : lru[i] = c
      BY DEF ListInv
    <3>2. i # at
      BY <1>2, <2>2, <3>1
    <3>3. CASE i < at
      <4>1. i + 1 \in Bufs /\ i + 1 # 1 /\ i + 1 <= at /\ (i + 1) - 1 = i
        BY <1>2, <1>3, <3>3, SMTT(30)
      <4>2. F[i + 1] = lru[i]
        BY <4>1
      <4> QED  BY <3>1, <4>1, <4>2
    <3>4. CASE i > at
      <4>1. i # 1 /\ ~(i <= at)
        BY <1>2, <1>3, <3>4, SMTT(30)
      <4> QED  BY <3>1, <4>1
    <3> QED  BY <1>2, <1>3, <3>2, <3>3, <3>4, SMTT(30)
  <2> QED  BY <2>1, <2>2
<1>6. F \in [Bufs -> Bufs]
  BY <1>4
<1> QED  BY <1>1, <1>5, <1>6

(* Who uses a buffer is counted in its refcnt: an unused one has no user and no pin. *)
LEMMA Unused ==
  ASSUME CacheAssumption, TypeOK, RefcntCounts, NEW b \in Bufs
  PROVE  /\ IsFiniteSet(Users(b)) /\ Cardinality(Users(b)) \in Nat
         /\ refcnt[b] = 0 => Users(b) = {} /\ b \notin pinned
         /\ b \in pinned => refcnt[b] > Cardinality(Users(b))
         /\ \A p \in Users(b) : refcnt[b] > 0
<1>1. IsFiniteSet(Users(b)) /\ Cardinality(Users(b)) \in Nat
  <2>1. Users(b) \in SUBSET Procs /\ IsFiniteSet(Procs)
    BY DEF Users, CacheAssumption
  <2> QED  BY <2>1, FS_Subset, FS_CardinalityType
<1>2. Cardinality(Users(b)) = 0 <=> Users(b) = {}
  BY <1>1, FS_EmptySet
<1>3. refcnt[b] = Cardinality(Users(b)) + (IF b \in pinned THEN 1 ELSE 0)
  BY DEF RefcntCounts
<1> QED  BY <1>1, <1>2, <1>3, SMTT(30)

(* bio.c keeps the types; no refcnt drops below 0. *)
LEMMA TypeStep ==
  ASSUME CacheAssumption, IInv, [Next]_vars
  PROVE  TypeOK'
<1>1. CASE UNCHANGED vars
  BY <1>1, Layers DEF vars, TypeOK
<1>2. ASSUME NEW p \in Procs, Move(p)
      PROVE  TypeOK'
  <2>1. CASE MissPanic(p)
    BY <2>1, Layers DEF MissPanic, TypeOK, Labels
  <2>2. ASSUME NEW n \in Blocks, NEW b \in Bufs, Recycle(p, n, b)
         PROVE  TypeOK'
    BY <2>2, Layers DEF Recycle, TypeOK, Labels
  <2>3. ASSUME NEW n \in Blocks, NEW b \in Bufs, BgetHit(p, n, b)
         PROVE  TypeOK'
    BY <2>3, Layers, SMTT(30) DEF BgetHit, TypeOK, Labels
  <2>4. CASE AcquireSleep(p)
    BY <2>4, Layers, SMTT(30) DEF AcquireSleep, TypeOK, Labels
  <2>5. CASE BreadStart(p)
    BY <2>5, Layers DEF BreadStart, TypeOK, Labels
  <2>6. CASE BreadDone(p)
    BY <2>6, Layers DEF BreadDone, TypeOK, Labels, WantInv
  <2>7. CASE BwriteDone(p)
    BY <2>7, Layers DEF BwriteDone, TypeOK, Labels
  <2>8. CASE ReleaseSleep(p)
    BY <2>8, Layers DEF ReleaseSleep, TypeOK, Labels
  <2>9. CASE Unref(p)
    <3>1. buf[p] \in Bufs /\ p \in Users(buf[p])
      BY <2>9, Layers DEF Unref, TypeOK, Users
    <3>2. refcnt[buf[p]] \in Nat \ {0}
      BY <3>1, Layers, Unused DEF TypeOK
    <3>3. refcnt' \in [Bufs -> Nat]
      BY <2>9, <3>1, <3>2, Layers, SMTT(30) DEF Unref, TypeOK
    <3>4. lru' \in [Bufs -> Bufs]
      BY <2>9, <3>1, Layers, FrontKeeps DEF Unref, TypeOK
    <3> QED  BY <2>9, <3>3, <3>4, Layers DEF Unref, TypeOK, Labels
  <2>10. CASE BwriteStart(p)
    BY <2>10, Layers DEF BwriteStart, TypeOK, Labels
  <2>11. CASE Bpin(p)
    BY <2>11, Layers, SMTT(30) DEF Bpin, TypeOK, Labels
  <2>12. CASE Bunpin(p)
    <3>1. buf[p] \in Bufs /\ p \in Users(buf[p])
      BY <2>12, Layers DEF Bunpin, TypeOK, Users
    <3>2. refcnt[buf[p]] \in Nat \ {0}
      BY <3>1, Layers, Unused DEF TypeOK
    <3>3. refcnt' = [refcnt EXCEPT ![buf[p]] = refcnt[buf[p]] - 1] /\ refcnt[buf[p]] - 1 \in Nat
      BY <2>12, <3>2, SMTT(30) DEF Bunpin
    <3>4. refcnt' \in [Bufs -> Nat]
      BY <3>1, <3>3, Layers DEF TypeOK
    <3> QED  BY <2>12, <3>4, Layers DEF Bunpin, TypeOK, Labels
  <2>13. ASSUME NEW v \in Vals, Modify(p, v)
          PROVE  TypeOK'
    BY <2>13, Layers DEF Modify, TypeOK, Labels
  <2> QED
    BY <1>2, <2>1, <2>2, <2>3, <2>4, <2>5, <2>6, <2>7, <2>8, <2>9, <2>10, <2>11, <2>12, <2>13
       DEF Move
<1> QED  BY <1>1, <1>2, Moves

(* The list of buffers keeps every buffer. *)
LEMMA ListStep ==
  ASSUME CacheAssumption, IInv, [Next]_vars
  PROVE  ListInv'
<1>1. CASE UNCHANGED vars
  BY <1>1, Layers DEF vars, ListInv
<1>2. ASSUME NEW p \in Procs, Move(p)
      PROVE  ListInv'
  <2>1. CASE MissPanic(p)
    BY <2>1, Layers DEF MissPanic, ListInv, TypeOK
  <2>2. ASSUME NEW n \in Blocks, NEW b \in Bufs, Recycle(p, n, b)
         PROVE  ListInv'
    BY <2>2, Layers DEF Recycle, ListInv, TypeOK
  <2>3. ASSUME NEW n \in Blocks, NEW b \in Bufs, BgetHit(p, n, b)
         PROVE  ListInv'
    BY <2>3, Layers DEF BgetHit, ListInv, TypeOK
  <2>4. CASE AcquireSleep(p)
    BY <2>4, Layers DEF AcquireSleep, ListInv, TypeOK
  <2>5. CASE BreadStart(p)
    BY <2>5, Layers DEF BreadStart, ListInv, TypeOK
  <2>6. CASE BreadDone(p)
    BY <2>6, Layers DEF BreadDone, ListInv, TypeOK
  <2>7. CASE BwriteDone(p)
    BY <2>7, Layers DEF BwriteDone, ListInv, TypeOK
  <2>8. CASE ReleaseSleep(p)
    BY <2>8, Layers DEF ReleaseSleep, ListInv, TypeOK
  <2>9. CASE Unref(p)
    <3>1. buf[p] \in Bufs
      BY <2>9, Layers DEF Unref, TypeOK
    <3>2. CASE refcnt[buf[p]] = 1
      <4>1. lru' = ToFront(buf[p])
        BY <2>9, <3>2 DEF Unref
      <4> QED  BY <3>1, <4>1, Layers, FrontKeeps DEF ListInv
    <3>3. CASE refcnt[buf[p]] # 1
      BY <2>9, <3>3, Layers DEF Unref, ListInv
    <3> QED  BY <3>2, <3>3
  <2>10. CASE BwriteStart(p)
    BY <2>10, Layers DEF BwriteStart, ListInv, TypeOK
  <2>11. CASE Bpin(p)
    BY <2>11, Layers DEF Bpin, ListInv, TypeOK
  <2>12. CASE Bunpin(p)
    BY <2>12, Layers DEF Bunpin, ListInv, TypeOK
  <2>13. ASSUME NEW v \in Vals, Modify(p, v)
          PROVE  ListInv'
    BY <2>13, Layers DEF Modify, ListInv, TypeOK
  <2> QED
    BY <1>2, <2>1, <2>2, <2>3, <2>4, <2>5, <2>6, <2>7, <2>8, <2>9, <2>10, <2>11, <2>12, <2>13
       DEF Move
<1> QED  BY <1>1, <1>2, Moves

(* A buffer in use is not given to another block. *)
LEMMA WantStep ==
  ASSUME CacheAssumption, IInv, [Next]_vars
  PROVE  WantInv'
<1>1. CASE UNCHANGED vars
  BY <1>1, Layers DEF vars, WantInv
<1>2. ASSUME NEW p \in Procs, Move(p)
      PROVE  WantInv'
  <2>1. CASE MissPanic(p)
    BY <2>1, Layers DEF MissPanic, WantInv, TypeOK
  <2>2. ASSUME NEW n \in Blocks, NEW b \in Bufs, Recycle(p, n, b)
         PROVE  WantInv'
    <3>1. Users(b) = {}
      BY <2>2, Layers, Unused DEF Recycle
    <3> QED  BY <2>2, <3>1, Layers DEF Recycle, WantInv, TypeOK, Users
  <2>3. ASSUME NEW n \in Blocks, NEW b \in Bufs, BgetHit(p, n, b)
         PROVE  WantInv'
    BY <2>3, Layers DEF BgetHit, WantInv, TypeOK
  <2>4. CASE AcquireSleep(p)
    BY <2>4, Layers DEF AcquireSleep, WantInv, TypeOK
  <2>5. CASE BreadStart(p)
    BY <2>5, Layers DEF BreadStart, WantInv, TypeOK
  <2>6. CASE BreadDone(p)
    BY <2>6, Layers DEF BreadDone, WantInv, TypeOK
  <2>7. CASE BwriteDone(p)
    BY <2>7, Layers DEF BwriteDone, WantInv, TypeOK
  <2>8. CASE ReleaseSleep(p)
    BY <2>8, Layers DEF ReleaseSleep, WantInv, TypeOK
  <2>9. CASE Unref(p)
    BY <2>9, Layers DEF Unref, WantInv, TypeOK
  <2>10. CASE BwriteStart(p)
    BY <2>10, Layers DEF BwriteStart, WantInv, TypeOK
  <2>11. CASE Bpin(p)
    BY <2>11, Layers DEF Bpin, WantInv, TypeOK
  <2>12. CASE Bunpin(p)
    BY <2>12, Layers DEF Bunpin, WantInv, TypeOK
  <2>13. ASSUME NEW v \in Vals, Modify(p, v)
          PROVE  WantInv'
    BY <2>13, Layers DEF Modify, WantInv, TypeOK
  <2> QED
    BY <1>2, <2>1, <2>2, <2>3, <2>4, <2>5, <2>6, <2>7, <2>8, <2>9, <2>10, <2>11, <2>12, <2>13
       DEF Move
<1> QED  BY <1>1, <1>2, Moves

(* The lookup and the recycling of bget() are one critical section. *)
LEMMA OneBufferStep ==
  ASSUME CacheAssumption, IInv, [Next]_vars
  PROVE  OneBufferPerBlock'
<1>1. CASE UNCHANGED vars
  BY <1>1, Layers DEF vars, OneBufferPerBlock
<1>2. ASSUME NEW p \in Procs, Move(p)
      PROVE  OneBufferPerBlock'
  <2>1. CASE MissPanic(p)
    BY <2>1, Layers DEF MissPanic, OneBufferPerBlock, TypeOK
  <2>2. ASSUME NEW n \in Blocks, NEW b \in Bufs, Recycle(p, n, b)
         PROVE  OneBufferPerBlock'
    BY <2>2, Layers DEF Recycle, OneBufferPerBlock, TypeOK
  <2>3. ASSUME NEW n \in Blocks, NEW b \in Bufs, BgetHit(p, n, b)
         PROVE  OneBufferPerBlock'
    BY <2>3, Layers DEF BgetHit, OneBufferPerBlock, TypeOK
  <2>4. CASE AcquireSleep(p)
    BY <2>4, Layers DEF AcquireSleep, OneBufferPerBlock, TypeOK
  <2>5. CASE BreadStart(p)
    BY <2>5, Layers DEF BreadStart, OneBufferPerBlock, TypeOK
  <2>6. CASE BreadDone(p)
    BY <2>6, Layers DEF BreadDone, OneBufferPerBlock, TypeOK
  <2>7. CASE BwriteDone(p)
    BY <2>7, Layers DEF BwriteDone, OneBufferPerBlock, TypeOK
  <2>8. CASE ReleaseSleep(p)
    BY <2>8, Layers DEF ReleaseSleep, OneBufferPerBlock, TypeOK
  <2>9. CASE Unref(p)
    BY <2>9, Layers DEF Unref, OneBufferPerBlock, TypeOK
  <2>10. CASE BwriteStart(p)
    BY <2>10, Layers DEF BwriteStart, OneBufferPerBlock, TypeOK
  <2>11. CASE Bpin(p)
    BY <2>11, Layers DEF Bpin, OneBufferPerBlock, TypeOK
  <2>12. CASE Bunpin(p)
    BY <2>12, Layers DEF Bunpin, OneBufferPerBlock, TypeOK
  <2>13. ASSUME NEW v \in Vals, Modify(p, v)
          PROVE  OneBufferPerBlock'
    BY <2>13, Layers DEF Modify, OneBufferPerBlock, TypeOK
  <2> QED
    BY <1>2, <2>1, <2>2, <2>3, <2>4, <2>5, <2>6, <2>7, <2>8, <2>9, <2>10, <2>11, <2>12, <2>13
       DEF Move
<1> QED  BY <1>1, <1>2, Moves

(* acquiresleep() and releasesleep(): one owner of a buffer at a time. *)
LEMMA HolderStep ==
  ASSUME CacheAssumption, IInv, [Next]_vars
  PROVE  HolderInv'
<1>1. CASE UNCHANGED vars
  BY <1>1, Layers DEF vars, HolderInv
<1>2. ASSUME NEW p \in Procs, Move(p)
      PROVE  HolderInv'
  <2>1. CASE MissPanic(p)
    BY <2>1, Layers DEF MissPanic, HolderInv, TypeOK
  <2>2. ASSUME NEW n \in Blocks, NEW b \in Bufs, Recycle(p, n, b)
         PROVE  HolderInv'
    BY <2>2, Layers, SMTT(30) DEF Recycle, HolderInv, TypeOK
  <2>3. ASSUME NEW n \in Blocks, NEW b \in Bufs, BgetHit(p, n, b)
         PROVE  HolderInv'
    BY <2>3, Layers, SMTT(30) DEF BgetHit, HolderInv, TypeOK
  <2>4. CASE AcquireSleep(p)
    <3>1. p \in Procs /\ buf[p] \in Bufs /\ pc[p] = "lock" /\ buf' = buf
      BY <2>4, Layers DEF AcquireSleep, TypeOK
    <3>2. CASE holder[buf[p]] # {}
      <4>1. pc' = [pc EXCEPT ![p] = "asleep"] /\ holder' = holder
        BY <2>4, <3>2 DEF AcquireSleep
      <4> QED  BY <3>1, <4>1, Layers DEF HolderInv, TypeOK
    <3>3. CASE holder[buf[p]] = {}
      <4>1. pc' = [pc EXCEPT ![p] = "locked"] /\ holder' = [holder EXCEPT ![buf[p]] = {p}]
        BY <2>4, <3>3 DEF AcquireSleep
      <4>2. pc'[p] = "locked" /\ \A q \in Procs : q # p => pc'[q] = pc[q]
        BY <4>1, Layers DEF TypeOK
      <4>3. holder'[buf[p]] = {p} /\ \A b \in Bufs : b # buf[p] => holder'[b] = holder[b]
        BY <3>1, <4>1, Layers DEF TypeOK
      <4>4. \A q \in Procs : ~(Owner(q) /\ buf[q] = buf[p])
        BY <3>1, <3>3, Layers, SMTT(30) DEF HolderInv
      <4>5. ASSUME NEW q \in Procs, NEW b \in Bufs
            PROVE  holder'[b] = {q} <=> Owner(q)' /\ buf'[q] = b
        BY <3>1, <4>2, <4>3, <4>4, Layers, SMTT(30) DEF HolderInv
      <4> QED  BY <4>5 DEF HolderInv
    <3> QED  BY <3>2, <3>3
  <2>5. CASE BreadStart(p)
    BY <2>5, Layers DEF BreadStart, HolderInv, TypeOK
  <2>6. CASE BreadDone(p)
    BY <2>6, Layers DEF BreadDone, HolderInv, TypeOK
  <2>7. CASE BwriteDone(p)
    BY <2>7, Layers DEF BwriteDone, HolderInv, TypeOK
  <2>8. CASE ReleaseSleep(p)
    <3>1. p \in Procs /\ buf[p] \in Bufs /\ pc[p] = "have" /\ buf' = buf
      BY <2>8, Layers DEF ReleaseSleep, TypeOK
    <3>2. holder'[buf[p]] = {} /\ \A b \in Bufs : b # buf[p] => holder'[b] = holder[b]
      BY <2>8, <3>1, Layers DEF ReleaseSleep, TypeOK
    <3>3. pc'[p] = "unref" /\ \A q \in Procs : q # p => (Owner(q)' <=> Owner(q))
      BY <2>8 DEF ReleaseSleep
    <3>4. \A q \in Procs : q # p => ~(Owner(q) /\ buf[q] = buf[p])
      BY <3>1, Layers, SMTT(30) DEF HolderInv
    <3>5. ASSUME NEW q \in Procs, NEW b \in Bufs
          PROVE  holder'[b] = {q} <=> Owner(q)' /\ buf'[q] = b
      BY <3>1, <3>2, <3>3, <3>4, Layers, SMTT(30) DEF HolderInv
    <3> QED  BY <3>5 DEF HolderInv
  <2>9. CASE Unref(p)
    BY <2>9, Layers DEF Unref, HolderInv, TypeOK
  <2>10. CASE BwriteStart(p)
    BY <2>10, Layers DEF BwriteStart, HolderInv, TypeOK
  <2>11. CASE Bpin(p)
    BY <2>11, Layers DEF Bpin, HolderInv, TypeOK
  <2>12. CASE Bunpin(p)
    BY <2>12, Layers DEF Bunpin, HolderInv, TypeOK
  <2>13. ASSUME NEW v \in Vals, Modify(p, v)
          PROVE  HolderInv'
    BY <2>13, Layers DEF Modify, HolderInv, TypeOK
  <2> QED
    BY <1>2, <2>1, <2>2, <2>3, <2>4, <2>5, <2>6, <2>7, <2>8, <2>9, <2>10, <2>11, <2>12, <2>13
       DEF Move
<1> QED  BY <1>1, <1>2, Moves

(* releasesleep() wakes everyone who found the lock taken. *)
LEMMA WakeupStep ==
  ASSUME CacheAssumption, IInv, [Next]_vars
  PROVE  NoLostWakeup'
<1>1. CASE UNCHANGED vars
  BY <1>1, Layers DEF vars, NoLostWakeup
<1>2. ASSUME NEW p \in Procs, Move(p)
      PROVE  NoLostWakeup'
  <2>1. CASE MissPanic(p)
    BY <2>1, Layers DEF MissPanic, NoLostWakeup, HolderInv, TypeOK
  <2>2. ASSUME NEW n \in Blocks, NEW b \in Bufs, Recycle(p, n, b)
         PROVE  NoLostWakeup'
    BY <2>2, Layers DEF Recycle, NoLostWakeup, HolderInv, TypeOK
  <2>3. ASSUME NEW n \in Blocks, NEW b \in Bufs, BgetHit(p, n, b)
         PROVE  NoLostWakeup'
    BY <2>3, Layers DEF BgetHit, NoLostWakeup, HolderInv, TypeOK
  <2>4. CASE AcquireSleep(p)
    BY <2>4, Layers, SMTT(30) DEF AcquireSleep, NoLostWakeup, HolderInv, TypeOK
  <2>5. CASE BreadStart(p)
    BY <2>5, Layers DEF BreadStart, NoLostWakeup, HolderInv, TypeOK
  <2>6. CASE BreadDone(p)
    BY <2>6, Layers DEF BreadDone, NoLostWakeup, HolderInv, TypeOK
  <2>7. CASE BwriteDone(p)
    BY <2>7, Layers DEF BwriteDone, NoLostWakeup, HolderInv, TypeOK
  <2>8. CASE ReleaseSleep(p)
    BY <2>8, Layers DEF ReleaseSleep, NoLostWakeup, HolderInv, TypeOK
  <2>9. CASE Unref(p)
    BY <2>9, Layers DEF Unref, NoLostWakeup, HolderInv, TypeOK
  <2>10. CASE BwriteStart(p)
    BY <2>10, Layers DEF BwriteStart, NoLostWakeup, HolderInv, TypeOK
  <2>11. CASE Bpin(p)
    BY <2>11, Layers DEF Bpin, NoLostWakeup, HolderInv, TypeOK
  <2>12. CASE Bunpin(p)
    BY <2>12, Layers DEF Bunpin, NoLostWakeup, HolderInv, TypeOK
  <2>13. ASSUME NEW v \in Vals, Modify(p, v)
          PROVE  NoLostWakeup'
    BY <2>13, Layers DEF Modify, NoLostWakeup, HolderInv, TypeOK
  <2> QED
    BY <1>2, <2>1, <2>2, <2>3, <2>4, <2>5, <2>6, <2>7, <2>8, <2>9, <2>10, <2>11, <2>12, <2>13
       DEF Move
<1> QED  BY <1>1, <1>2, Moves

(* Two threads never own the same buffer. *)
LEMMA OneOwner ==
  ASSUME TypeOK, HolderInv, NEW p \in Procs, NEW q \in Procs, Owner(p), Owner(q), p # q
  PROVE  buf[q] \in Bufs /\ buf[q] # buf[p]
<1>1. buf[p] \in Bufs /\ buf[q] \in Bufs
  BY DEF TypeOK
<1>2. holder[buf[p]] = {p} /\ holder[buf[q]] = {q}
  BY <1>1 DEF HolderInv
<1> QED  BY <1>1, <1>2

(* A changed buffer is pinned or written before it is released, and never read again from the disk. *)
LEMMA DirtyStep ==
  ASSUME CacheAssumption, IInv, [Next]_vars
  PROVE  DirtyInv'
<1>1. CASE UNCHANGED vars
  BY <1>1, Layers DEF vars, DirtyInv
<1>2. ASSUME NEW p \in Procs, Move(p)
      PROVE  DirtyInv'
  <2>1. CASE MissPanic(p)
    BY <2>1, Layers DEF MissPanic, DirtyInv, TypeOK
  <2>2. ASSUME NEW n \in Blocks, NEW b \in Bufs, Recycle(p, n, b)
         PROVE  DirtyInv'
    <3>1. Users(b) = {} /\ b \notin pinned
      BY <2>2, Layers, Unused DEF Recycle
    <3>2. b \notin dirty
      BY <3>1, Layers DEF DirtyInv, Users
    <3> QED  BY <2>2, <3>1, <3>2, Layers, SMTT(30) DEF Recycle, DirtyInv, TypeOK, Users
  <2>3. ASSUME NEW n \in Blocks, NEW b \in Bufs, BgetHit(p, n, b)
         PROVE  DirtyInv'
    BY <2>3, Layers DEF BgetHit, DirtyInv, TypeOK
  <2>4. CASE AcquireSleep(p)
    BY <2>4, Layers, SMTT(30) DEF AcquireSleep, DirtyInv, TypeOK
  <2>5. CASE BreadStart(p)
    BY <2>5, Layers DEF BreadStart, DirtyInv, TypeOK
  <2>6. CASE BreadDone(p)
    <3>1. /\ buf[p] \in Bufs /\ valid' = [valid EXCEPT ![buf[p]] = TRUE] /\ Owner(p)
          /\ pc' = [pc EXCEPT ![p] = "have"] /\ UNCHANGED <<buf, dirty, pinned>>
      BY <2>6, Layers DEF BreadDone, TypeOK
    <3>2. \A b \in Bufs : valid[b] => valid'[b]
      BY <3>1, Layers DEF TypeOK
    <3>3. pc'[p] = "have" /\ valid'[buf[p]] /\ \A q \in Procs : q # p => pc'[q] = pc[q]
      BY <3>1, Layers DEF TypeOK
    <3>4. ASSUME NEW q \in Procs
          PROVE  /\ pc'[q] \in {"have", "writing"} => valid'[buf[q]]
                 /\ pc'[q] = "reading" => ~valid'[buf[q]]
      <4>1. CASE q = p
        BY <3>3, <4>1
      <4>2. CASE q # p
        <5>1. Owner(q) => buf[q] \in Bufs /\ buf[q] # buf[p]
          BY <3>1, <4>2, Layers, OneOwner
        <5> QED  BY <3>1, <3>3, <4>2, <5>1, Layers, SMTT(30) DEF DirtyInv, TypeOK
      <4> QED  BY <4>1, <4>2
    <3>5. ASSUME NEW b \in dirty
          PROVE  valid'[b] /\ (b \in pinned \/ \E q \in Procs : pc'[q] \in {"have", "writing"} /\ buf[q] = b)
      BY <3>2, <3>3, Layers, SMTT(30) DEF DirtyInv, TypeOK
    <3> QED  BY <3>1, <3>4, <3>5 DEF DirtyInv
  <2>7. CASE BwriteDone(p)
    BY <2>7, Layers DEF BwriteDone, DirtyInv, TypeOK, HolderInv
  <2>8. CASE ReleaseSleep(p)
    BY <2>8, Layers, SMTT(30) DEF ReleaseSleep, DirtyInv, TypeOK
  <2>9. CASE Unref(p)
    BY <2>9, Layers DEF Unref, DirtyInv, TypeOK
  <2>10. CASE BwriteStart(p)
    BY <2>10, Layers DEF BwriteStart, DirtyInv, TypeOK
  <2>11. CASE Bpin(p)
    BY <2>11, Layers DEF Bpin, DirtyInv, TypeOK
  <2>12. CASE Bunpin(p)
    BY <2>12, Layers DEF Bunpin, DirtyInv, TypeOK
  <2>13. ASSUME NEW v \in Vals, Modify(p, v)
          PROVE  DirtyInv'
    BY <2>13, Layers, SMTT(30) DEF Modify, DirtyInv, TypeOK, HolderInv
  <2> QED
    BY <1>2, <2>1, <2>2, <2>3, <2>4, <2>5, <2>6, <2>7, <2>8, <2>9, <2>10, <2>11, <2>12, <2>13
       DEF Move
<1> QED  BY <1>1, <1>2, Moves

(* A valid buffer has the latest contents of its block, and so has the disk if the buffer is not changed. *)
LEMMA DataStep ==
  ASSUME CacheAssumption, IInv, [Next]_vars
  PROVE  DataInv'
<1>1. CASE UNCHANGED vars
  BY <1>1, Layers DEF vars, DataInv
<1>2. ASSUME NEW p \in Procs, Move(p)
      PROVE  DataInv'
  <2>1. CASE MissPanic(p)
    BY <2>1, Layers DEF MissPanic, DataInv, TypeOK
  <2>2. ASSUME NEW n \in Blocks, NEW b \in Bufs, Recycle(p, n, b)
         PROVE  DataInv'
    <3>1. Users(b) = {} /\ b \notin pinned
      BY <2>2, Layers, Unused DEF Recycle
    <3>2. b \notin dirty
      BY <3>1, Layers DEF DirtyInv, Users
    <3> QED  BY <2>2, <3>2, Layers, SMTT(30) DEF Recycle, DataInv, TypeOK
  <2>3. ASSUME NEW n \in Blocks, NEW b \in Bufs, BgetHit(p, n, b)
         PROVE  DataInv'
    BY <2>3, Layers DEF BgetHit, DataInv, TypeOK
  <2>4. CASE AcquireSleep(p)
    BY <2>4, Layers DEF AcquireSleep, DataInv, TypeOK
  <2>5. CASE BreadStart(p)
    BY <2>5, Layers DEF BreadStart, DataInv, TypeOK
  <2>6. CASE BreadDone(p)
    <3> DEFINE b == buf[p]
               n == blockno[b]
    <3>1. b \in Bufs /\ n \in Blocks /\ ~valid[b]
      BY <2>6, Layers DEF BreadDone, TypeOK, WantInv, DirtyInv
    <3>2. \A c \in dirty : blockno[c] # n
      BY <3>1, Layers DEF DirtyInv, OneBufferPerBlock, TypeOK, CacheAssumption
    <3>3. disk[n] = cur[n]
      BY <3>1, <3>2, Layers DEF DataInv
    <3>4. /\ data' = [data EXCEPT ![b] = disk[n]] /\ valid' = [valid EXCEPT ![b] = TRUE]
          /\ UNCHANGED <<blockno, disk, cur, dirty>>
      BY <2>6 DEF BreadDone
    <3> QED  BY <3>1, <3>3, <3>4, Layers DEF DataInv, TypeOK
  <2>7. CASE BwriteDone(p)
    BY <2>7, Layers, CacheAssumption, SMTT(30)
       DEF BwriteDone, DataInv, TypeOK, WantInv, DirtyInv, OneBufferPerBlock, CacheAssumption
  <2>8. CASE ReleaseSleep(p)
    BY <2>8, Layers DEF ReleaseSleep, DataInv, TypeOK
  <2>9. CASE Unref(p)
    BY <2>9, Layers DEF Unref, DataInv, TypeOK
  <2>10. CASE BwriteStart(p)
    BY <2>10, Layers DEF BwriteStart, DataInv, TypeOK
  <2>11. CASE Bpin(p)
    BY <2>11, Layers DEF Bpin, DataInv, TypeOK
  <2>12. CASE Bunpin(p)
    BY <2>12, Layers DEF Bunpin, DataInv, TypeOK
  <2>13. ASSUME NEW v \in Vals, Modify(p, v)
          PROVE  DataInv'
    BY <2>13, Layers, SMTT(30) DEF Modify, DataInv, TypeOK, WantInv, DirtyInv, OneBufferPerBlock
  <2> QED
    BY <1>2, <2>1, <2>2, <2>3, <2>4, <2>5, <2>6, <2>7, <2>8, <2>9, <2>10, <2>11, <2>12, <2>13
       DEF Move
<1> QED  BY <1>1, <1>2, Moves

(* b->refcnt counts the users of b and its pin. *)
Counted(b) == refcnt[b] = Cardinality(Users(b)) + (IF b \in pinned THEN 1 ELSE 0)

(* A step that changes none of the users, the count and the pin of a buffer. *)
LEMMA CountSame ==
  ASSUME IInv, NEW b \in Bufs, refcnt'[b] = refcnt[b], b \in pinned' <=> b \in pinned,
         \A q \in Procs : q \in Users(b)' <=> q \in Users(b)
  PROVE  Counted(b)'
<1>1. Users(b)' = Users(b)
  BY DEF Users
<1> QED  BY <1>1, Layers DEF Counted, RefcntCounts

(* Thread p gets a buffer: bget() counts it. *)
LEMMA CountJoin ==
  ASSUME CacheAssumption, IInv, NEW p \in Procs, NEW b \in Bufs, pinned' = pinned,
         pc[p] = "idle", Goto(p, "lock"), buf' = [buf EXCEPT ![p] = b],
         refcnt' = [refcnt EXCEPT ![b] = refcnt[b] + 1]
  PROVE  RefcntCounts'
<1>1. pc'[p] = "lock" /\ buf'[p] = b /\ \A q \in Procs : q # p => pc'[q] = pc[q] /\ buf'[q] = buf[q]
  BY Layers DEF TypeOK
<1>2. refcnt'[b] = refcnt[b] + 1 /\ \A c \in Bufs : c # b => refcnt'[c] = refcnt[c]
  BY Layers DEF TypeOK
<1>3. Counted(b)'
  <2>1. Users(b)' = Users(b) \cup {p} /\ p \notin Users(b)
    BY <1>1 DEF Users
  <2>2. IsFiniteSet(Users(b)) /\ Cardinality(Users(b)) \in Nat
    BY Layers, Unused
  <2>3. Cardinality(Users(b) \cup {p}) = Cardinality(Users(b)) + 1
    BY <2>1, <2>2, FS_AddElement
  <2>4. Cardinality(Users(b)') = Cardinality(Users(b)) + 1
    BY <2>1, <2>3
  <2> QED  BY <1>2, <2>2, <2>4, Layers, SMTT(30) DEF Counted, RefcntCounts
<1>4. ASSUME NEW c \in Bufs, c # b PROVE Counted(c)'
  BY <1>1, <1>2, <1>4, CountSame DEF Users
<1> QED  BY <1>3, <1>4 DEF Counted, RefcntCounts

(* The users of the buffers stay, and one refcnt moves with the pin of its buffer. *)
LEMMA CountPin ==
  ASSUME CacheAssumption, IInv, NEW b \in Bufs, pc' = pc, buf' = buf,
         \/ b \notin pinned /\ pinned' = pinned \cup {b} /\ refcnt' = [refcnt EXCEPT ![b] = @ + 1]
         \/ b \in pinned /\ pinned' = pinned \ {b} /\ refcnt' = [refcnt EXCEPT ![b] = @ - 1]
  PROVE  RefcntCounts'
<1>1. ASSUME NEW c \in Bufs, c # b PROVE Counted(c)'
  <2>1. refcnt'[c] = refcnt[c] /\ (c \in pinned' <=> c \in pinned)
    BY <1>1, Layers DEF TypeOK
  <2>2. \A q \in Procs : q \in Users(c)' <=> q \in Users(c)
    BY DEF Users
  <2> QED  BY <2>1, <2>2, CountSame
<1>2. Counted(b)'
  <2>1. Users(b)' = Users(b)
    BY DEF Users
  <2>2. Cardinality(Users(b)) \in Nat /\ refcnt \in [Bufs -> Nat]
    BY Layers, Unused DEF TypeOK
  <2>3. refcnt[b] = Cardinality(Users(b)) + (IF b \in pinned THEN 1 ELSE 0)
    BY Layers DEF RefcntCounts
  <2>4. refcnt'[b] = Cardinality(Users(b)) + (IF b \in pinned' THEN 1 ELSE 0)
    BY <2>2, <2>3, SMTT(30)
  <2> QED  BY <2>1, <2>4 DEF Counted
<1> QED  BY <1>1, <1>2 DEF Counted, RefcntCounts

(* bget(), brelse(), bpin() and bunpin() count exactly. *)
LEMMA RefcntStep ==
  ASSUME CacheAssumption, IInv, [Next]_vars
  PROVE  RefcntCounts'
<1>1. CASE UNCHANGED vars
  BY <1>1, Layers DEF vars, RefcntCounts, Users
<1>2. ASSUME NEW p \in Procs, Move(p)
      PROVE  RefcntCounts'
  <2>1. CASE MissPanic(p)
    <3>1. refcnt' = refcnt /\ pinned' = pinned /\ \A q \in Procs : (Using(q)' <=> Using(q)) /\ buf'[q] = buf[q]
      BY <2>1, Layers DEF MissPanic, TypeOK
    <3>2. ASSUME NEW c \in Bufs PROVE Counted(c)'
      BY <3>1, CountSame DEF Users
    <3> QED  BY <3>2 DEF Counted, RefcntCounts
  <2>2. ASSUME NEW n \in Blocks, NEW b \in Bufs, Recycle(p, n, b)
         PROVE  RefcntCounts'
    <3>1. refcnt[b] + 1 = 1
      BY <2>2, SMTT(30) DEF Recycle
    <3> QED  BY <2>2, <3>1, CountJoin DEF Recycle
  <2>3. ASSUME NEW n \in Blocks, NEW b \in Bufs, BgetHit(p, n, b)
         PROVE  RefcntCounts'
    BY <2>3, CountJoin DEF BgetHit
  <2>4. CASE AcquireSleep(p)
    <3>1. refcnt' = refcnt /\ pinned' = pinned /\ \A q \in Procs : (Using(q)' <=> Using(q)) /\ buf'[q] = buf[q]
      BY <2>4, Layers DEF AcquireSleep, TypeOK
    <3>2. ASSUME NEW c \in Bufs PROVE Counted(c)'
      BY <3>1, CountSame DEF Users
    <3> QED  BY <3>2 DEF Counted, RefcntCounts
  <2>5. CASE BreadStart(p)
    <3>1. refcnt' = refcnt /\ pinned' = pinned /\ \A q \in Procs : (Using(q)' <=> Using(q)) /\ buf'[q] = buf[q]
      BY <2>5, Layers DEF BreadStart, TypeOK
    <3>2. ASSUME NEW c \in Bufs PROVE Counted(c)'
      BY <3>1, CountSame DEF Users
    <3> QED  BY <3>2 DEF Counted, RefcntCounts
  <2>6. CASE BreadDone(p)
    <3>1. refcnt' = refcnt /\ pinned' = pinned /\ \A q \in Procs : (Using(q)' <=> Using(q)) /\ buf'[q] = buf[q]
      BY <2>6, Layers DEF BreadDone, TypeOK
    <3>2. ASSUME NEW c \in Bufs PROVE Counted(c)'
      BY <3>1, CountSame DEF Users
    <3> QED  BY <3>2 DEF Counted, RefcntCounts
  <2>7. CASE BwriteDone(p)
    <3>1. refcnt' = refcnt /\ pinned' = pinned /\ \A q \in Procs : (Using(q)' <=> Using(q)) /\ buf'[q] = buf[q]
      BY <2>7, Layers DEF BwriteDone, TypeOK
    <3>2. ASSUME NEW c \in Bufs PROVE Counted(c)'
      BY <3>1, CountSame DEF Users
    <3> QED  BY <3>2 DEF Counted, RefcntCounts
  <2>8. CASE ReleaseSleep(p)
    <3>1. refcnt' = refcnt /\ pinned' = pinned /\ \A q \in Procs : (Using(q)' <=> Using(q)) /\ buf'[q] = buf[q]
      BY <2>8, Layers DEF ReleaseSleep, TypeOK
    <3>2. ASSUME NEW c \in Bufs PROVE Counted(c)'
      BY <3>1, CountSame DEF Users
    <3> QED  BY <3>2 DEF Counted, RefcntCounts
  <2>9. CASE Unref(p)
    <3>0. PICK b \in Bufs : b = buf[p]
      BY <2>9, Layers DEF Unref, TypeOK
    <3>1. /\ p \in Users(b) /\ pinned' = pinned
          /\ pc'[p] = "idle" /\ \A q \in Procs : q # p => pc'[q] = pc[q]
          /\ buf' = buf
      BY <2>9, <3>0, Layers DEF Unref, TypeOK, Users
    <3>2. refcnt'[b] = refcnt[b] - 1 /\ \A c \in Bufs : c # b => refcnt'[c] = refcnt[c]
      BY <2>9, <3>0, Layers DEF Unref, TypeOK
    <3>3. Counted(b)'
      <4>1. Users(b)' = Users(b) \ {p}
        BY <3>1 DEF Users
      <4>2. IsFiniteSet(Users(b)) /\ Cardinality(Users(b)) \in Nat
        BY <3>1, Layers, Unused
      <4>3. Cardinality(Users(b) \ {p}) = Cardinality(Users(b)) - 1
        BY <3>1, <4>2, FS_RemoveElement
      <4>4. Cardinality(Users(b)') = Cardinality(Users(b)) - 1
        BY <4>1, <4>3
      <4> QED  BY <3>1, <3>2, <4>2, <4>4, Layers, SMTT(30) DEF Counted, RefcntCounts
    <3>4. ASSUME NEW c \in Bufs, c # b PROVE Counted(c)'
      BY <3>1, <3>2, <3>4, CountSame DEF Users
    <3>5. \A c \in Bufs : Counted(c)'
      BY <3>3, <3>4
    <3> QED  BY <3>5 DEF Counted, RefcntCounts
  <2>10. CASE BwriteStart(p)
    <3>1. refcnt' = refcnt /\ pinned' = pinned /\ \A q \in Procs : (Using(q)' <=> Using(q)) /\ buf'[q] = buf[q]
      BY <2>10, Layers DEF BwriteStart, TypeOK
    <3>2. ASSUME NEW c \in Bufs PROVE Counted(c)'
      BY <3>1, CountSame DEF Users
    <3> QED  BY <3>2 DEF Counted, RefcntCounts
  <2>11. CASE Bpin(p)
    <3>1. buf[p] \in Bufs
      BY <2>11, Layers DEF Bpin, TypeOK
    <3> QED  BY <2>11, <3>1, CountPin DEF Bpin
  <2>12. CASE Bunpin(p)
    <3>1. buf[p] \in Bufs
      BY <2>12, Layers DEF Bunpin, TypeOK
    <3> QED  BY <2>12, <3>1, CountPin DEF Bunpin
  <2>13. ASSUME NEW v \in Vals, Modify(p, v)
          PROVE  RefcntCounts'
    <3>1. refcnt' = refcnt /\ pinned' = pinned /\ \A q \in Procs : (Using(q)' <=> Using(q)) /\ buf'[q] = buf[q]
      BY <2>13, Layers DEF Modify, TypeOK
    <3>2. ASSUME NEW c \in Bufs PROVE Counted(c)'
      BY <3>1, CountSame DEF Users
    <3> QED  BY <3>2 DEF Counted, RefcntCounts
  <2> QED
    BY <1>2, <2>1, <2>2, <2>3, <2>4, <2>5, <2>6, <2>7, <2>8, <2>9, <2>10, <2>11, <2>12, <2>13
       DEF Move
<1> QED  BY <1>1, <1>2, Moves

(* A set with one element more. *)
LEMMA OneMore ==
  ASSUME NEW S, IsFiniteSet(S), NEW x, NEW T, T = S \cup {x}
  PROVE  Cardinality(T) <= Cardinality(S) + 1 /\ Cardinality(T) \in Nat /\ Cardinality(S) \in Nat
<1>1. IsFiniteSet(T) /\ Cardinality(T) = IF x \in S THEN Cardinality(S) ELSE Cardinality(S) + 1
  BY FS_AddElement
<1>2. Cardinality(T) \in Nat /\ Cardinality(S) \in Nat
  BY <1>1, FS_CardinalityType
<1> QED  BY <1>1, <1>2, SMTT(30)

(* A set with one element less. *)
LEMMA OneLess ==
  ASSUME NEW S, IsFiniteSet(S), NEW x, NEW T, T = S \ {x}
  PROVE  Cardinality(T) <= Cardinality(S) /\ Cardinality(T) \in Nat /\ Cardinality(S) \in Nat
<1>1. IsFiniteSet(T) /\ Cardinality(T) = IF x \in S THEN Cardinality(S) - 1 ELSE Cardinality(S)
  BY FS_RemoveElement
<1>2. Cardinality(T) \in Nat /\ Cardinality(S) \in Nat
  BY <1>1, FS_CardinalityType
<1> QED  BY <1>1, <1>2, SMTT(30)

(* The pinned buffers are finitely many. *)
LEMMA PinsFinite ==
  ASSUME CacheAssumption, TypeOK
  PROVE  IsFiniteSet(pinned) /\ IsFiniteSet(Bufs) /\ Cardinality(Bufs) = NBUF
<1>1. IsFiniteSet(Bufs) /\ Cardinality(Bufs) = NBUF
  <2>1. 1 \in Int /\ NBUF \in Int /\ NBUF >= 1
    BY SMTT(30) DEF CacheAssumption
  <2>2. IsFiniteSet(1..NBUF) /\ Cardinality(1..NBUF) = NBUF
    BY <2>1, FS_Interval, SMTT(30)
  <2> QED  BY <2>2 DEF Bufs
<1>2. pinned \in SUBSET Bufs
  BY DEF TypeOK
<1> QED  BY <1>1, <1>2, FS_Subset

(* The log pins no more than it may. *)
LEMMA PinStep ==
  ASSUME CacheAssumption, IInv, [Next]_vars
  PROVE  PinInv'
<1>1. CASE UNCHANGED vars
  BY <1>1, Layers DEF vars, PinInv
<1>2. ASSUME NEW p \in Procs, Move(p)
      PROVE  PinInv'
  <2>1. CASE MissPanic(p)
    BY <2>1, Layers DEF MissPanic, PinInv
  <2>2. ASSUME NEW n \in Blocks, NEW b \in Bufs, Recycle(p, n, b)
         PROVE  PinInv'
    BY <2>2, Layers DEF Recycle, PinInv
  <2>3. ASSUME NEW n \in Blocks, NEW b \in Bufs, BgetHit(p, n, b)
         PROVE  PinInv'
    BY <2>3, Layers DEF BgetHit, PinInv
  <2>4. CASE AcquireSleep(p)
    BY <2>4, Layers DEF AcquireSleep, PinInv
  <2>5. CASE BreadStart(p)
    BY <2>5, Layers DEF BreadStart, PinInv
  <2>6. CASE BreadDone(p)
    BY <2>6, Layers DEF BreadDone, PinInv
  <2>7. CASE BwriteDone(p)
    BY <2>7, Layers DEF BwriteDone, PinInv
  <2>8. CASE ReleaseSleep(p)
    BY <2>8, Layers DEF ReleaseSleep, PinInv
  <2>9. CASE Unref(p)
    BY <2>9, Layers DEF Unref, PinInv
  <2>10. CASE BwriteStart(p)
    BY <2>10, Layers DEF BwriteStart, PinInv
  <2>11. CASE Bpin(p)
    <3>1. IsFiniteSet(pinned) /\ Cardinality(pinned) < MaxPin /\ pinned' = pinned \cup {buf[p]}
      BY <2>11, Layers, PinsFinite DEF Bpin
    <3>2. Cardinality(pinned') <= Cardinality(pinned) + 1 /\ Cardinality(pinned') \in Nat /\ Cardinality(pinned) \in Nat
      BY <3>1, OneMore
    <3>3. MaxPin \in Nat
      BY DEF CacheAssumption
    <3> QED  BY <3>1, <3>2, <3>3, SMTT(30) DEF PinInv
  <2>12. CASE Bunpin(p)
    <3>1. IsFiniteSet(pinned) /\ pinned' = pinned \ {buf[p]}
      BY <2>12, Layers, PinsFinite DEF Bunpin
    <3>2. Cardinality(pinned') <= Cardinality(pinned) /\ Cardinality(pinned') \in Nat /\ Cardinality(pinned) \in Nat
      BY <3>1, OneLess
    <3>3. MaxPin \in Nat
      BY DEF CacheAssumption
    <3> QED  BY <3>2, <3>3, Layers, SMTT(30) DEF PinInv
  <2>13. ASSUME NEW v \in Vals, Modify(p, v)
          PROVE  PinInv'
    BY <2>13, Layers DEF Modify, PinInv
  <2> QED
    BY <1>2, <2>1, <2>2, <2>3, <2>4, <2>5, <2>6, <2>7, <2>8, <2>9, <2>10, <2>11, <2>12, <2>13
       DEF Move
<1> QED  BY <1>1, <1>2, Moves

(* A miss finds a buffer to recycle when there are enough: the users of the  *)
(* buffers are other threads, one buffer each, and the rest is pinned.       *)
LEMMA NoPanicMiss ==
  ASSUME CacheAssumption, IInv, NEW p \in Procs, MissPanic(p)
  PROVE  NBUF < Cardinality(Procs) + MaxPin
<1> DEFINE Q == Procs \ {p}
           B == {buf[q] : q \in Q}
           f == [q \in Q |-> buf[q]]
<1>1. IsFiniteSet(Procs) /\ Cardinality(Procs) \in Nat /\ MaxPin \in Nat
  BY FS_CardinalityType DEF CacheAssumption
<1>2. IsFiniteSet(Q) /\ Cardinality(Q) = Cardinality(Procs) - 1
  BY <1>1, FS_RemoveElement
<1>3. IsFiniteSet(B) /\ Cardinality(B) <= Cardinality(Q)
  <2>1. f \in Surjection(Q, B)
    BY DEF Surjection
  <2> HIDE DEF Q, B, f
  <2> QED  BY <1>2, <2>1, FS_Surjection
<1>4. IsFiniteSet(pinned) /\ Cardinality(pinned) <= MaxPin /\ IsFiniteSet(Bufs) /\ Cardinality(Bufs) = NBUF
  BY Layers, PinsFinite DEF PinInv
<1>5. ASSUME NEW b \in Bufs PROVE b \in B \cup pinned
  <2>1. refcnt[b] # 0
    BY DEF MissPanic
  <2>2. Users(b) # {} \/ b \in pinned
    <3>1. refcnt[b] = Cardinality(Users(b)) + (IF b \in pinned THEN 1 ELSE 0)
      BY Layers DEF RefcntCounts
    <3>2. Users(b) = {} => Cardinality(Users(b)) = 0
      BY FS_EmptySet
    <3> QED  BY <2>1, <3>1, <3>2, SMTT(30)
  <2>3. ASSUME NEW q \in Users(b) PROVE q \in Q /\ buf[q] = b
    BY DEF Users, MissPanic
  <2> QED  BY <2>2, <2>3
<1>6. Bufs \in SUBSET (B \cup pinned)
  BY <1>5
<1> HIDE DEF Q, B, f
<1>7. /\ IsFiniteSet(B \cup pinned)
      /\ Cardinality(B \cup pinned) = Cardinality(B) + Cardinality(pinned) - Cardinality(B \cap pinned)
  BY <1>3, <1>4, FS_Union
<1>8. Cardinality(Bufs) <= Cardinality(B \cup pinned)
  BY <1>6, <1>7, FS_Subset
<1>9. /\ Cardinality(B) \in Nat /\ Cardinality(pinned) \in Nat /\ Cardinality(B \cap pinned) \in Nat
      /\ NBUF \in Nat
  <2>1. IsFiniteSet(B \cap pinned)
    BY <1>3, FS_Intersection
  <2> QED  BY <1>3, <1>4, <2>1, FS_CardinalityType DEF CacheAssumption
<1> QED  BY <1>1, <1>2, <1>3, <1>4, <1>7, <1>8, <1>9, SMTT(30)

(* With enough buffers no bget() panics. *)
LEMMA EnoughStep ==
  ASSUME CacheAssumption, IInv, [Next]_vars
  PROVE  EnoughBuffers'
<1>1. CASE UNCHANGED vars
  BY <1>1, Layers DEF vars, EnoughBuffers
<1>2. ASSUME NEW p \in Procs, Move(p)
      PROVE  EnoughBuffers'
  <2>1. CASE MissPanic(p)
    <3>1. NBUF < Cardinality(Procs) + MaxPin
      BY <2>1, NoPanicMiss
    <3>2. Cardinality(Procs) \in Nat /\ MaxPin \in Nat /\ NBUF \in Nat
      BY FS_CardinalityType DEF CacheAssumption
    <3>3. ~(NBUF >= Cardinality(Procs) + MaxPin)
      BY <3>1, <3>2, SMTT(30)
    <3> QED  BY <3>3 DEF EnoughBuffers
  <2>2. ASSUME NEW n \in Blocks, NEW b \in Bufs, Recycle(p, n, b)
         PROVE  EnoughBuffers'
    BY <2>2, Layers DEF Recycle, EnoughBuffers, TypeOK
  <2>3. ASSUME NEW n \in Blocks, NEW b \in Bufs, BgetHit(p, n, b)
         PROVE  EnoughBuffers'
    BY <2>3, Layers DEF BgetHit, EnoughBuffers, TypeOK
  <2>4. CASE AcquireSleep(p)
    BY <2>4, Layers DEF AcquireSleep, EnoughBuffers, TypeOK
  <2>5. CASE BreadStart(p)
    BY <2>5, Layers DEF BreadStart, EnoughBuffers, TypeOK
  <2>6. CASE BreadDone(p)
    BY <2>6, Layers DEF BreadDone, EnoughBuffers, TypeOK
  <2>7. CASE BwriteDone(p)
    BY <2>7, Layers DEF BwriteDone, EnoughBuffers, TypeOK
  <2>8. CASE ReleaseSleep(p)
    BY <2>8, Layers DEF ReleaseSleep, EnoughBuffers, TypeOK
  <2>9. CASE Unref(p)
    BY <2>9, Layers DEF Unref, EnoughBuffers, TypeOK
  <2>10. CASE BwriteStart(p)
    BY <2>10, Layers DEF BwriteStart, EnoughBuffers, TypeOK
  <2>11. CASE Bpin(p)
    BY <2>11, Layers DEF Bpin, EnoughBuffers, TypeOK
  <2>12. CASE Bunpin(p)
    BY <2>12, Layers DEF Bunpin, EnoughBuffers, TypeOK
  <2>13. ASSUME NEW v \in Vals, Modify(p, v)
          PROVE  EnoughBuffers'
    BY <2>13, Layers DEF Modify, EnoughBuffers, TypeOK
  <2> QED
    BY <1>2, <2>1, <2>2, <2>3, <2>4, <2>5, <2>6, <2>7, <2>8, <2>9, <2>10, <2>11, <2>12, <2>13
       DEF Move
<1> QED  BY <1>1, <1>2, Moves

-----------------------------------------------------------------------------
(* The invariant *)

(* After binit() no buffer has a block and no thread has a buffer. *)
LEMMA InitIInv ==
  ASSUME CacheAssumption, Init
  PROVE  IInv
<1>1. NBUF \in Nat \ {0} /\ Bufs = 1..NBUF
  BY DEF CacheAssumption, Bufs
<1>2. \A i \in Bufs : NBUF + 1 - i \in Bufs /\ NBUF + 1 - (NBUF + 1 - i) = i
  BY <1>1, SMTT(30)
<1>3. (CHOOSE v \in Vals : TRUE) \in Vals
  BY DEF CacheAssumption
<1>4. TypeOK
  <2>1. lru \in [Bufs -> Bufs]
    BY <1>2 DEF Init
  <2>2. data \in [Bufs -> Vals]
    BY <1>3 DEF Init
  <2>3. refcnt \in [Bufs -> Nat] /\ buf \in [Procs -> Bufs \cup {0}]
    BY DEF Init
  <2> QED  BY <2>1, <2>2, <2>3 DEF Init, TypeOK, Labels
<1>5. ListInv
  BY <1>2 DEF Init, ListInv
<1>6. WantInv /\ OneBufferPerBlock /\ HolderInv /\ NoLostWakeup /\ DirtyInv /\ DataInv /\ EnoughBuffers
  BY DEF Init, WantInv, OneBufferPerBlock, HolderInv, NoLostWakeup, DirtyInv, DataInv, EnoughBuffers
<1>7. RefcntCounts
  <2>1. \A b \in Bufs : Users(b) = {}
    BY DEF Init, Users
  <2> QED  BY <2>1, FS_EmptySet, SMTT(30) DEF Init, RefcntCounts
<1>8. PinInv
  BY FS_EmptySet, SMTT(30) DEF Init, PinInv, CacheAssumption
<1> QED  BY <1>4, <1>5, <1>6, <1>7, <1>8 DEF IInv

(* The invariant is inductive: whatever lookups, recyclings, sleeps, disk      *)
(* reads, writes and pins are interleaved, every layer holds.                  *)
THEOREM Invariance == CacheAssumption => (Spec => []IInv)
<1> SUFFICES ASSUME CacheAssumption PROVE Spec => []IInv
  OBVIOUS
<1>1. Init => IInv
  BY InitIInv
<1>2. IInv /\ [Next]_vars => IInv'
  <2> SUFFICES ASSUME IInv, [Next]_vars PROVE IInv'
    OBVIOUS
  <2>1. TypeOK' /\ ListInv' /\ WantInv' /\ OneBufferPerBlock'
    BY TypeStep, ListStep, WantStep, OneBufferStep
  <2>2. RefcntCounts' /\ HolderInv' /\ NoLostWakeup'
    BY RefcntStep, HolderStep, WakeupStep
  <2>3. DirtyInv' /\ DataInv' /\ PinInv' /\ EnoughBuffers'
    BY DirtyStep, DataStep, PinStep, EnoughStep
  <2> QED  BY <2>1, <2>2, <2>3 DEF IInv
<1> QED  BY <1>1, <1>2, PTL DEF Spec

(* The cache is coherent: bget() never puts a block into two buffers, and from *)
(* bget() to brelse() a thread has the block it asked for, with the contents   *)
(* last given to it once bread() has returned.                                 *)
THEOREM Coherent == CacheAssumption => (Spec => [](OneBufferPerBlock /\ OwnerSeesLatest))
<1> SUFFICES ASSUME CacheAssumption PROVE Spec => [](OneBufferPerBlock /\ OwnerSeesLatest)
  OBVIOUS
<1>1. IInv => OneBufferPerBlock /\ OwnerSeesLatest
  <2> SUFFICES ASSUME IInv PROVE OneBufferPerBlock /\ OwnerSeesLatest
    OBVIOUS
  <2>1. \A p \in Procs : Using(p) => blockno[buf[p]] = want[p]
    BY Layers DEF WantInv
  <2>2. ASSUME NEW p \in Procs, Held(p)
        PROVE  valid[buf[p]] /\ data[buf[p]] = cur[want[p]]
    BY <2>1, <2>2, Layers, SMTT(30) DEF TypeOK, DirtyInv, DataInv, CacheAssumption
  <2> QED  BY <2>1, <2>2, Layers DEF OwnerSeesLatest
<1>2. Spec => []IInv
  BY Invariance
<1> QED  BY <1>1, <1>2, PTL

(* acquiresleep() and releasesleep() exclude: the thread that works on a       *)
(* buffer is the one its sleep-lock names, and whoever sleeps for the lock     *)
(* sleeps while somebody holds it.                                             *)
THEOREM SleepLocksExclude == CacheAssumption => (Spec => [](LockNamesOwner /\ NoLostWakeup))
<1> SUFFICES ASSUME CacheAssumption PROVE Spec => [](LockNamesOwner /\ NoLostWakeup)
  OBVIOUS
<1>1. IInv => LockNamesOwner /\ NoLostWakeup
  BY Layers DEF LockNamesOwner, HolderInv, TypeOK
<1>2. Spec => []IInv
  BY Invariance
<1> QED  BY <1>1, <1>2, PTL

(* b->refcnt is exactly the number of threads between bget() and brelse() plus *)
(* the log's pin, and with a buffer for every thread and every pin the panic   *)
(* "bget: no buffers" is not reached.                                          *)
THEOREM BuffersSuffice == CacheAssumption => (Spec => [](RefcntCounts /\ EnoughBuffers))
<1> SUFFICES ASSUME CacheAssumption PROVE Spec => [](RefcntCounts /\ EnoughBuffers)
  OBVIOUS
<1>1. IInv => RefcntCounts /\ EnoughBuffers
  BY Layers
<1>2. Spec => []IInv
  BY Invariance
<1> QED  BY <1>1, <1>2, PTL

=============================================================================
