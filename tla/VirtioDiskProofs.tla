-------------------------- MODULE VirtioDiskProofs --------------------------
(***************************************************************************)
(* Proofs about VirtioDisk: its invariant (module VirtioDiskInv) is        *)
(* inductive for any number of threads, buffers and descriptors and any    *)
(* width of the ring counters, and the driver with its device implements   *)
(* an atomic disk (BlockDev).                                              *)
(***************************************************************************)
EXTENDS VirtioDiskInv, WellFoundedInduction, FiniteSetTheorems, TLAPS

USE ZenonT(60) DEF driverVars, deviceVars, intrVars, NoBuf

(* The layers of the invariant, one by one. *)
LEMMA Layers ==
  ASSUME IInv
  PROVE  /\ TypeOK /\ DriverTypes /\ RingTypes /\ ThreadTypes
         /\ BufInv /\ LockInv /\ ChainInv /\ CountInv
         /\ RingInv /\ AvailInv /\ InflightInv /\ UsedInv /\ EndsInv
         /\ handler # "panic" /\ NoLostInterrupt
BY DEF IInv, TypeOK, RingInv

-----------------------------------------------------------------------------
(* Arithmetic of the ring counters *)

(* A remainder and its quotient. *)
LEMMA Quotient ==
  ASSUME NEW m \in Nat \ {0}, NEW x \in Int
  PROVE  x % m \in 0..(m - 1) /\ \E q \in Int : x = m * q + (x % m)
<1>1. x = m * (x \div m) + (x % m) /\ x \div m \in Int
  BY SMTT(30)
<1>2. x % m \in 0..(m - 1)
  BY SMTT(30)
<1> QED  BY <1>1, <1>2

(* Of the multiples of m only 0 is less than m away from 0. *)
LEMMA OnlyZero ==
  ASSUME NEW m \in Nat \ {0}, NEW c \in Int, -m < m * c, m * c < m
  PROVE  c = 0
<1>1. c >= 1 => m * c >= m
  BY SMTT(30)
<1>2. c <= -1 => m * c <= -m
  BY SMTT(30)
<1> QED  BY <1>1, <1>2, SMTT(30)

(* Remainders of numbers that differ by less than m tell them apart. *)
LEMMA Apart ==
  ASSUME NEW m \in Nat \ {0}, NEW x \in Int, NEW y \in Int, x < y, y < x + m
  PROVE  x % m # y % m
<1> SUFFICES ASSUME x % m = y % m PROVE FALSE
  OBVIOUS
<1>1. PICK a \in Int : x = m * a + (x % m)
  BY Quotient
<1>2. PICK b \in Int : y = m * b + (y % m)
  BY Quotient
<1>3. PICK r \in Int : r = x % m /\ r = y % m
  BY Quotient, SMTT(30)
<1>4. PICK c \in Int : c = b - a
  BY SMTT(30)
<1>5. m * c = y - x
  BY <1>1, <1>2, <1>3, <1>4, SMTT(30)
<1>6. c = 0
  BY <1>5, OnlyZero, SMTT(30)
<1> QED  BY <1>5, <1>6, SMTT(30)

(* Numbers in 0..m-1 are their own remainders; a multiple of m more makes no difference. *)
LEMMA SameRest ==
  ASSUME NEW m \in Nat \ {0}, NEW x \in Int, NEW c \in Int
  PROVE  (x + m * c) % m = x % m
<1>1. PICK y \in Int : y = x + m * c
  BY SMTT(30)
<1>2. PICK a \in Int : x = m * a + (x % m)
  BY Quotient
<1>3. PICK b \in Int : y = m * b + (y % m)
  BY Quotient
<1>4. PICK r \in 0..(m - 1) : r = x % m
  BY Quotient
<1>5. PICK s \in 0..(m - 1) : s = y % m
  BY Quotient
<1>6. PICK d \in Int : d = b - c - a
  BY SMTT(30)
<1>7. m * d = r - s
  <2>1. m * (b - c - a) = m * b - m * c - m * a
    BY SMTT(30)
  <2>2. m * a \in Int /\ m * b \in Int /\ m * c \in Int
    BY SMTT(30)
  <2>3. m * d = m * b - m * c - m * a
    BY <1>6, <2>1
  <2>4. x = m * a + r /\ y = m * b + s
    BY <1>2, <1>3, <1>4, <1>5
  <2> QED  BY <1>1, <2>2, <2>3, <2>4, SMTT(30)
<1>8. d = 0
  <2>1. -m < m * d /\ m * d < m
    BY <1>4, <1>5, <1>7, SMTT(30)
  <2> QED  BY <2>1, OnlyZero
<1>9. r = s
  BY <1>7, <1>8, SMTT(30)
<1> QED  BY <1>1, <1>4, <1>5, <1>9

(* What DiskAssumption says of the sizes: the rings divide the range of the counters. *)
LEMMA Sizes ==
  ASSUME DiskAssumption
  PROVE  /\ NUM \in Nat \ {0} /\ IdxMod \in Nat \ {0} /\ NUM <= IdxMod
         /\ \E c \in Int : IdxMod = NUM * c
<1>1. NUM \in Nat \ {0} /\ IdxMod \in Nat \ {0} /\ IdxMod % NUM = 0
  BY DEF DiskAssumption
<1>2. PICK c \in Int : IdxMod = NUM * c + (IdxMod % NUM)
  <2>1. IdxMod \in Int
    BY <1>1, SMTT(30)
  <2> QED  BY <1>1, <2>1, Quotient
<1>3. IdxMod = NUM * c
  BY <1>1, <1>2, SMTT(30)
<1>4. c >= 1
  <2>1. c <= 0 => NUM * c <= 0
    BY <1>1, SMTT(30)
  <2> QED  BY <1>1, <1>3, <2>1, SMTT(30)
<1>5. NUM * c >= NUM
  BY <1>1, <1>4, SMTT(30)
<1> QED  BY <1>1, <1>3, <1>5

(* An entry of a ring is found at a slot. *)
LEMMA Slot ==
  ASSUME DiskAssumption, NEW x \in Int
  PROVE  x % NUM \in Desc
BY Sizes, Quotient DEF Desc

(* A turn of a counter is a number of turns around the ring. *)
LEMMA Wrapped ==
  ASSUME DiskAssumption, NEW x \in Int
  PROVE  (x + IdxMod) % NUM = x % NUM
<1>1. PICK c \in Int : IdxMod = NUM * c
  BY Sizes
<1> QED  BY <1>1, Sizes, SameRest

(* The next value of a counter. *)
LEMMA Advanced ==
  ASSUME DiskAssumption, NEW i \in Counters
  PROVE  Next16(i) \in Counters /\ Next16(i) = IF i + 1 = IdxMod THEN 0 ELSE i + 1
<1>1. i + 1 # IdxMod => (i + 1) % IdxMod = i + 1
  BY Sizes, SMTT(30) DEF Counters
<1>2. i + 1 = IdxMod => (i + 1) % IdxMod = 0
  BY Sizes, SMTT(30) DEF Counters
<1> QED  BY <1>1, <1>2, Sizes, SMTT(30) DEF Counters, Next16

(* The distance of two counters. *)
LEMMA GapType ==
  ASSUME DiskAssumption, NEW a \in Counters, NEW b \in Counters
  PROVE  /\ Gap(a, b) \in Counters /\ (Gap(a, b) = 0 <=> a = b)
         /\ b % NUM = (a + Gap(a, b)) % NUM
<1>1. Gap(a, b) \in Counters /\ (Gap(a, b) = 0 <=> a = b)
  BY Sizes, SMTT(30) DEF Gap, Counters
<1>2. a \in Int /\ b \in Int /\ IdxMod \in Int
  BY Sizes, SMTT(30) DEF Counters
<1>3. CASE b >= a
  <2>1. a + Gap(a, b) = b
    BY <1>2, <1>3, SMTT(30) DEF Gap
  <2> QED  BY <1>1, <2>1
<1>4. CASE ~(b >= a)
  <2>1. a + Gap(a, b) = b + IdxMod
    BY <1>2, <1>4, SMTT(30) DEF Gap
  <2> QED  BY <1>1, <1>2, <2>1, Wrapped
<1> QED  BY <1>3, <1>4

(* An entry is added at the end of the window. *)
LEMMA GapPush ==
  ASSUME DiskAssumption, NEW a \in Counters, NEW b \in Counters, Gap(a, b) + 1 < IdxMod
  PROVE  Gap(a, Next16(b)) = Gap(a, b) + 1
BY Advanced, Sizes, SMTT(30) DEF Gap, Counters

(* The first entry is taken: the others move up. *)
LEMMA GapPop ==
  ASSUME DiskAssumption, NEW a \in Counters, NEW b \in Counters, a # b
  PROVE  Gap(Next16(a), b) = Gap(a, b) - 1
BY Advanced, Sizes, SMTT(30) DEF Gap, Counters

(* The entries that are left are numbered from 0 again. *)
LEMMA EntryPop ==
  ASSUME DiskAssumption, NEW a \in Counters, NEW r, NEW k \in Nat
  PROVE  Entry(r, Next16(a), k) = Entry(r, a, k + 1)
<1>1. a \in Int /\ IdxMod \in Int /\ k + 1 \in Nat
  BY Sizes, SMTT(30) DEF Counters
<1>2. CASE a + 1 = IdxMod
  <2>1. Next16(a) = 0
    BY <1>2, Advanced
  <2>2. a + (k + 1) = k + IdxMod /\ 0 + k = k
    BY <1>1, <1>2, SMTT(30)
  <2>3. (k + IdxMod) % NUM = k % NUM
    BY Wrapped, SMTT(30)
  <2> QED  BY <2>1, <2>2, <2>3 DEF Entry
<1>3. CASE a + 1 # IdxMod
  <2>1. Next16(a) = a + 1
    BY <1>3, Advanced
  <2>2. (a + 1) + k = a + (k + 1)
    BY <1>1, SMTT(30)
  <2> QED  BY <2>1, <2>2 DEF Entry
<1> QED  BY <1>2, <1>3

(* The slot behind a window that does not fill the ring is none of the window. *)
LEMMA SlotApart ==
  ASSUME DiskAssumption, NEW a \in Counters, NEW b \in Counters, Gap(a, b) < NUM
  PROVE  \A k \in 0..(Gap(a, b) - 1) : (a + k) % NUM \in Desc /\ (a + k) % NUM # b % NUM
<1>1. Gap(a, b) \in Nat /\ a \in Int /\ b \in Int
  BY GapType, Sizes, SMTT(30) DEF Counters
<1>2. b % NUM \in Desc /\ b % NUM = (a + Gap(a, b)) % NUM
  BY <1>1, Slot, GapType
<1>3. ASSUME NEW k \in 0..(Gap(a, b) - 1)
      PROVE  (a + k) % NUM \in Desc /\ (a + k) % NUM # b % NUM
  <2>1. a + k \in Int /\ a + Gap(a, b) \in Int /\ a + k < a + Gap(a, b) /\ a + Gap(a, b) < a + k + NUM
    BY <1>1, Sizes, SMTT(30)
  <2> QED  BY <1>2, <2>1, Sizes, Slot, Apart
<1> QED  BY <1>3

(* Distinct descriptors, one of all left out, do not fill the ring. *)
LEMMA NotFull ==
  ASSUME DiskAssumption, NEW n \in Nat, NEW r, NEW a, NEW d \in Desc,
         \A k \in 0..(n - 1) : Entry(r, a, k) \in Desc \ {d},
         \A j, k \in 0..(n - 1) : Entry(r, a, j) = Entry(r, a, k) => j = k
  PROVE  n < NUM
<1> DEFINE S == 0..(n - 1)
           T == Desc \ {d}
           f == [k \in S |-> Entry(r, a, k)]
<1>1. f \in Injection(S, T)
  BY DEF Injection, IsInjective
<1>2. IsFiniteSet(Desc) /\ Cardinality(Desc) = NUM
  BY Sizes, FS_Interval, SMTT(30) DEF Desc
<1>3. IsFiniteSet(T) /\ Cardinality(T) = NUM - 1
  BY <1>2, FS_RemoveElement
<1>4. Cardinality(S) <= Cardinality(T)
  <2> HIDE DEF S, T, f
  <2> QED  BY <1>1, <1>3, FS_Injection
<1>5. Cardinality(S) = n
  BY FS_Interval, SMTT(30)
<1> HIDE DEF S, T
<1> QED  BY <1>3, <1>4, <1>5, Sizes, SMTT(30)

-----------------------------------------------------------------------------
(* What the steps come down to *)

(* A set of numbers has a smallest one. *)
LEMMA Smallest ==
  ASSUME NEW S \in SUBSET Nat, S # {}
  PROVE  Lowest(S) \in S
<1>1. PICK d \in S : \A e \in S : <<e, d>> \notin OpToRel(<, Nat)
  BY NatLessThanWellFounded, WFMin
<1>2. ASSUME NEW e \in S PROVE d <= e
  <2>1. ~(e < d)
    BY <1>1 DEF OpToRel
  <2> QED  BY <2>1, SMTT(30)
<1> QED  BY <1>2 DEF Lowest

(* alloc3_desc() takes three different free descriptors. *)
LEMMA AllocThree ==
  ASSUME DiskAssumption, free \subseteq Desc, Cardinality(free) >= 3
  PROVE  \E a, b, c \in free : a # b /\ a # c /\ b # c /\ Alloc3 = <<a, b, c>>
<1> DEFINE a == Lowest(free)
           b == Lowest(free \ {a})
           c == Lowest(free \ {a, b})
<1>1. IsFiniteSet(free) /\ Cardinality(free) \in Nat
  <2>1. IsFiniteSet(Desc)
    BY Sizes, FS_Interval, SMTT(30) DEF Desc
  <2> QED  BY <2>1, FS_Subset, FS_CardinalityType
<1>2. \A S \in SUBSET free : S # {} => Lowest(S) \in S
  <2>1. Desc \in SUBSET Nat
    BY Sizes, SMTT(30) DEF Desc
  <2> QED  BY <2>1, Smallest
<1>3. free # {}
  BY <1>1, FS_EmptySet, SMTT(30)
<1>4. a \in free
  BY <1>2, <1>3
<1>5. /\ IsFiniteSet(free \ {a}) /\ Cardinality(free \ {a}) = Cardinality(free) - 1
      /\ Cardinality(free \ {a}) \in Nat
  <2> HIDE DEF a
  <2> QED  BY <1>1, <1>4, FS_RemoveElement, FS_CardinalityType
<1>6. b \in free \ {a}
  <2>1. free \ {a} # {}
    BY <1>1, <1>5, FS_EmptySet, SMTT(30)
  <2> QED  BY <1>2, <2>1
<1>7. /\ free \ {a, b} = (free \ {a}) \ {b} /\ IsFiniteSet(free \ {a, b})
      /\ Cardinality(free \ {a, b}) = Cardinality(free) - 2
  <2> HIDE DEF a, b
  <2>1. free \ {a, b} = (free \ {a}) \ {b}
    OBVIOUS
  <2>2. IsFiniteSet(free \ {a, b}) /\ Cardinality(free \ {a, b}) = Cardinality(free \ {a}) - 1
    BY <1>5, <1>6, <2>1, FS_RemoveElement
  <2> QED  BY <1>1, <1>5, <2>1, <2>2, SMTT(30)
<1>8. c \in free \ {a, b}
  <2>1. free \ {a, b} # {}
    BY <1>1, <1>7, FS_EmptySet, SMTT(30)
  <2> QED  BY <1>2, <2>1
<1>9. Alloc3 = <<a, b, c>>
  BY DEF Alloc3
<1> HIDE DEF a, b, c
<1> QED  BY <1>4, <1>6, <1>8, <1>9

(* virtio_disk_rw() with the three descriptors it has got. *)
Submitted(p, x, y, z) ==
  /\ pc[p] = "alloc" /\ lock = {} /\ {x, y, z} \subseteq free /\ x # y /\ x # z /\ y # z
  /\ free' = free \ {x, y, z}
  /\ ops' = [ops EXCEPT ![x] = [write |-> req[p].write, blk |-> req[p].b]]
  /\ desc' = Format(<<x, y, z>>, req[p].b, req[p].write)
  /\ info' = [info EXCEPT ![x] = [b |-> req[p].b, status |-> Undone]]
  /\ bdisk' = [bdisk EXCEPT ![req[p].b] = 1]
  /\ avail' = [avail EXCEPT ![availIdx % NUM] = x]
  /\ idx' = [idx EXCEPT ![p] = <<x, y, z>>]
  /\ lock' = {p} /\ pc' = [pc EXCEPT ![p] = "notify"]
  /\ UNCHANGED <<availIdx, deviceVars, intrVars, data, req>>

(* The thread is awake before its request is done, and sleeps again. *)
Resleep(p) ==
  /\ pc[p] = "relock" /\ lock = {} /\ pc' = [pc EXCEPT ![p] = "asleep"]
  /\ UNCHANGED <<driverVars, info, deviceVars, intrVars, lock, bdisk, data, req, idx>>

(* The thread returns, after free_chain() of its three descriptors. *)
Finished(p) ==
  /\ pc[p] = "relock" /\ lock = {}
  /\ info' = [info EXCEPT ![idx[p][1]].b = NoBuf]
  /\ free' = free \cup Owned(p)
  /\ desc' = [d \in Desc |-> IF d \in Owned(p) THEN ZeroDesc ELSE desc[d]]
  /\ WakeAs(p, "idle", "wait_desc", "alloc")
  /\ UNCHANGED <<ops, avail, availIdx, deviceVars, intrVars, lock, bdisk, data, req, idx>>

(* The device does the request of thread p. *)
Served(p) ==
  /\ pc[p] = "asleep" /\ idx[p][1] \in inflight
  /\ inflight' = inflight \ {idx[p][1]}
  /\ IF req[p].write THEN disk' = [disk EXCEPT ![req[p].b] = data[req[p].b]] /\ UNCHANGED data
     ELSE data' = [data EXCEPT ![req[p].b] = disk[req[p].b]] /\ UNCHANGED disk
  /\ info' = [info EXCEPT ![idx[p][1]].status = 0]
  /\ used' = [used EXCEPT ![usedIdx % NUM] = idx[p][1]]
  /\ usedIdx' = Next16(usedIdx) /\ irq' = TRUE
  /\ UNCHANGED <<driverVars, seen, used_idx, handler, lock, bdisk, pc, req, idx>>

(* The handler finds the request of thread p done, and wakes that thread only. *)
Woken(p) ==
  /\ handler = "loop" /\ used_idx # usedIdx
  /\ pc[p] = "asleep" /\ idx[p][1] = used[used_idx % NUM] /\ info[idx[p][1]].status = 0
  /\ bdisk' = [bdisk EXCEPT ![req[p].b] = 0]
  /\ pc' = [pc EXCEPT ![p] = "relock"]
  /\ used_idx' = Next16(used_idx)
  /\ UNCHANGED <<driverVars, info, deviceVars, handler, irq, lock, data, req, idx>>

(* The labels of the other threads when free_desc() wakes those that wait for descriptors. *)
LEMMA Waked ==
  ASSUME NEW p \in Procs, NEW l, WakeAs(p, l, "wait_desc", "alloc")
  PROVE  /\ pc'[p] = l
         /\ \A q \in Procs : q # p => \/ pc'[q] = pc[q] /\ pc[q] # "wait_desc"
                                      \/ pc[q] = "wait_desc" /\ pc'[q] = "alloc"
BY DEF WakeAs

(* free_chain() follows the three descriptors of the request. *)
LEMMA ChainOwned ==
  ASSUME IInv, NEW p \in Busy
  PROVE  Chain(idx[p][1]) = Owned(p)
<1>1. Formatted(p)
  BY Layers DEF ChainInv
<1>2. /\ "NEXT" \in desc[idx[p][1]].flags /\ desc[idx[p][1]].next = idx[p][2]
      /\ "NEXT" \in desc[idx[p][2]].flags /\ desc[idx[p][2]].next = idx[p][3]
  BY <1>1 DEF Formatted
<1> QED  BY <1>2 DEF Chain, Owned

(* The descriptors of a request are descriptors, and no other request has them. *)
LEMMA HeadOnce ==
  ASSUME IInv, NEW p \in Busy, NEW q \in Busy
  PROVE  /\ idx[p][1] \in Desc /\ idx[p][2] \in Desc /\ idx[p][3] \in Desc
         /\ idx[p][1] # idx[q][2] /\ (idx[p][1] = idx[q][1] => p = q)
<1>1. p \in Procs /\ q \in Procs
  BY DEF Busy
<1>2. idx[p] \in Desc \X Desc \X Desc
  BY <1>1, Layers DEF ThreadTypes
<1>3. p # q => Owned(p) \cap Owned(q) = {}
  BY Layers DEF ChainInv
<1>4. Formatted(p)
  BY Layers DEF ChainInv
<1>5. p # q => idx[p][1] # idx[q][2] /\ idx[p][1] # idx[q][1]
  BY <1>3 DEF Owned
<1>6. p = q => idx[p][1] # idx[q][2]
  BY <1>4 DEF Formatted
<1> QED  BY <1>2, <1>5, <1>6

(* Submit() is Submitted() for three free descriptors. *)
LEMMA SubmitIs ==
  ASSUME DiskAssumption, IInv, NEW p \in Procs, Submit(p)
  PROVE  \E x, y, z \in Desc : Submitted(p, x, y, z)
<1>1. free \subseteq Desc
  BY Layers DEF DriverTypes
<1>2. PICK x, y, z \in free : x # y /\ x # z /\ y # z /\ Alloc3 = <<x, y, z>>
  BY <1>1, AllocThree DEF Submit
<1>3. Alloc3[1] = x /\ Alloc3[2] = y /\ Alloc3[3] = z
  BY <1>2
<1>4. Submitted(p, x, y, z)
  BY <1>2, <1>3 DEF Submit, Submitted, Record, Publish, Undone
<1> QED  BY <1>1, <1>4

(* Finish() sleeps again or returns. *)
LEMMA FinishIs ==
  ASSUME IInv, NEW p \in Procs, Finish(p)
  PROVE  Resleep(p) \/ Finished(p)
<1>1. pc[p] = "relock" /\ p \in Busy
  BY DEF Finish, Busy
<1>2. Freed(p) = Owned(p)
  BY <1>1, ChainOwned DEF Freed
<1> QED  BY <1>1, <1>2 DEF Finish, Resleep, Finished

(* What the device does with a head it has taken is the request of a thread. *)
LEMMA DevDoneIs ==
  ASSUME IInv, NEW h \in Desc, DevDone(h)
  PROVE  \E p \in Procs : Served(p)
<1>1. PICK p \in Procs : pc[p] = "asleep" /\ idx[p][1] = h
  <2>1. h \in inflight
    BY DEF DevDone
  <2>2. Waiting(h, Undone)
    BY <2>1, Layers DEF InflightInv
  <2> QED  BY <2>2 DEF Waiting
<1>2. Formatted(p) /\ req[p].b \in Bufs /\ req[p].write \in BOOLEAN
  BY <1>1, Layers DEF ChainInv, Busy, BufInv, ThreadTypes
<1> DEFINE d2 == desc[h].next
           d3 == desc[d2].next
<1>3. /\ d2 = idx[p][2] /\ d3 = idx[p][3]
      /\ desc[d2].addr[2] = req[p].b /\ desc[d3].addr[2] = h /\ ops[h].blk = req[p].b
      /\ "WRITE" \in desc[d2].flags <=> ~req[p].write
  <2>1. d2 = idx[p][2] /\ d3 = idx[p][3] /\ ops[h].blk = req[p].b
    BY <1>1, <1>2 DEF Formatted
  <2>2. desc[d2].addr = <<"data", req[p].b>> /\ desc[d3].addr = <<"status", h>>
    BY <1>1, <1>2, <2>1 DEF Formatted
  <2>3. desc[d2].flags = IF req[p].write THEN {"NEXT"} ELSE {"WRITE", "NEXT"}
    BY <1>2, <2>1 DEF Formatted
  <2> HIDE DEF d2, d3
  <2>4. desc[d2].addr[2] = req[p].b /\ desc[d3].addr[2] = h
    BY <2>2, SMTT(30)
  <2>5. "WRITE" \in desc[d2].flags <=> ~req[p].write
    BY <1>2, <2>3, SMTT(30)
  <2> QED  BY <2>1, <2>4, <2>5
<1> HIDE DEF d2, d3
<1>4. /\ h \in inflight
      /\ inflight' = inflight \ {h}
      /\ IF "WRITE" \in desc[d2].flags
         THEN data' = [data EXCEPT ![desc[d2].addr[2]] = disk[ops[h].blk]] /\ UNCHANGED disk
         ELSE disk' = [disk EXCEPT ![ops[h].blk] = data[desc[d2].addr[2]]] /\ UNCHANGED data
      /\ info' = [info EXCEPT ![desc[d3].addr[2]].status = 0]
  BY DEF DevDone, d2, d3
<1>5. /\ used' = [used EXCEPT ![usedIdx % NUM] = h]
      /\ usedIdx' = Next16(usedIdx) /\ irq' = TRUE
      /\ UNCHANGED <<driverVars, seen, used_idx, handler, lock, bdisk, pc, req, idx>>
  BY DEF DevDone
<1>6. Served(p)
  BY <1>1, <1>3, <1>4, <1>5 DEF Served
<1> QED  BY <1>6

(* What the handler finds in the used ring is the request of a thread asleep. *)
LEMMA IntrStepIs ==
  ASSUME DiskAssumption, IInv, IntrStep
  PROVE  \E p \in Procs : Woken(p)
<1>1. used_idx \in Counters /\ usedIdx \in Counters /\ used_idx # usedIdx
  BY Layers DEF RingTypes, IntrStep
<1>2. 0 \in Answers /\ Answered(0) = used[used_idx % NUM]
  <2>1. Gap(used_idx, usedIdx) \in Counters /\ Gap(used_idx, usedIdx) # 0
    BY <1>1, GapType
  <2>2. 0 \in Answers
    BY <2>1, Sizes, SMTT(30) DEF Answers, Counters
  <2>3. used_idx + 0 = used_idx
    BY <1>1, SMTT(30) DEF Counters
  <2> QED  BY <2>2, <2>3 DEF Answered, Entry
<1> DEFINE h == used[used_idx % NUM]
<1>3. PICK p \in Procs : pc[p] = "asleep" /\ idx[p][1] = h /\ info[h].status = 0
  BY <1>2, Layers DEF UsedInv, Waiting
<1>4. Formatted(p) /\ req[p].b \in Bufs
  BY <1>3, Layers DEF ChainInv, Busy, BufInv
<1>5. info[h].b = req[p].b /\ info[h].b # NoBuf
  BY <1>3, <1>4 DEF Formatted, DiskAssumption
<1>6. Sleepers(info[h].b) = {p}
  BY <1>3, <1>5, Layers DEF Sleepers, BufInv
<1>7. /\ bdisk' = [bdisk EXCEPT ![req[p].b] = 0]
      /\ pc' = [q \in Procs |-> IF q \in {p} THEN "relock" ELSE pc[q]]
      /\ used_idx' = Next16(used_idx) /\ UNCHANGED handler
  BY <1>3, <1>5, <1>6 DEF IntrStep
<1>8. pc' = [pc EXCEPT ![p] = "relock"]
  BY <1>7, Layers DEF ThreadTypes
<1>9. Woken(p)
  BY <1>3, <1>7, <1>8 DEF Woken, IntrStep
<1> QED  BY <1>9

(* The steps of the system. *)
LEMMA Steps ==
  ASSUME DiskAssumption, IInv, Next
  PROVE  \/ \E p \in Procs, b \in Bufs, w \in BOOLEAN, v \in Vals : Call(p, b, w, v)
         \/ \E p \in Procs, x, y, z \in Desc : Submitted(p, x, y, z)
         \/ \E p \in Procs : \/ AllocFail(p) \/ Notify(p) \/ Resleep(p) \/ Finished(p)
                             \/ Served(p) \/ Woken(p)
         \/ DevTake \/ IntrEnter \/ IntrEnd \/ IntrExit
<1>1. ASSUME NEW p \in Procs, Run(p)
      PROVE  \/ \E x, y, z \in Desc : Submitted(p, x, y, z)
             \/ AllocFail(p) \/ Notify(p) \/ Resleep(p) \/ Finished(p)
  BY <1>1, SubmitIs, FinishIs DEF Run
<1>2. ASSUME Device
      PROVE  DevTake \/ \E p \in Procs : Served(p)
  BY <1>2, DevDoneIs DEF Device
<1>3. ASSUME Intr
      PROVE  IntrEnter \/ IntrEnd \/ IntrExit \/ \E p \in Procs : Woken(p)
  BY <1>3, IntrStepIs DEF Intr
<1> QED  BY <1>1, <1>2, <1>3 DEF Next

-----------------------------------------------------------------------------
(* Types *)

(* A thread that finds too few descriptors sleeps, and may wake the others that wait. *)
LEMMA AllocFailed ==
  ASSUME IInv, NEW p \in Procs, AllocFail(p)
  PROVE  /\ pc'[p] = "wait_desc" /\ pc' \in [Procs -> Labels]
         /\ \A q \in Procs : q # p => \/ pc'[q] = pc[q]
                                      \/ pc[q] = "wait_desc" /\ pc'[q] = "alloc"
         /\ \A d \in Desc \ free : desc'[d] = desc[d]
<1>1. pc \in [Procs -> Labels] /\ "wait_desc" \in Labels /\ "alloc" \in Labels
  BY Layers DEF ThreadTypes, Labels
<1>2. CASE pc' = [pc EXCEPT ![p] = "wait_desc"]
  BY <1>1, <1>2 DEF AllocFail
<1>3. CASE WakeAs(p, "wait_desc", "wait_desc", "alloc")
  <2>1. pc' \in [Procs -> Labels]
    BY <1>1, <1>3 DEF WakeAs
  <2> QED  BY <1>3, <2>1, Waked DEF AllocFail
<1> QED  BY <1>2, <1>3 DEF AllocFail

(* The driver's variables have their types. *)
LEMMA DriverTypesStep ==
  ASSUME DiskAssumption, IInv, Next
  PROVE  DriverTypes'
<1>1. ASSUME NEW p \in Procs, NEW b \in Bufs, NEW w \in BOOLEAN, NEW v \in Vals, Call(p, b, w, v)
      PROVE  DriverTypes'
  BY <1>1, Layers DEF DriverTypes, Call
<1>2. ASSUME NEW p \in Procs, NEW x \in Desc, NEW y \in Desc, NEW z \in Desc, Submitted(p, x, y, z)
      PROVE  DriverTypes'
  <2>1. req[p].b \in Bufs /\ req[p].b \in AnyBuf /\ req[p].write \in BOOLEAN
    BY <1>2, Layers DEF BufInv, ThreadTypes, Submitted, AnyBuf
  <2>2. desc' \in [Desc -> [addr : Addrs, flags : SUBSET {"NEXT", "WRITE"}, next : Desc]]
    <3>1. /\ <<"op", x>> \in Addrs /\ <<"status", x>> \in Addrs /\ <<"data", req[p].b>> \in Addrs
          /\ 0 \in Desc
      BY <2>1, Sizes, SMTT(30) DEF Addrs, Desc
    <3>2. desc \in [Desc -> [addr : Addrs, flags : SUBSET {"NEXT", "WRITE"}, next : Desc]]
      BY Layers DEF DriverTypes
    <3> HIDE DEF Addrs, Desc
    <3> QED  BY <1>2, <3>1, <3>2, SMTT(30) DEF Submitted, Format
  <2>3. /\ free' \subseteq Desc
        /\ ops' \in [Desc -> [write : BOOLEAN, blk : AnyBuf]]
        /\ info' \in [Desc -> [b : AnyBuf, status : {0, Undone}]]
    BY <1>2, <2>1, Layers DEF DriverTypes, Submitted
  <2>4. bdisk' \in [Bufs -> {0, 1}] /\ data' \in [Bufs -> Vals] /\ disk' \in [Bufs -> Vals]
    BY <1>2, <2>1, Layers DEF DriverTypes, Submitted
  <2> QED  BY <2>2, <2>3, <2>4 DEF DriverTypes
<1>3. ASSUME ZeroDesc \in [addr : Addrs, flags : SUBSET {"NEXT", "WRITE"}, next : Desc],
             NEW p \in Procs, AllocFail(p)
      PROVE  DriverTypes'
  BY <1>3, Layers DEF DriverTypes, AllocFail
<1>4. ASSUME ZeroDesc \in [addr : Addrs, flags : SUBSET {"NEXT", "WRITE"}, next : Desc],
             NEW p \in Procs, Finished(p)
      PROVE  DriverTypes'
  <2>0. p \in Busy
    BY <1>4 DEF Finished, Busy
  <2>1. Owned(p) \subseteq Desc /\ idx[p][1] \in Desc
    BY <2>0, HeadOnce DEF Owned
  <2>2. info' \in [Desc -> [b : AnyBuf, status : {0, Undone}]]
    BY <1>4, <2>1, Layers, SMTT(30) DEF DriverTypes, Finished, AnyBuf
  <2> QED  BY <1>4, <2>1, <2>2, Layers DEF DriverTypes, Finished
<1>5. ASSUME NEW p \in Procs, Served(p)
      PROVE  DriverTypes'
  <2>1. req[p].b \in Bufs /\ idx[p][1] \in Desc
    BY <1>5, Layers, HeadOnce DEF BufInv, Busy, Served
  <2>2. info' \in [Desc -> [b : AnyBuf, status : {0, Undone}]]
    <3>1. /\ info' = [info EXCEPT ![idx[p][1]].status = 0]
          /\ info \in [Desc -> [b : AnyBuf, status : {0, Undone}]]
      BY <1>5, Layers DEF DriverTypes, Served
    <3> QED  BY <2>1, <3>1, SMTT(30)
  <2>3. data' \in [Bufs -> Vals] /\ disk' \in [Bufs -> Vals]
    <3>1. data \in [Bufs -> Vals] /\ disk \in [Bufs -> Vals]
      BY Layers DEF DriverTypes
    <3>2. CASE req[p].write
      BY <1>5, <2>1, <3>1, <3>2 DEF Served
    <3>3. CASE ~req[p].write
      BY <1>5, <2>1, <3>1, <3>3 DEF Served
    <3> QED  BY <3>2, <3>3
  <2> QED  BY <1>5, <2>2, <2>3, Layers DEF DriverTypes, Served
<1>6. ASSUME NEW p \in Procs, Woken(p)
      PROVE  DriverTypes'
  BY <1>6, Layers DEF DriverTypes, Woken
<1>7. ASSUME UNCHANGED <<free, desc, ops, info, bdisk, data, disk>>
      PROVE  DriverTypes'
  BY <1>7, Layers DEF DriverTypes
<1>8. ZeroDesc \in [addr : Addrs, flags : SUBSET {"NEXT", "WRITE"}, next : Desc]
  <2>1. 0 \in Desc
    BY Sizes, SMTT(30) DEF Desc
  <2> QED  BY <2>1 DEF ZeroDesc, Addrs
<1> QED  BY <1>1, <1>2, <1>3, <1>4, <1>5, <1>6, <1>7, <1>8, Steps
            DEF Notify, Resleep, DevTake, IntrEnter, IntrEnd, IntrExit

(* The rings and their counters have their types. *)
LEMMA RingTypesStep ==
  ASSUME DiskAssumption, IInv, Next
  PROVE  RingTypes'
<1>1. availIdx \in Counters /\ seen \in Counters /\ usedIdx \in Counters /\ used_idx \in Counters
  BY Layers DEF RingTypes
<1>2. /\ Next16(availIdx) \in Counters /\ Next16(seen) \in Counters
      /\ Next16(usedIdx) \in Counters /\ Next16(used_idx) \in Counters
  BY <1>1, Advanced
<1>3. availIdx % NUM \in Desc /\ seen % NUM \in Desc /\ usedIdx % NUM \in Desc
  <2>1. availIdx \in Int /\ seen \in Int /\ usedIdx \in Int
    BY <1>1, SMTT(30) DEF Counters
  <2> QED  BY <2>1, Slot
<1>4. ASSUME NEW p \in Procs, NEW x \in Desc, NEW y \in Desc, NEW z \in Desc, Submitted(p, x, y, z)
      PROVE  RingTypes'
  BY <1>3, <1>4, Layers DEF RingTypes, Submitted
<1>5. ASSUME NEW p \in Procs, Notify(p)
      PROVE  RingTypes'
  BY <1>2, <1>5, Layers DEF RingTypes, Notify
<1>6. ASSUME NEW p \in Procs, Served(p)
      PROVE  RingTypes'
  <2>1. idx[p][1] \in Desc
    BY <1>6, HeadOnce DEF Busy, Served
  <2> QED  BY <1>2, <1>3, <1>6, <2>1, Layers DEF RingTypes, Served
<1>7. ASSUME NEW p \in Procs, Woken(p)
      PROVE  RingTypes'
  BY <1>2, <1>7, Layers DEF RingTypes, Woken
<1>8. ASSUME DevTake
      PROVE  RingTypes'
  BY <1>2, <1>3, <1>8, Layers DEF RingTypes, DevTake
<1>9. ASSUME UNCHANGED <<avail, used, inflight, availIdx, seen, usedIdx, used_idx>>
      PROVE  RingTypes'
  BY <1>9, Layers DEF RingTypes
<1> QED  BY <1>4, <1>5, <1>6, <1>7, <1>8, <1>9, Steps
            DEF Call, AllocFail, Resleep, Finished, IntrEnter, IntrEnd, IntrExit

(* The threads, the handler and the interrupt line have their types. *)
LEMMA ThreadTypesStep ==
  ASSUME DiskAssumption, IInv, Next
  PROVE  ThreadTypes'
<1>1. ASSUME NEW p \in Procs, NEW b \in Bufs, NEW w \in BOOLEAN, NEW v \in Vals, Call(p, b, w, v)
      PROVE  ThreadTypes'
  BY <1>1, Layers DEF ThreadTypes, Labels, AnyBuf, Call
<1>2. ASSUME NEW p \in Procs, NEW x \in Desc, NEW y \in Desc, NEW z \in Desc, Submitted(p, x, y, z)
      PROVE  ThreadTypes'
  BY <1>2, Layers DEF ThreadTypes, Labels, Submitted
<1>3. ASSUME NEW p \in Procs, AllocFail(p)
      PROVE  ThreadTypes'
  BY <1>3, AllocFailed, Layers DEF ThreadTypes, AllocFail
<1>4. ASSUME NEW p \in Procs, Notify(p)
      PROVE  ThreadTypes'
  BY <1>4, Layers DEF ThreadTypes, Labels, Notify
<1>5. ASSUME NEW p \in Procs, Resleep(p)
      PROVE  ThreadTypes'
  BY <1>5, Layers DEF ThreadTypes, Labels, Resleep
<1>6. ASSUME NEW p \in Procs, Finished(p)
      PROVE  ThreadTypes'
  <2>1. pc' \in [Procs -> Labels]
    BY <1>6, Layers DEF ThreadTypes, Labels, Finished, WakeAs
  <2> QED  BY <1>6, <2>1, Layers DEF ThreadTypes, Finished
<1>7. ASSUME NEW p \in Procs, Served(p)
      PROVE  ThreadTypes'
  BY <1>7, Layers DEF ThreadTypes, Served
<1>8. ASSUME NEW p \in Procs, Woken(p)
      PROVE  ThreadTypes'
  BY <1>8, Layers DEF ThreadTypes, Labels, Woken
<1>9. ASSUME DevTake
      PROVE  ThreadTypes'
  BY <1>9, Layers DEF ThreadTypes, DevTake
<1>10. ASSUME IntrEnter \/ IntrEnd \/ IntrExit
       PROVE  ThreadTypes'
  BY <1>10, Layers DEF ThreadTypes, IntrEnter, IntrEnd, IntrExit, Ack
<1> QED  BY <1>1, <1>2, <1>3, <1>4, <1>5, <1>6, <1>7, <1>8, <1>9, <1>10, Steps

-----------------------------------------------------------------------------
(* Buffers, the lock and the chains *)

(* No thread but a caller begins a request. *)
LEMMA BufKept ==
  ASSUME IInv, req' = req, \A q \in Procs : pc'[q] # "idle" => pc[q] # "idle"
  PROVE  BufInv'
BY Layers DEF BufInv

(* The requests under way have different buffers: bread() and bwrite() lock theirs. *)
LEMMA BufStep ==
  ASSUME DiskAssumption, IInv, Next
  PROVE  BufInv'
<1>0. pc \in [Procs -> Labels]
  BY Layers DEF ThreadTypes
<1>1. ASSUME NEW p \in Procs, NEW b \in Bufs, NEW w \in BOOLEAN, NEW v \in Vals, Call(p, b, w, v)
      PROVE  BufInv'
  <2>1. req'[p].b = b /\ \A q \in Procs : q # p => req'[q] = req[q] /\ pc'[q] = pc[q]
    BY <1>0, <1>1, Layers DEF Call, ThreadTypes
  <2>2. \A q \in Procs : q # p /\ pc[q] # "idle" => req[q].b # b
    BY <1>1 DEF Call
  <2> QED  BY <2>1, <2>2, Layers DEF BufInv
<1>2. ASSUME NEW p \in Procs, NEW x \in Desc, NEW y \in Desc, NEW z \in Desc, Submitted(p, x, y, z)
      PROVE  BufInv'
  BY <1>0, <1>2, BufKept DEF Submitted
<1>3. ASSUME NEW p \in Procs, AllocFail(p)
      PROVE  BufInv'
  <2>1. pc[p] # "idle" /\ req' = req
    BY <1>3 DEF AllocFail
  <2>2. \A q \in Procs : pc'[q] # "idle" => pc[q] # "idle"
    BY <1>3, <2>1, AllocFailed
  <2> QED  BY <2>1, <2>2, BufKept
<1>4. ASSUME NEW p \in Procs, Notify(p) \/ Resleep(p) \/ Woken(p)
      PROVE  BufInv'
  BY <1>0, <1>4, BufKept DEF Notify, Resleep, Woken
<1>5. ASSUME NEW p \in Procs, Finished(p)
      PROVE  BufInv'
  BY <1>5, Waked, BufKept DEF Finished
<1>6. ASSUME UNCHANGED <<req, pc>>
      PROVE  BufInv'
  BY <1>6, BufKept
<1> QED  BY <1>1, <1>2, <1>3, <1>4, <1>5, <1>6, Steps
            DEF Served, DevTake, IntrEnter, IntrEnd, IntrExit

(* Nobody takes or gives back vdisk_lock. *)
LEMMA LockKept ==
  ASSUME IInv, UNCHANGED <<lock, handler>>,
         \A q \in Procs : pc'[q] = "notify" <=> pc[q] = "notify"
  PROVE  LockInv'
BY Layers DEF LockInv

(* vdisk_lock excludes a thread that publishes and the interrupt handler. *)
LEMMA LockStep ==
  ASSUME DiskAssumption, IInv, Next
  PROVE  LockInv'
<1>0. pc \in [Procs -> Labels] /\ "intr" \notin Procs /\ LockInv
  BY Layers DEF ThreadTypes, DiskAssumption
<1>1. ASSUME NEW p \in Procs, NEW b \in Bufs, NEW w \in BOOLEAN, NEW v \in Vals, Call(p, b, w, v)
      PROVE  LockInv'
  BY <1>0, <1>1, LockKept DEF Call
<1>2. ASSUME NEW p \in Procs, NEW x \in Desc, NEW y \in Desc, NEW z \in Desc, Submitted(p, x, y, z)
      PROVE  LockInv'
  <2>1. lock = {} /\ lock' = {p} /\ pc' = [pc EXCEPT ![p] = "notify"] /\ handler' = handler
    BY <1>2 DEF Submitted
  <2>2. handler' = "off" /\ \A q \in Procs : pc[q] # "notify"
    BY <1>0, <2>1 DEF LockInv
  <2>3. \A q \in Procs : pc'[q] = "notify" <=> lock' = {q}
    BY <1>0, <2>1, <2>2
  <2> QED  BY <1>0, <2>1, <2>2, <2>3 DEF LockInv
<1>3. ASSUME NEW p \in Procs, AllocFail(p)
      PROVE  LockInv'
  <2>1. pc[p] # "notify" /\ UNCHANGED <<lock, handler>>
    BY <1>3 DEF AllocFail
  <2>2. \A q \in Procs : pc'[q] = "notify" <=> pc[q] = "notify"
    BY <1>3, <2>1, AllocFailed
  <2> QED  BY <2>1, <2>2, LockKept
<1>4. ASSUME NEW p \in Procs, Notify(p)
      PROVE  LockInv'
  <2>1. lock' = {} /\ pc' = [pc EXCEPT ![p] = "asleep"] /\ handler' = handler /\ lock = {p}
    BY <1>0, <1>4 DEF Notify, LockInv
  <2>2. handler' = "off" /\ \A q \in Procs : pc'[q] # "notify"
    BY <1>0, <2>1 DEF LockInv
  <2> QED  BY <2>1, <2>2 DEF LockInv
<1>5. ASSUME NEW p \in Procs, Resleep(p) \/ Woken(p)
      PROVE  LockInv'
  BY <1>0, <1>5, LockKept DEF Resleep, Woken
<1>6. ASSUME NEW p \in Procs, Finished(p)
      PROVE  LockInv'
  BY <1>6, Waked, LockKept DEF Finished
<1>7. ASSUME UNCHANGED <<lock, handler, pc>>
      PROVE  LockInv'
  BY <1>7, LockKept
<1>8. ASSUME IntrEnter \/ IntrEnd \/ IntrExit
      PROVE  LockInv'
  BY <1>0, <1>8 DEF LockInv, IntrEnter, IntrEnd, IntrExit
<1> QED  BY <1>1, <1>2, <1>3, <1>4, <1>5, <1>6, <1>7, <1>8, Steps DEF Served, DevTake

(* The requests under way keep their descriptors. *)
LEMMA ChainKept ==
  ASSUME IInv, Busy' = Busy, UNCHANGED <<free, ops, idx>>,
         \A p \in Busy : req'[p] = req[p],
         \A d \in Desc \ free : desc'[d] = desc[d] /\ info'[d].b = info[d].b
  PROVE  ChainInv' /\ CountInv'
<1>1. ASSUME NEW p \in Busy
      PROVE  Formatted(p)' /\ Owned(p)' = Owned(p)
  <2>1. Formatted(p) /\ Owned(p) \cap free = {}
    BY Layers DEF ChainInv
  <2>2. idx[p][1] \in Desc \ free /\ idx[p][2] \in Desc \ free /\ idx[p][3] \in Desc \ free
    BY <2>1, HeadOnce DEF Owned
  <2> QED  BY <2>1, <2>2 DEF Formatted, Owned
<1>2. CountInv'
  BY Layers DEF CountInv
<1> QED  BY <1>1, <1>2, Layers DEF ChainInv

(* Three elements less. *)
LEMMA ThreeLess ==
  ASSUME NEW S, IsFiniteSet(S), NEW x \in S, NEW y \in S, NEW z \in S, x # y, x # z, y # z
  PROVE  Cardinality(S \ {x, y, z}) \in Nat /\ Cardinality(S) = Cardinality(S \ {x, y, z}) + 3
<1> DEFINE A == S \ {x}  B == A \ {y}  C == B \ {z}
<1>1. IsFiniteSet(A) /\ Cardinality(A) = Cardinality(S) - 1
  BY FS_RemoveElement
<1>2. y \in A /\ z \in B
  OBVIOUS
<1>3. IsFiniteSet(B) /\ Cardinality(B) = Cardinality(A) - 1
  BY <1>1, <1>2, FS_RemoveElement
<1>4. IsFiniteSet(C) /\ Cardinality(C) = Cardinality(B) - 1
  BY <1>2, <1>3, FS_RemoveElement
<1>5. C = S \ {x, y, z}
  OBVIOUS
<1>6. Cardinality(C) \in Nat /\ Cardinality(S) \in Nat
  BY <1>4, FS_CardinalityType
<1> HIDE DEF A, B, C
<1>7. Cardinality(S) = Cardinality(C) + 3
  <2>1. Cardinality(A) \in Nat /\ Cardinality(B) \in Nat
    BY <1>1, <1>3, FS_CardinalityType
  <2> QED  BY <1>1, <1>3, <1>4, <1>6, <2>1, SMTT(30)
<1> QED  BY <1>5, <1>6, <1>7

(* The free descriptors and the requests under way are finitely many. *)
LEMMA Finite ==
  ASSUME DiskAssumption, IInv
  PROVE  /\ IsFiniteSet(free) /\ IsFiniteSet(Busy)
         /\ Cardinality(free) \in Nat /\ Cardinality(Busy) \in Nat
<1>1. free \subseteq 0..(NUM - 1) /\ Busy \subseteq Procs
  BY Layers DEF DriverTypes, Desc, Busy
<1>2. IsFiniteSet(0..(NUM - 1))
  <2>1. 0 \in Int /\ NUM - 1 \in Int
    BY SMTT(30) DEF DiskAssumption
  <2> QED  BY <2>1, FS_Interval
<1>3. IsFiniteSet(free) /\ IsFiniteSet(Busy)
  BY <1>1, <1>2, FS_Subset DEF DiskAssumption
<1> QED  BY <1>3, FS_CardinalityType

(* alloc3_desc() takes three descriptors that no request has, and links them. *)
LEMMA ChainSubmitted ==
  ASSUME DiskAssumption, IInv, NEW p \in Procs, NEW x \in Desc, NEW y \in Desc, NEW z \in Desc,
         Submitted(p, x, y, z)
  PROVE  ChainInv' /\ CountInv'
<1>1. /\ x \in free /\ y \in free /\ z \in free /\ x # y /\ x # z /\ y # z
      /\ free' = free \ {x, y, z} /\ req' = req /\ pc[p] = "alloc"
  BY DEF Submitted
<1>2. /\ ops'[x] = [write |-> req[p].write, blk |-> req[p].b]
      /\ info'[x] = [b |-> req[p].b, status |-> Undone]
      /\ \A d \in Desc : d # x => ops'[d] = ops[d] /\ info'[d] = info[d]
  <2>1. /\ ops' = [ops EXCEPT ![x] = [write |-> req[p].write, blk |-> req[p].b]]
        /\ info' = [info EXCEPT ![x] = [b |-> req[p].b, status |-> Undone]]
    BY DEF Submitted
  <2>2. /\ ops \in [Desc -> [write : BOOLEAN, blk : AnyBuf]]
        /\ info \in [Desc -> [b : AnyBuf, status : {0, Undone}]]
    BY Layers DEF DriverTypes
  <2> QED  BY <2>1, <2>2, SMTT(30)
<1>3. idx'[p] = <<x, y, z>> /\ \A q \in Procs : q # p => idx'[q] = idx[q]
  BY Layers DEF Submitted, ThreadTypes
<1>4. /\ desc'[x] = [addr |-> <<"op", x>>, flags |-> {"NEXT"}, next |-> y]
      /\ desc'[y] = [addr |-> <<"data", req[p].b>>,
                     flags |-> IF req[p].write THEN {"NEXT"} ELSE {"WRITE", "NEXT"}, next |-> z]
      /\ desc'[z] = [addr |-> <<"status", x>>, flags |-> {"WRITE"}, next |-> 0]
      /\ \A d \in Desc : d \notin {x, y, z} => desc'[d] = desc[d]
  <2> DEFINE X == [addr |-> <<"op", x>>, flags |-> {"NEXT"}, next |-> y]
             Y == [addr |-> <<"data", req[p].b>>,
                   flags |-> IF req[p].write THEN {"NEXT"} ELSE {"WRITE", "NEXT"}, next |-> z]
             Z == [addr |-> <<"status", x>>, flags |-> {"WRITE"}, next |-> 0]
             R == [addr : Addrs, flags : SUBSET {"NEXT", "WRITE"}, next : Desc]
  <2>1. desc' = [desc EXCEPT ![x] = X, ![y] = Y, ![z] = Z]
    BY DEF Submitted, Format
  <2>2. desc \in [Desc -> R]
    BY Layers DEF DriverTypes
  <2>3. desc'[x] = X /\ desc'[y] = Y /\ desc'[z] = Z
        /\ \A d \in Desc : d \notin {x, y, z} => desc'[d] = desc[d]
    <3> HIDE DEF X, Y, Z, R
    <3> QED  BY <1>1, <2>1, <2>2
  <2> QED  BY <2>3
<1>5. Busy' = Busy \cup {p} /\ p \notin Busy
  BY <1>1, Layers DEF Submitted, Busy, ThreadTypes
<1>6. idx'[p][1] = x /\ idx'[p][2] = y /\ idx'[p][3] = z
  BY <1>3, SMTT(30)
<1>7. Formatted(p)' /\ Owned(p)' = {x, y, z}
  <2>1. Owned(p)' = {x, y, z}
    BY <1>6 DEF Owned
  <2>2. /\ desc'[x].flags = {"NEXT"} /\ desc'[x].next = y
        /\ desc'[y].addr = <<"data", req[p].b>> /\ desc'[y].next = z
        /\ desc'[y].flags = IF req[p].write THEN {"NEXT"} ELSE {"WRITE", "NEXT"}
        /\ desc'[z].addr = <<"status", x>> /\ desc'[z].flags = {"WRITE"}
    BY <1>4, SMTT(30)
  <2>3. ops'[x].blk = req[p].b /\ info'[x].b = req[p].b
    BY <1>2, SMTT(30)
  <2>4. Formatted(p)'
    BY <1>1, <1>6, <2>2, <2>3 DEF Formatted
  <2> QED  BY <2>1, <2>4
<1>8. ASSUME NEW q \in Busy
      PROVE  Formatted(q)' /\ Owned(q)' = Owned(q) /\ Owned(q) \cap free = {}
  <2>1. Formatted(q) /\ Owned(q) \cap free = {} /\ q \in Procs /\ q # p
    BY <1>5, Layers DEF ChainInv, Busy
  <2>2. /\ idx[q][1] \in Desc \ {x, y, z} /\ idx[q][2] \in Desc \ {x, y, z}
        /\ idx[q][3] \in Desc \ {x, y, z}
    BY <1>1, <2>1, HeadOnce DEF Owned
  <2>3. idx'[q] = idx[q]
    BY <1>3, <2>1
  <2>4. /\ desc'[idx[q][1]] = desc[idx[q][1]] /\ desc'[idx[q][2]] = desc[idx[q][2]]
        /\ desc'[idx[q][3]] = desc[idx[q][3]]
        /\ ops'[idx[q][1]] = ops[idx[q][1]] /\ info'[idx[q][1]] = info[idx[q][1]]
    BY <1>2, <1>4, <2>2
  <2>5. Formatted(q)'
    BY <1>1, <2>1, <2>3, <2>4 DEF Formatted
  <2> QED  BY <2>1, <2>3, <2>5 DEF Owned
<1>9. ChainInv'
  <2>1. \A q \in Busy' : Formatted(q)' /\ Owned(q)' \cap free' = {}
    BY <1>1, <1>5, <1>7, <1>8
  <2>2. \A q, r \in Busy' : q # r => Owned(q)' \cap Owned(r)' = {}
    <3>1. \A q \in Busy : Owned(q)' \cap Owned(p)' = {}
      BY <1>1, <1>7, <1>8
    <3>2. \A q, r \in Busy : q # r => Owned(q)' \cap Owned(r)' = {}
      BY <1>8, Layers DEF ChainInv
    <3> QED  BY <1>5, <3>1, <3>2
  <2> QED  BY <2>1, <2>2 DEF ChainInv
<1>10. CountInv'
  <2>0. IsFiniteSet(free)
    BY Finite
  <2>1. Cardinality(free') \in Nat /\ Cardinality(free) = Cardinality(free') + 3
    <3>1. /\ Cardinality(free \ {x, y, z}) \in Nat
          /\ Cardinality(free) = Cardinality(free \ {x, y, z}) + 3
      BY <1>1, <2>0, ThreeLess, SMTT(30)
    <3> QED  BY <1>1, <3>1
  <2>2. Cardinality(Busy') = Cardinality(Busy) + 1
    BY <1>5, Finite, FS_AddElement
  <2>3. Cardinality(free) + 3 * Cardinality(Busy) = NUM
    BY Layers DEF CountInv
  <2>4. Cardinality(free') + 3 * Cardinality(Busy') = NUM
    BY <2>1, <2>2, <2>3, Finite, SMTT(30)
  <2> QED  BY <2>4 DEF CountInv
<1> QED  BY <1>9, <1>10

(* free_chain() returns the three descriptors of the request. *)
LEMMA ChainFinished ==
  ASSUME DiskAssumption, IInv, NEW p \in Procs, Finished(p)
  PROVE  ChainInv' /\ CountInv'
<1>1. /\ p \in Busy /\ free' = free \cup Owned(p) /\ UNCHANGED <<req, ops, idx>>
      /\ WakeAs(p, "idle", "wait_desc", "alloc")
  BY DEF Finished, Busy
<1>2. Busy' = Busy \ {p}
  BY <1>1, Waked DEF Busy
<1>3. Formatted(p) /\ Owned(p) \cap free = {} /\ Owned(p) \subseteq Desc /\ idx[p][1] \in Desc
  <2>1. Formatted(p) /\ Owned(p) \cap free = {}
    BY <1>1, Layers DEF ChainInv
  <2>2. idx[p][1] \in Desc /\ idx[p][2] \in Desc /\ idx[p][3] \in Desc
    BY <1>1, HeadOnce
  <2> QED  BY <2>1, <2>2 DEF Owned
<1>4. ASSUME NEW q \in Busy'
      PROVE  Formatted(q)' /\ Owned(q)' = Owned(q) /\ Owned(q) \cap (free \cup Owned(p)) = {}
  <2>1. q \in Busy /\ q # p
    BY <1>2
  <2>2. Formatted(q) /\ Owned(q) \cap free = {} /\ Owned(q) \cap Owned(p) = {}
    BY <1>1, <2>1, Layers DEF ChainInv
  <2>3. idx[q][1] \in Desc /\ idx[q][2] \in Desc /\ idx[q][3] \in Desc /\ idx[q][1] # idx[p][1]
    BY <1>1, <2>1, HeadOnce
  <2>4. /\ desc'[idx[q][1]] = desc[idx[q][1]] /\ desc'[idx[q][2]] = desc[idx[q][2]]
        /\ desc'[idx[q][3]] = desc[idx[q][3]]
    BY <2>2, <2>3 DEF Finished, Owned
  <2>5. info'[idx[q][1]] = info[idx[q][1]]
    BY <1>3, <2>3, Layers DEF Finished, DriverTypes
  <2>6. Formatted(q)'
    BY <1>1, <2>2, <2>4, <2>5 DEF Formatted
  <2> QED  BY <1>1, <2>2, <2>6 DEF Owned
<1>5. ChainInv'
  <2>1. \A q, r \in Busy' : q # r => Owned(q)' \cap Owned(r)' = {}
    BY <1>2, <1>4, Layers DEF ChainInv
  <2> QED  BY <1>1, <1>4, <2>1 DEF ChainInv
<1>6. CountInv'
  <2>1. IsFiniteSet(free') /\ free = free' \ {idx[p][1], idx[p][2], idx[p][3]}
    <3>1. free' \subseteq 0..(NUM - 1)
      BY <1>1, <1>3, Layers DEF DriverTypes, Desc
    <3>2. IsFiniteSet(0..(NUM - 1))
      <4>1. 0 \in Int /\ NUM - 1 \in Int
        BY SMTT(30) DEF DiskAssumption
      <4> QED  BY <4>1, FS_Interval
    <3>3. IsFiniteSet(free')
      BY <3>1, <3>2, FS_Subset
    <3> QED  BY <1>1, <1>3, <3>3 DEF Owned
  <2>2. /\ idx[p][1] \in free' /\ idx[p][2] \in free' /\ idx[p][3] \in free'
        /\ idx[p][1] # idx[p][2] /\ idx[p][1] # idx[p][3] /\ idx[p][2] # idx[p][3]
    BY <1>1, <1>3 DEF Owned, Formatted
  <2>3. Cardinality(free') = Cardinality(free) + 3
    <3>1. Cardinality(free') = Cardinality(free' \ {idx[p][1], idx[p][2], idx[p][3]}) + 3
      BY <2>1, <2>2, ThreeLess, SMTT(30)
    <3> QED  BY <2>1, <3>1
  <2>4. Cardinality(Busy') = Cardinality(Busy) - 1
    BY <1>1, <1>2, Finite, FS_RemoveElement
  <2>5. Cardinality(free) + 3 * Cardinality(Busy) = NUM
    BY Layers DEF CountInv
  <2>6. Cardinality(free') + 3 * Cardinality(Busy') = NUM
    BY <2>3, <2>4, <2>5, Finite, SMTT(30)
  <2> QED  BY <2>6 DEF CountInv
<1> QED  BY <1>5, <1>6

(* No step mixes up the chains of two requests, or loses a descriptor. *)
LEMMA ChainStep ==
  ASSUME DiskAssumption, IInv, Next
  PROVE  ChainInv' /\ CountInv'
<1>0. pc \in [Procs -> Labels]
  BY Layers DEF ThreadTypes
<1>1. ASSUME NEW p \in Procs, NEW b \in Bufs, NEW w \in BOOLEAN, NEW v \in Vals, Call(p, b, w, v)
      PROVE  ChainInv' /\ CountInv'
  <2>1. Busy' = Busy /\ p \notin Busy /\ Busy \subseteq Procs
    BY <1>0, <1>1 DEF Call, Busy
  <2>2. \A q \in Busy : req'[q] = req[q]
    BY <1>1, <2>1, Layers DEF Call, ThreadTypes
  <2> QED  BY <1>1, <2>1, <2>2, ChainKept DEF Call
<1>2. ASSUME NEW p \in Procs, AllocFail(p)
      PROVE  ChainInv' /\ CountInv'
  <2>1. pc[p] = "alloc" /\ UNCHANGED <<free, ops, idx, req, info>>
    BY <1>2 DEF AllocFail
  <2>2. Busy' = Busy
    BY <1>2, <2>1, AllocFailed DEF Busy
  <2> QED  BY <1>2, <2>1, <2>2, AllocFailed, ChainKept
<1>3. ASSUME NEW p \in Procs, Notify(p) \/ Resleep(p) \/ Woken(p)
      PROVE  ChainInv' /\ CountInv'
  <2>1. Busy' = Busy
    BY <1>0, <1>3 DEF Notify, Resleep, Woken, Busy
  <2> QED  BY <1>3, <2>1, ChainKept DEF Notify, Resleep, Woken
<1>4. ASSUME NEW p \in Procs, Served(p)
      PROVE  ChainInv' /\ CountInv'
  <2>1. Busy' = Busy
    BY <1>4 DEF Served, Busy
  <2>2. \A d \in Desc : info'[d].b = info[d].b
    <3>1. info' = [info EXCEPT ![idx[p][1]].status = 0]
      BY <1>4 DEF Served
    <3>2. info \in [Desc -> [b : AnyBuf, status : {0, Undone}]]
      BY Layers DEF DriverTypes
    <3> QED  BY <3>1, <3>2, SMTT(30)
  <2> QED  BY <1>4, <2>1, <2>2, ChainKept DEF Served
<1>5. ASSUME UNCHANGED <<free, ops, idx, req, desc, info, pc>>
      PROVE  ChainInv' /\ CountInv'
  <2>1. Busy' = Busy
    BY <1>5 DEF Busy
  <2> QED  BY <1>5, <2>1, ChainKept
<1> QED  BY <1>1, <1>2, <1>3, <1>4, <1>5, Steps, ChainSubmitted, ChainFinished
            DEF DevTake, IntrEnter, IntrEnd, IntrExit

-----------------------------------------------------------------------------
(* The rings *)

(* A sleeping thread sleeps on, and the status of its request stays, unless    *)
(* its head is in D.                                                           *)
Settled(D) ==
  \A p \in Procs : pc[p] = "asleep" /\ idx[p][1] \notin D =>
    /\ pc'[p] = "asleep" /\ idx'[p] = idx[p]
    /\ info'[idx[p][1]].status = info[idx[p][1]].status

(* A request goes on waiting. *)
LEMMA WaitKept ==
  ASSUME NEW D, Settled(D), NEW h, h \notin D, NEW s, Waiting(h, s)
  PROVE  \E p \in Procs : pc'[p] = "asleep" /\ idx'[p][1] = h /\ info'[h].status = s
BY DEF Waiting, Settled

(* A waiting request is that of a thread, and nothing but the head of its chain. *)
LEMMA WaitHead ==
  ASSUME IInv, NEW h, NEW s, Waiting(h, s)
  PROVE  /\ h \in Desc \ free /\ info[h].status = s
         /\ \A q \in Busy : h # idx[q][2] /\ (h = idx[q][1] => pc[q] = "asleep")
<1>1. PICK p \in Procs : pc[p] = "asleep" /\ idx[p][1] = h /\ info[h].status = s
  BY DEF Waiting
<1>2. p \in Busy
  BY <1>1 DEF Busy
<1>3. Owned(p) \cap free = {}
  BY <1>2, Layers DEF ChainInv
<1>4. h \in Desc
  BY <1>1, <1>2, HeadOnce
<1> QED  BY <1>1, <1>2, <1>3, <1>4, HeadOnce DEF Owned

(* The avail ring when nothing is published and nothing taken. *)
LEMMA AvailKept ==
  ASSUME IInv, NEW D, Settled(D), UNCHANGED <<seen, availIdx>>, inflight' \subseteq inflight,
         \A k \in Asks : Asked(k)' = Asked(k),
         \A h \in D : h \in inflight \/ info[h].status # Undone
  PROVE  AvailInv'
<1>1. Asks' = Asks
  BY DEF Asks, Gap
<1>2. ASSUME NEW k \in Asks
      PROVE  Waiting(Asked(k), Undone)' /\ Asked(k)' \notin inflight'
  <2>1. Waiting(Asked(k), Undone) /\ Asked(k) \notin inflight
    BY Layers DEF AvailInv
  <2>2. Asked(k) \notin D
    BY <2>1 DEF Waiting
  <2>3. \E p \in Procs : pc'[p] = "asleep" /\ idx'[p][1] = Asked(k) /\ info'[Asked(k)].status = Undone
    BY <2>1, <2>2, WaitKept
  <2>4. Asked(k)' = Asked(k)
    OBVIOUS
  <2> QED  BY <2>1, <2>3, <2>4 DEF Waiting
<1>3. \A j, k \in Asks : Asked(j)' = Asked(k)' => j = k
  BY Layers DEF AvailInv
<1> QED  BY <1>1, <1>2, <1>3 DEF AvailInv

(* The requests of the device when it gets no other. *)
LEMMA InflightKept ==
  ASSUME IInv, NEW D, Settled(D), inflight' \subseteq inflight \ D
  PROVE  InflightInv'
<1>1. ASSUME NEW h \in inflight'
      PROVE  Waiting(h, Undone)'
  <2>1. h \notin D /\ Waiting(h, Undone)
    BY Layers DEF InflightInv
  <2>2. \E p \in Procs : pc'[p] = "asleep" /\ idx'[p][1] = h /\ info'[h].status = Undone
    BY <2>1, WaitKept
  <2> QED  BY <2>2 DEF Waiting
<1> QED  BY <1>1 DEF InflightInv

(* The used ring when nothing is added and nothing looked at. *)
LEMMA UsedKept ==
  ASSUME IInv, NEW D, Settled(D), UNCHANGED <<used, usedIdx, used_idx>>,
         \A h \in D : info[h].status # 0
  PROVE  UsedInv'
<1>1. Answers' = Answers
  BY DEF Answers, Gap
<1>2. ASSUME NEW k
      PROVE  Answered(k)' = Answered(k)
  BY DEF Answered, Entry
<1>3. ASSUME NEW k \in Answers
      PROVE  Waiting(Answered(k), 0)'
  <2>1. Waiting(Answered(k), 0)
    BY Layers DEF UsedInv
  <2>2. Answered(k) \notin D
    BY <2>1 DEF Waiting
  <2>3. \E p \in Procs : pc'[p] = "asleep" /\ idx'[p][1] = Answered(k) /\ info'[Answered(k)].status = 0
    BY <2>1, <2>2, WaitKept
  <2> QED  BY <1>2, <2>3 DEF Waiting
<1>4. \A j, k \in Answers : Answered(j)' = Answered(k)' => j = k
  BY <1>2, Layers DEF UsedInv
<1> QED  BY <1>1, <1>3, <1>4 DEF UsedInv

(* The ends of a request when no thread comes to one. *)
LEMMA EndsKept ==
  ASSUME IInv, UNCHANGED <<avail, availIdx>>,
         \A q \in Procs : pc'[q] \in {"notify", "relock"} =>
           /\ pc[q] = pc'[q] /\ idx'[q] = idx[q]
           /\ info'[idx[q][1]].status = info[idx[q][1]].status
  PROVE  EndsInv'
<1>1. ASSUME NEW q \in Procs, pc'[q] = "notify"
      PROVE  avail'[availIdx' % NUM] = idx'[q][1] /\ info'[idx'[q][1]].status = Undone
  <2>1. pc[q] = "notify" /\ idx'[q] = idx[q] /\ info'[idx[q][1]].status = info[idx[q][1]].status
    BY <1>1
  <2> QED  BY <2>1, Layers DEF EndsInv
<1>2. ASSUME NEW q \in Procs, pc'[q] = "relock"
      PROVE  info'[idx'[q][1]].status = 0
  <2>1. pc[q] = "relock" /\ idx'[q] = idx[q] /\ info'[idx[q][1]].status = info[idx[q][1]].status
    BY <1>2
  <2> QED  BY <2>1, Layers DEF EndsInv
<1> QED  BY <1>1, <1>2 DEF EndsInv

(* Nothing moves in the rings. *)
LEMMA RingKept ==
  ASSUME IInv, Settled({}), UNCHANGED <<avail, availIdx, seen, inflight, used, usedIdx, used_idx>>
  PROVE  AvailInv' /\ InflightInv' /\ UsedInv'
<1>1. \A k \in Asks : Asked(k)' = Asked(k)
  BY DEF Asked, Entry
<1>2. AvailInv'
  BY <1>1, AvailKept
<1>3. InflightInv'
  BY InflightKept
<1>4. UsedInv'
  BY UsedKept
<1> QED  BY <1>2, <1>3, <1>4

(* An entry behind a window of heads, with a descriptor that is no head: the   *)
(* counter does not catch up with the start of the window.                     *)
LEMMA Pushed ==
  ASSUME DiskAssumption, NEW a \in Counters, NEW b \in Counters, NEW r, NEW d \in Desc,
         \A k \in 0..Gap(a, b) : Entry(r, a, k) \in Desc \ {d},
         \A j, k \in 0..Gap(a, b) : Entry(r, a, j) = Entry(r, a, k) => j = k
  PROVE  Gap(a, Next16(b)) = Gap(a, b) + 1
<1> DEFINE n == Gap(a, b)
<1>1. n \in Nat /\ n + 1 \in Nat /\ (n + 1) - 1 = n
  <2>1. n \in Counters
    BY GapType
  <2> QED  BY <2>1, SMTT(30) DEF Counters
<1>2. n + 1 < NUM
  <2> HIDE DEF n
  <2>1. \A k \in 0..((n + 1) - 1) : Entry(r, a, k) \in Desc \ {d}
    BY <1>1 DEF n
  <2>2. \A j, k \in 0..((n + 1) - 1) : Entry(r, a, j) = Entry(r, a, k) => j = k
    BY <1>1 DEF n
  <2> QED  BY <1>1, <2>1, <2>2, NotFull
<1>3. n + 1 < IdxMod
  BY <1>1, <1>2, Sizes, SMTT(30)
<1> QED  BY <1>3, GapPush

(* A status is done or not. *)
LEMMA UndoneNotZero == Undone # 0
BY SMTT(30) DEF Undone

(* The counters of a window, and the entry behind it. *)
LEMMA Window ==
  ASSUME DiskAssumption, NEW a \in Counters, NEW b \in Counters, NEW r
  PROVE  /\ Gap(a, b) \in Nat /\ Gap(a, b) \in 0..Gap(a, b)
         /\ \A k \in 0..Gap(a, b) : k \in 0..(Gap(a, b) - 1) \/ k = Gap(a, b)
         /\ 0..(Gap(a, b) - 1) \subseteq 0..Gap(a, b)
         /\ Entry(r, a, Gap(a, b)) = r[b % NUM] /\ Entry(r, a, 0) = r[a % NUM]
<1>1. Gap(a, b) \in Counters /\ b % NUM = (a + Gap(a, b)) % NUM
  BY GapType
<1> DEFINE n == Gap(a, b)
<1>2. n \in Nat /\ a \in Int
  BY <1>1, SMTT(30) DEF Counters
<1> HIDE DEF n
<1>3. /\ n \in 0..n /\ \A k \in 0..n : k \in 0..(n - 1) \/ k = n
      /\ 0..(n - 1) \subseteq 0..n
  BY <1>2, SMTT(30)
<1>4. a + 0 = a
  BY <1>2, SMTT(30)
<1> QED  BY <1>1, <1>2, <1>3, <1>4 DEF n, Entry

(* A window of distinct heads in Desc \ {d} with another one behind it. *)
LEMMA Appended ==
  ASSUME DiskAssumption, NEW a \in Counters, NEW b \in Counters, NEW r, NEW d \in Desc,
         \A k \in 0..(Gap(a, b) - 1) : Entry(r, a, k) \in Desc \ {d, r[b % NUM]},
         \A j, k \in 0..(Gap(a, b) - 1) : Entry(r, a, j) = Entry(r, a, k) => j = k,
         r[b % NUM] \in Desc \ {d}
  PROVE  /\ \A j, k \in 0..Gap(a, b) : Entry(r, a, j) = Entry(r, a, k) => j = k
         /\ Gap(a, Next16(b)) = Gap(a, b) + 1
         /\ 0..(Gap(a, Next16(b)) - 1) = 0..Gap(a, b)
<1> DEFINE n == Gap(a, b)
<1>1. /\ n \in Nat /\ Entry(r, a, n) = r[b % NUM]
      /\ \A k \in 0..n : k \in 0..(n - 1) \/ k = n
  BY Window
<1>2. \A k \in 0..n : Entry(r, a, k) \in Desc \ {d}
  BY <1>1
<1>3. \A j, k \in 0..n : Entry(r, a, j) = Entry(r, a, k) => j = k
  BY <1>1
<1>4. Gap(a, Next16(b)) = n + 1
  BY <1>2, <1>3, Pushed
<1>5. (n + 1) - 1 = n
  BY <1>1, SMTT(30)
<1> QED  BY <1>3, <1>4, <1>5

(* A window of heads whose first one is taken. *)
LEMMA Removed ==
  ASSUME DiskAssumption, NEW a \in Counters, NEW b \in Counters, NEW r, a # b
  PROVE  /\ 0 \in 0..(Gap(a, b) - 1) /\ Entry(r, a, 0) = r[a % NUM]
         /\ \A k \in 0..(Gap(Next16(a), b) - 1) :
              /\ k + 1 \in 0..(Gap(a, b) - 1) /\ k + 1 # 0
              /\ Entry(r, Next16(a), k) = Entry(r, a, k + 1)
         /\ \A j, k \in 0..(Gap(Next16(a), b) - 1) : j + 1 = k + 1 => j = k
<1> DEFINE n == Gap(a, b)
           m == Gap(Next16(a), b)
<1>1. n \in Counters /\ n # 0 /\ m = n - 1 /\ Entry(r, a, 0) = r[a % NUM]
  BY GapType, GapPop, Window
<1> HIDE DEF n, m
<1>2. n \in Nat
  BY <1>1, SMTT(30) DEF Counters
<1>3. /\ 0 \in 0..(n - 1)
      /\ \A k \in 0..(m - 1) : k \in Nat /\ k + 1 \in 0..(n - 1) /\ k + 1 # 0
      /\ \A j, k \in 0..(m - 1) : j + 1 = k + 1 => j = k
  BY <1>1, <1>2, SMTT(30)
<1>4. \A k \in Nat : Entry(r, Next16(a), k) = Entry(r, a, k + 1)
  BY EntryPop
<1> QED  BY <1>1, <1>3, <1>4 DEF n, m

(* The index of the avail ring moves on: the new entry is that of the thread. *)
LEMMA AvailNotify ==
  ASSUME DiskAssumption, IInv, NEW p \in Procs, Notify(p), Settled({})
  PROVE  AvailInv'
<1> DEFINE n == Gap(seen, availIdx)
           h == idx[p][1]
<1>1. /\ p \in Busy /\ pc[p] = "notify" /\ pc'[p] = "asleep"
      /\ availIdx' = Next16(availIdx) /\ UNCHANGED <<seen, avail, info, inflight, idx>>
  BY Layers DEF Notify, Busy, ThreadTypes
<1>2. seen \in Counters /\ availIdx \in Counters
  BY Layers DEF RingTypes
<1>3. avail[availIdx % NUM] = h /\ info[h].status = Undone
  BY <1>1, Layers DEF EndsInv
<1>4. h \in Desc /\ idx[p][2] \in Desc /\ h # idx[p][2]
  BY <1>1, HeadOnce
<1>5. \A g : Waiting(g, Undone) => g \in Desc /\ g # idx[p][2] /\ g # h
  <2>1. ASSUME NEW g, Waiting(g, Undone)
        PROVE  g \in Desc /\ g # idx[p][2] /\ g # h
    <3>1. g \in Desc /\ g # idx[p][2] /\ (g = h => pc[p] = "asleep")
      BY <1>1, <2>1, WaitHead
    <3> QED  BY <1>1, <3>1
  <2> QED  BY <2>1
<1>6. \A k \in 0..(n - 1) : Waiting(Entry(avail, seen, k), Undone) /\ Entry(avail, seen, k) \notin inflight
  BY Layers DEF AvailInv, Asks, Asked
<1>7. \A j, k \in 0..(n - 1) : Entry(avail, seen, j) = Entry(avail, seen, k) => j = k
  BY Layers DEF AvailInv, Asks, Asked
<1>8. /\ \A j, k \in 0..n : Entry(avail, seen, j) = Entry(avail, seen, k) => j = k
      /\ 0..(Gap(seen, Next16(availIdx)) - 1) = 0..n
  <2>1. \A k \in 0..(n - 1) : Entry(avail, seen, k) \in Desc \ {idx[p][2], avail[availIdx % NUM]}
    BY <1>3, <1>5, <1>6
  <2>2. avail[availIdx % NUM] \in Desc \ {idx[p][2]}
    BY <1>3, <1>4
  <2> QED  BY <1>2, <1>4, <1>7, <2>1, <2>2, Appended
<1>9. Asks' = 0..n /\ \A k : Asked(k)' = Entry(avail, seen, k)
  <2>1. Asks' = 0..(Gap(seen, Next16(availIdx)) - 1)
    BY <1>1 DEF Asks, Gap
  <2>2. \A k : Asked(k)' = Entry(avail, seen, k)
    BY <1>1 DEF Asked, Entry
  <2> QED  BY <1>8, <2>1, <2>2
<1> HIDE DEF n, h
<1>10. ASSUME NEW k \in 0..n
       PROVE  /\ Entry(avail, seen, k) \notin inflight
              /\ \E q \in Procs : /\ pc'[q] = "asleep" /\ idx'[q][1] = Entry(avail, seen, k)
                                  /\ info'[Entry(avail, seen, k)].status = Undone
  <2>1. CASE k \in 0..(n - 1)
    <3>1. Waiting(Entry(avail, seen, k), Undone) /\ Entry(avail, seen, k) \notin inflight
      BY <1>6, <2>1
    <3>2. Entry(avail, seen, k) \notin {}
      OBVIOUS
    <3> QED  BY <3>1, <3>2, WaitKept
  <2>2. CASE k = n
    <3>1. Entry(avail, seen, k) = h
      BY <1>2, <1>3, <2>2, Window DEF n
    <3>2. h \notin inflight
      BY <1>5, Layers DEF InflightInv
    <3>3. pc'[p] = "asleep" /\ idx'[p][1] = h /\ info'[h].status = Undone
      BY <1>1, <1>3 DEF h
    <3> QED  BY <3>1, <3>2, <3>3
  <2> QED  BY <1>2, <2>1, <2>2, Window DEF n
<1>11. \A k \in Asks' : Waiting(Asked(k), Undone)' /\ Asked(k)' \notin inflight'
  <2>1. ASSUME NEW k \in Asks'
        PROVE  Waiting(Asked(k), Undone)' /\ Asked(k)' \notin inflight'
    <3>1. k \in 0..n /\ Asked(k)' = Entry(avail, seen, k)
      BY <1>9
    <3> QED  BY <1>1, <1>10, <3>1 DEF Waiting
  <2> QED  BY <2>1
<1>12. \A j, k \in Asks' : Asked(j)' = Asked(k)' => j = k
  BY <1>8, <1>9
<1> QED  BY <1>11, <1>12 DEF AvailInv

(* The device takes the first entry: the others are left, in their order. *)
LEMMA AvailTaken ==
  ASSUME DiskAssumption, IInv, DevTake
  PROVE  AvailInv' /\ InflightInv'
<1> DEFINE h == avail[seen % NUM]
<1>1. /\ seen # availIdx /\ inflight' = inflight \cup {h} /\ seen' = Next16(seen)
      /\ UNCHANGED <<avail, availIdx, info, pc, idx>>
  BY DEF DevTake
<1>2. seen \in Counters /\ availIdx \in Counters
  BY Layers DEF RingTypes
<1>3. 0 \in Asks /\ Asked(0) = h
  BY <1>1, <1>2, Removed DEF Asks, Asked
<1>4. /\ Asks' = 0..(Gap(Next16(seen), availIdx) - 1)
      /\ \A k : Asked(k)' = Entry(avail, Next16(seen), k)
  <2>1. Asks' = 0..(Gap(Next16(seen), availIdx) - 1)
    BY <1>1 DEF Asks, Gap
  <2>2. \A k : Asked(k)' = Entry(avail, Next16(seen), k)
    BY <1>1 DEF Asked, Entry
  <2> QED  BY <2>1, <2>2
<1>5. \A k \in Asks' : k + 1 \in Asks /\ k + 1 # 0 /\ Asked(k)' = Asked(k + 1)
  <2>1. ASSUME NEW k \in 0..(Gap(Next16(seen), availIdx) - 1)
        PROVE  /\ k + 1 \in 0..(Gap(seen, availIdx) - 1) /\ k + 1 # 0
               /\ Entry(avail, Next16(seen), k) = Entry(avail, seen, k + 1)
    BY <1>1, <1>2, Removed, SMTT(30)
  <2> QED  BY <1>4, <2>1 DEF Asks, Asked
<1>6. \A j, k \in Asks' : j + 1 = k + 1 => j = k
  <2>1. \A j, k \in 0..(Gap(Next16(seen), availIdx) - 1) : j + 1 = k + 1 => j = k
    BY <1>1, <1>2, Removed
  <2> QED  BY <1>4, <2>1
<1> HIDE DEF h
<1>7. ASSUME NEW k \in Asks'
      PROVE  Waiting(Asked(k), Undone)' /\ Asked(k)' \notin inflight'
  <2>1. PICK j \in Asks : j # 0 /\ Asked(k)' = Asked(j)
    BY <1>5
  <2>2. Waiting(Asked(j), Undone) /\ Asked(j) \notin inflight /\ Asked(j) # h
    BY <1>3, <2>1, Layers DEF AvailInv
  <2>3. \E p \in Procs : pc'[p] = "asleep" /\ idx'[p][1] = Asked(j) /\ info'[Asked(j)].status = Undone
    BY <1>1, <2>2 DEF Waiting
  <2> QED  BY <1>1, <2>1, <2>2, <2>3 DEF Waiting
<1>8. \A j, k \in Asks' : Asked(j)' = Asked(k)' => j = k
  <2>1. ASSUME NEW j \in Asks', NEW k \in Asks', Asked(j)' = Asked(k)'
        PROVE  j = k
    <3>1. j + 1 \in Asks /\ k + 1 \in Asks /\ Asked(j + 1) = Asked(k + 1)
      BY <1>5, <2>1
    <3>2. j + 1 = k + 1
      BY <3>1, Layers DEF AvailInv
    <3> QED  BY <1>6, <3>2
  <2> QED  BY <2>1
<1>9. InflightInv'
  <2>1. Waiting(h, Undone)
    BY <1>3, Layers DEF AvailInv
  <2>2. \A g \in inflight' : Waiting(g, Undone)
    BY <1>1, <2>1, Layers DEF InflightInv
  <2> QED  BY <1>1, <2>2 DEF InflightInv, Waiting
<1> QED  BY <1>7, <1>8, <1>9 DEF AvailInv

(* A request that the device does: the other requests are left alone. *)
LEMMA ServedSettled ==
  ASSUME IInv, NEW p \in Procs, Served(p)
  PROVE  /\ Settled({idx[p][1]}) /\ p \in Busy /\ idx[p][1] \in Desc
         /\ info[idx[p][1]].status = Undone /\ info'[idx[p][1]].status = 0
         /\ \A d \in Desc \ {idx[p][1]} : info'[d] = info[d]
<1>1. p \in Busy /\ idx[p][1] \in inflight /\ UNCHANGED <<pc, idx>>
  BY DEF Served, Busy
<1>2. idx[p][1] \in Desc
  BY <1>1, HeadOnce
<1>3. info[idx[p][1]].status = Undone
  BY <1>1, Layers DEF InflightInv, Waiting
<1>4. /\ info'[idx[p][1]].status = 0
      /\ \A d \in Desc \ {idx[p][1]} : info'[d] = info[d]
  <2>1. /\ info' = [info EXCEPT ![idx[p][1]].status = 0]
        /\ info \in [Desc -> [b : AnyBuf, status : {0, Undone}]]
    BY Layers DEF Served, DriverTypes
  <2> QED  BY <1>2, <2>1, SMTT(30)
<1>5. Settled({idx[p][1]})
  <2>1. ASSUME NEW q \in Procs, pc[q] = "asleep", idx[q][1] \notin {idx[p][1]}
        PROVE  info'[idx[q][1]].status = info[idx[q][1]].status
    <3>1. q \in Busy
      BY <2>1 DEF Busy
    <3>2. idx[q][1] \in Desc \ {idx[p][1]}
      BY <2>1, <3>1, HeadOnce
    <3> QED  BY <1>4, <3>2
  <2> QED  BY <1>1, <2>1 DEF Settled
<1> QED  BY <1>1, <1>2, <1>3, <1>4, <1>5

(* The device adds the head to the used ring, behind the ones not looked at. *)
LEMMA UsedServed ==
  ASSUME DiskAssumption, IInv, NEW p \in Procs, Served(p)
  PROVE  UsedInv'
<1> DEFINE n == Gap(used_idx, usedIdx)
           h == idx[p][1]
<1>1. /\ p \in Busy /\ pc'[p] = "asleep" /\ idx' = idx /\ used' = [used EXCEPT ![usedIdx % NUM] = h]
      /\ usedIdx' = Next16(usedIdx) /\ used_idx' = used_idx
  BY DEF Served, Busy
<1>2. /\ used_idx \in Counters /\ usedIdx \in Counters /\ used \in [Desc -> Desc]
      /\ usedIdx % NUM \in Desc
  <2>1. used_idx \in Counters /\ usedIdx \in Counters /\ used \in [Desc -> Desc]
    BY Layers DEF RingTypes
  <2>2. usedIdx \in Int
    BY <2>1, SMTT(30) DEF Counters
  <2> QED  BY <2>1, <2>2, Slot
<1>3. Settled({h}) /\ h \in Desc /\ info[h].status = Undone /\ info'[h].status = 0
  BY ServedSettled
<1>4. idx[p][2] \in Desc /\ h # idx[p][2]
  BY <1>1, HeadOnce
<1>5. \A g : Waiting(g, 0) => g \in Desc /\ g # idx[p][2] /\ g # h
  <2>1. ASSUME NEW g, Waiting(g, 0)
        PROVE  g \in Desc /\ g # idx[p][2] /\ g # h
    <3>1. g \in Desc /\ g # idx[p][2] /\ info[g].status = 0
      BY <1>1, <2>1, WaitHead
    <3> QED  BY <1>3, <3>1, UndoneNotZero
  <2> QED  BY <2>1
<1>6. \A k \in 0..(n - 1) : Waiting(Entry(used, used_idx, k), 0)
  BY Layers DEF UsedInv, Answers, Answered
<1>7. \A j, k \in 0..(n - 1) : Entry(used, used_idx, j) = Entry(used, used_idx, k) => j = k
  BY Layers DEF UsedInv, Answers, Answered
<1>8. n \in Nat /\ n < NUM
  <2>1. n \in Nat
    BY <1>2, Window
  <2>2. \A k \in 0..(n - 1) : Entry(used, used_idx, k) \in Desc \ {idx[p][2]}
    BY <1>5, <1>6
  <2> HIDE DEF n
  <2> QED  BY <1>4, <1>7, <2>1, <2>2, NotFull
<1>9. \A k \in 0..(n - 1) : Entry(used', used_idx, k) = Entry(used, used_idx, k)
  <2>1. n < NUM /\ \A i \in Desc : i # usedIdx % NUM => used'[i] = used[i]
    BY <1>1, <1>2, <1>8
  <2>2. \A k \in 0..(n - 1) : (used_idx + k) % NUM \in Desc /\ (used_idx + k) % NUM # usedIdx % NUM
    BY <1>2, <2>1, SlotApart
  <2> QED  BY <2>1, <2>2 DEF Entry
<1>10. used'[usedIdx % NUM] = h
  BY <1>1, <1>2
<1>11. /\ \A j, k \in 0..n : Entry(used', used_idx, j) = Entry(used', used_idx, k) => j = k
       /\ 0..(Gap(used_idx, Next16(usedIdx)) - 1) = 0..n
  <2>1. \A k \in 0..(n - 1) : Entry(used', used_idx, k) \in Desc \ {idx[p][2], used'[usedIdx % NUM]}
    BY <1>5, <1>6, <1>9, <1>10
  <2>2. \A j, k \in 0..(n - 1) : Entry(used', used_idx, j) = Entry(used', used_idx, k) => j = k
    BY <1>7, <1>9
  <2>3. used'[usedIdx % NUM] \in Desc \ {idx[p][2]}
    BY <1>3, <1>4, <1>10
  <2> QED  BY <1>2, <1>4, <2>1, <2>2, <2>3, Appended
<1>12. Answers' = 0..n /\ \A k : Answered(k)' = Entry(used', used_idx, k)
  <2>1. Answers' = 0..(Gap(used_idx, Next16(usedIdx)) - 1)
    BY <1>1 DEF Answers, Gap
  <2>2. \A k : Answered(k)' = Entry(used', used_idx, k)
    BY <1>1 DEF Answered, Entry
  <2> QED  BY <1>11, <2>1, <2>2
<1> HIDE DEF n, h
<1>13. ASSUME NEW k \in 0..n
       PROVE  \E q \in Procs : /\ pc'[q] = "asleep" /\ idx'[q][1] = Entry(used', used_idx, k)
                               /\ info'[Entry(used', used_idx, k)].status = 0
  <2>1. CASE k \in 0..(n - 1)
    <3>1. Waiting(Entry(used, used_idx, k), 0)
      BY <1>6, <2>1
    <3>2. Settled({h}) /\ Entry(used, used_idx, k) \notin {h}
      BY <1>3, <1>5, <3>1
    <3>3. \E q \in Procs : /\ pc'[q] = "asleep" /\ idx'[q][1] = Entry(used, used_idx, k)
                           /\ info'[Entry(used, used_idx, k)].status = 0
      BY <3>1, <3>2, WaitKept
    <3> QED  BY <1>9, <2>1, <3>3
  <2>2. CASE k = n
    <3>1. Entry(used', used_idx, k) = h
      BY <1>2, <1>10, <2>2, Window DEF n
    <3>2. pc'[p] = "asleep" /\ idx'[p][1] = h /\ info'[h].status = 0
      BY <1>1, <1>3 DEF h
    <3> QED  BY <3>1, <3>2
  <2> QED  BY <1>2, <2>1, <2>2, Window DEF n
<1>14. \A k \in Answers' : Waiting(Answered(k), 0)'
  <2>1. ASSUME NEW k \in Answers'
        PROVE  Waiting(Answered(k), 0)'
    <3>1. k \in 0..n /\ Answered(k)' = Entry(used', used_idx, k)
      BY <1>12
    <3> QED  BY <1>13, <3>1 DEF Waiting
  <2> QED  BY <2>1
<1>15. \A j, k \in Answers' : Answered(j)' = Answered(k)' => j = k
  BY <1>11, <1>12
<1> QED  BY <1>14, <1>15 DEF UsedInv

(* The handler wakes one thread, whose request the device had done. *)
LEMMA WokenSettled ==
  ASSUME IInv, NEW p \in Procs, Woken(p)
  PROVE  /\ Settled({idx[p][1]}) /\ p \in Busy /\ info[idx[p][1]].status = 0
         /\ \A q \in Procs : q # p => pc'[q] = pc[q]
<1>1. p \in Busy /\ info[idx[p][1]].status = 0 /\ UNCHANGED <<info, idx>>
  BY DEF Woken, Busy
<1>2. \A q \in Procs : q # p => pc'[q] = pc[q]
  BY Layers DEF Woken, ThreadTypes
<1>3. Settled({idx[p][1]})
  BY <1>1, <1>2 DEF Settled
<1> QED  BY <1>1, <1>2, <1>3

(* The handler looks at the first entry: the others are left, in their order. *)
LEMMA UsedWoken ==
  ASSUME DiskAssumption, IInv, NEW p \in Procs, Woken(p)
  PROVE  UsedInv'
<1> DEFINE h == idx[p][1]
<1>1. /\ used_idx # usedIdx /\ used_idx' = Next16(used_idx) /\ UNCHANGED <<used, usedIdx>>
      /\ used[used_idx % NUM] = h
  BY DEF Woken
<1>2. used_idx \in Counters /\ usedIdx \in Counters
  BY Layers DEF RingTypes
<1>3. 0 \in Answers /\ Answered(0) = h
  BY <1>1, <1>2, Removed DEF Answers, Answered
<1>4. /\ Answers' = 0..(Gap(Next16(used_idx), usedIdx) - 1)
      /\ \A k : Answered(k)' = Entry(used, Next16(used_idx), k)
  <2>1. Answers' = 0..(Gap(Next16(used_idx), usedIdx) - 1)
    BY <1>1 DEF Answers, Gap
  <2>2. \A k : Answered(k)' = Entry(used, Next16(used_idx), k)
    BY <1>1 DEF Answered, Entry
  <2> QED  BY <2>1, <2>2
<1>5. \A k \in Answers' : k + 1 \in Answers /\ k + 1 # 0 /\ Answered(k)' = Answered(k + 1)
  <2>1. \A k \in 0..(Gap(Next16(used_idx), usedIdx) - 1) :
          /\ k + 1 \in 0..(Gap(used_idx, usedIdx) - 1) /\ k + 1 # 0
          /\ Entry(used, Next16(used_idx), k) = Entry(used, used_idx, k + 1)
    BY <1>1, <1>2, Removed
  <2> QED  BY <1>4, <2>1 DEF Answers, Answered
<1>6. \A j, k \in Answers' : j + 1 = k + 1 => j = k
  <2>1. \A j, k \in 0..(Gap(Next16(used_idx), usedIdx) - 1) : j + 1 = k + 1 => j = k
    BY <1>1, <1>2, Removed
  <2> QED  BY <1>4, <2>1
<1>7. Settled({h})
  BY WokenSettled
<1> HIDE DEF h
<1>8. ASSUME NEW k \in Answers'
      PROVE  Waiting(Answered(k), 0)'
  <2>1. PICK j \in Answers : j # 0 /\ Answered(k)' = Answered(j)
    BY <1>5
  <2>2. Waiting(Answered(j), 0) /\ Answered(j) # h
    BY <1>3, <2>1, Layers DEF UsedInv
  <2>3. Answered(j) \notin {h}
    BY <2>2
  <2>4. \E q \in Procs : pc'[q] = "asleep" /\ idx'[q][1] = Answered(j) /\ info'[Answered(j)].status = 0
    BY <1>7, <2>2, <2>3, WaitKept
  <2> QED  BY <2>1, <2>4 DEF Waiting
<1>9. \A j, k \in Answers' : Answered(j)' = Answered(k)' => j = k
  <2>1. ASSUME NEW j \in Answers', NEW k \in Answers', Answered(j)' = Answered(k)'
        PROVE  j = k
    <3>1. j + 1 \in Answers /\ k + 1 \in Answers /\ Answered(j + 1) = Answered(k + 1)
      BY <1>5, <2>1
    <3>2. j + 1 = k + 1
      BY <3>1, Layers DEF UsedInv
    <3> QED  BY <1>6, <3>2
  <2> QED  BY <2>1
<1> QED  BY <1>8, <1>9 DEF UsedInv

(* A thread writes the next slot of the avail ring: no entry the device has    *)
(* yet to take is in it, because the thread got descriptors that no request    *)
(* under way has.                                                              *)
LEMMA RingSubmitted ==
  ASSUME DiskAssumption, IInv, NEW p \in Procs, NEW x \in Desc, NEW y \in Desc, NEW z \in Desc,
         Submitted(p, x, y, z)
  PROVE  RingInv'
<1>1. /\ pc[p] = "alloc" /\ lock = {} /\ x \in free /\ y \in free
      /\ info' = [info EXCEPT ![x] = [b |-> req[p].b, status |-> Undone]]
      /\ avail' = [avail EXCEPT ![availIdx % NUM] = x]
      /\ idx' = [idx EXCEPT ![p] = <<x, y, z>>] /\ pc' = [pc EXCEPT ![p] = "notify"]
      /\ UNCHANGED <<availIdx, seen, inflight, used, usedIdx, used_idx>>
  BY DEF Submitted
<1>2. /\ seen \in Counters /\ availIdx \in Counters /\ avail \in [Desc -> Desc]
      /\ availIdx % NUM \in Desc
  <2>1. seen \in Counters /\ availIdx \in Counters /\ avail \in [Desc -> Desc]
    BY Layers DEF RingTypes
  <2>2. availIdx \in Int
    BY <2>1, SMTT(30) DEF Counters
  <2> QED  BY <2>1, <2>2, Slot
<1>3. \A q \in Procs : q # p => pc'[q] = pc[q] /\ idx'[q] = idx[q]
  BY <1>1, Layers DEF ThreadTypes
<1>4. pc'[p] = "notify" /\ idx'[p][1] = x
  <2>1. pc'[p] = "notify" /\ idx'[p] = <<x, y, z>>
    BY <1>1, Layers DEF ThreadTypes
  <2> QED  BY <2>1, SMTT(30)
<1>5. info'[x].status = Undone /\ \A d \in Desc : d # x => info'[d] = info[d]
  <2>1. info \in [Desc -> [b : AnyBuf, status : {0, Undone}]]
    BY Layers DEF DriverTypes
  <2> QED  BY <1>1, <2>1, SMTT(30)
<1>6. ASSUME NEW q \in Busy
      PROVE  q \in Procs /\ q # p /\ info'[idx[q][1]] = info[idx[q][1]]
  <2>1. Owned(q) \cap free = {} /\ idx[q][1] \in Desc
    BY HeadOnce, Layers DEF ChainInv
  <2>2. q \in Procs /\ q # p
    BY <1>1 DEF Busy
  <2> QED  BY <1>1, <1>5, <2>1, <2>2 DEF Owned
<1>7. Settled({})
  <2>1. ASSUME NEW q \in Procs, pc[q] = "asleep"
        PROVE  /\ pc'[q] = "asleep" /\ idx'[q] = idx[q]
               /\ info'[idx[q][1]].status = info[idx[q][1]].status
    <3>1. q \in Busy
      BY <2>1 DEF Busy
    <3> QED  BY <1>3, <1>6, <2>1, <3>1
  <2> QED  BY <2>1 DEF Settled
<1>8. Gap(seen, availIdx) < NUM
  <2>1. \A k \in 0..(Gap(seen, availIdx) - 1) : Entry(avail, seen, k) \in Desc \ {y}
    <3>1. ASSUME NEW k \in 0..(Gap(seen, availIdx) - 1)
          PROVE  Entry(avail, seen, k) \in Desc \ free
      <4>1. Waiting(Entry(avail, seen, k), Undone)
        BY Layers DEF AvailInv, Asks, Asked
      <4> QED  BY <4>1, WaitHead
    <3> QED  BY <1>1, <3>1
  <2>2. \A j, k \in 0..(Gap(seen, availIdx) - 1) : Entry(avail, seen, j) = Entry(avail, seen, k) => j = k
    BY Layers DEF AvailInv, Asks, Asked
  <2>3. Gap(seen, availIdx) \in Nat
    BY <1>2, Window
  <2> QED  BY <2>1, <2>2, <2>3, NotFull
<1>9. \A k \in Asks : Asked(k)' = Asked(k)
  <2>1. \A i \in Desc : i # availIdx % NUM => avail'[i] = avail[i]
    BY <1>1, <1>2
  <2>2. \A k \in Asks : (seen + k) % NUM \in Desc /\ (seen + k) % NUM # availIdx % NUM
    BY <1>2, <1>8, SlotApart DEF Asks
  <2> QED  BY <1>1, <2>1, <2>2 DEF Asked, Entry
<1>10. AvailInv'
  BY <1>1, <1>7, <1>9, AvailKept
<1>11. InflightInv'
  BY <1>1, <1>7, InflightKept
<1>12. UsedInv'
  BY <1>1, <1>7, UsedKept
<1>13. EndsInv'
  <2>1. ASSUME NEW q \in Procs, pc'[q] = "notify"
        PROVE  avail'[availIdx' % NUM] = idx'[q][1] /\ info'[idx'[q][1]].status = Undone
    <3>1. q = p
      BY <1>1, <1>3, <2>1, Layers DEF LockInv
    <3>2. avail'[availIdx' % NUM] = x
      BY <1>1, <1>2
    <3> QED  BY <1>4, <1>5, <3>1, <3>2
  <2>2. ASSUME NEW q \in Procs, pc'[q] = "relock"
        PROVE  info'[idx'[q][1]].status = 0
    <3>1. q # p /\ pc[q] = "relock"
      BY <1>3, <1>4, <2>2
    <3>2. q \in Busy
      BY <3>1 DEF Busy
    <3> QED  BY <1>3, <1>6, <3>1, <3>2, Layers DEF EndsInv
  <2> QED  BY <2>1, <2>2 DEF EndsInv
<1> QED  BY <1>10, <1>11, <1>12, <1>13 DEF RingInv

(* The thread returns: no ring holds its head any more. *)
LEMMA RingFinished ==
  ASSUME IInv, NEW p \in Procs, Finished(p)
  PROVE  RingInv'
<1>1. /\ WakeAs(p, "idle", "wait_desc", "alloc") /\ pc[p] = "relock"
      /\ UNCHANGED <<avail, availIdx, seen, inflight, used, usedIdx, used_idx, idx>>
  BY DEF Finished
<1>2. \A d \in Desc : info'[d].status = info[d].status
  <2>1. /\ info' = [info EXCEPT ![idx[p][1]].b = "none"]
        /\ info \in [Desc -> [b : AnyBuf, status : {0, Undone}]]
    BY Layers DEF Finished, DriverTypes
  <2> QED  BY <2>1, SMTT(30)
<1>3. \A q \in Busy : info'[idx[q][1]].status = info[idx[q][1]].status
  BY <1>2, HeadOnce
<1>4. /\ pc'[p] = "idle"
      /\ \A q \in Procs : q # p => \/ pc'[q] = pc[q] /\ pc[q] # "wait_desc"
                                   \/ pc[q] = "wait_desc" /\ pc'[q] = "alloc"
  BY <1>1, Waked
<1>5. Settled({})
  <2>1. ASSUME NEW q \in Procs, pc[q] = "asleep"
        PROVE  pc'[q] = "asleep" /\ info'[idx[q][1]].status = info[idx[q][1]].status
    <3>1. q \in Busy /\ q # p
      BY <1>1, <2>1 DEF Busy
    <3> QED  BY <1>3, <1>4, <2>1, <3>1
  <2> QED  BY <1>1, <2>1 DEF Settled
<1>6. EndsInv'
  <2>1. ASSUME NEW q \in Procs, pc'[q] \in {"notify", "relock"}
        PROVE  /\ pc[q] = pc'[q] /\ idx'[q] = idx[q]
               /\ info'[idx[q][1]].status = info[idx[q][1]].status
    <3>1. pc[q] = pc'[q]
      BY <1>4, <2>1
    <3>2. q \in Busy
      BY <2>1, <3>1 DEF Busy
    <3> QED  BY <1>1, <1>3, <3>1, <3>2
  <2> QED  BY <1>1, <2>1, EndsKept
<1> QED  BY <1>1, <1>5, <1>6, RingKept DEF RingInv

(* A step that leaves the rings and the requests alone. *)
LEMMA RingIdle ==
  ASSUME IInv, UNCHANGED <<avail, availIdx, seen, inflight, used, usedIdx, used_idx, idx, info>>,
         \A q \in Procs : pc[q] = "asleep" => pc'[q] = "asleep",
         \A q \in Procs : pc'[q] \in {"notify", "relock"} => pc[q] = pc'[q]
  PROVE  RingInv'
<1>1. Settled({})
  BY DEF Settled
<1>2. EndsInv'
  BY EndsKept
<1> QED  BY <1>1, <1>2, RingKept DEF RingInv

(* No step loses a request, or hands it to the device or to the handler twice. *)
LEMMA RingStep ==
  ASSUME DiskAssumption, IInv, Next
  PROVE  RingInv'
<1>0. pc \in [Procs -> Labels]
  BY Layers DEF ThreadTypes
<1>1. ASSUME NEW p \in Procs, NEW b \in Bufs, NEW w \in BOOLEAN, NEW v \in Vals, Call(p, b, w, v)
      PROVE  RingInv'
  BY <1>0, <1>1, RingIdle DEF Call
<1>2. ASSUME NEW p \in Procs, AllocFail(p)
      PROVE  RingInv'
  <2>1. pc[p] = "alloc"
        /\ UNCHANGED <<avail, availIdx, seen, inflight, used, usedIdx, used_idx, idx, info>>
    BY <1>2 DEF AllocFail
  <2>2. /\ \A q \in Procs : pc[q] = "asleep" => pc'[q] = "asleep"
        /\ \A q \in Procs : pc'[q] \in {"notify", "relock"} => pc[q] = pc'[q]
    BY <1>2, <2>1, AllocFailed
  <2> QED  BY <2>1, <2>2, RingIdle
<1>3. ASSUME NEW p \in Procs, Notify(p)
      PROVE  RingInv'
  <2>1. /\ pc[p] = "notify" /\ pc' = [pc EXCEPT ![p] = "asleep"]
        /\ UNCHANGED <<seen, inflight, used, usedIdx, used_idx, idx, info>>
    BY <1>3 DEF Notify
  <2>2. Settled({})
    BY <1>0, <2>1 DEF Settled
  <2>3. InflightInv' /\ UsedInv'
    BY <2>1, <2>2, InflightKept, UsedKept
  <2>4. \A q \in Procs : pc'[q] # "notify"
    BY <1>0, <2>1, Layers DEF LockInv
  <2>5. EndsInv'
    BY <1>0, <2>1, <2>4, Layers DEF EndsInv
  <2> QED  BY <1>3, <2>2, <2>3, <2>5, AvailNotify DEF RingInv
<1>4. ASSUME NEW p \in Procs, Resleep(p)
      PROVE  RingInv'
  BY <1>0, <1>4, RingIdle DEF Resleep
<1>5. ASSUME NEW p \in Procs, Served(p)
      PROVE  RingInv'
  <2>1. /\ UNCHANGED <<avail, availIdx, seen, pc, idx>>
        /\ idx[p][1] \in inflight /\ inflight' = inflight \ {idx[p][1]} /\ pc[p] = "asleep"
    BY <1>5 DEF Served
  <2>2. /\ Settled({idx[p][1]}) /\ p \in Busy
        /\ \A d \in Desc \ {idx[p][1]} : info'[d] = info[d]
    BY <1>5, ServedSettled
  <2>3. \A k \in Asks : Asked(k)' = Asked(k)
    BY <2>1 DEF Asked, Entry
  <2>4. AvailInv'
    BY <2>1, <2>2, <2>3, AvailKept
  <2>5. InflightInv'
    BY <2>1, <2>2, InflightKept
  <2>6. EndsInv'
    <3>1. ASSUME NEW q \in Procs, pc'[q] \in {"notify", "relock"}
          PROVE  info'[idx[q][1]].status = info[idx[q][1]].status
      <4>1. q \in Busy /\ q # p
        BY <2>1, <3>1 DEF Busy
      <4>2. idx[q][1] \in Desc \ {idx[p][1]}
        BY <2>2, <4>1, HeadOnce
      <4> QED  BY <2>2, <4>2
    <3> QED  BY <2>1, <3>1, EndsKept
  <2> QED  BY <1>5, <2>4, <2>5, <2>6, UsedServed DEF RingInv
<1>6. ASSUME NEW p \in Procs, Woken(p)
      PROVE  RingInv'
  <2>1. UNCHANGED <<avail, availIdx, seen, inflight, idx, info>> /\ pc'[p] = "relock"
    BY <1>0, <1>6 DEF Woken
  <2>2. /\ Settled({idx[p][1]}) /\ info[idx[p][1]].status = 0
        /\ \A q \in Procs : q # p => pc'[q] = pc[q]
    BY <1>6, WokenSettled
  <2>3. info[idx[p][1]].status # Undone
    BY <2>2, UndoneNotZero
  <2>4. \A k \in Asks : Asked(k)' = Asked(k)
    BY <2>1 DEF Asked, Entry
  <2>5. AvailInv'
    BY <2>1, <2>2, <2>3, <2>4, AvailKept
  <2>6. InflightInv'
    <3>1. idx[p][1] \notin inflight
      BY <2>3, Layers DEF InflightInv, Waiting
    <3>2. inflight' \subseteq inflight \ {idx[p][1]}
      BY <2>1, <3>1
    <3> QED  BY <2>2, <3>2, InflightKept
  <2>7. EndsInv'
    BY <2>1, <2>2, Layers DEF EndsInv
  <2> QED  BY <1>6, <2>5, <2>6, <2>7, UsedWoken DEF RingInv
<1>7. ASSUME DevTake
      PROVE  RingInv'
  <2>1. UNCHANGED <<avail, availIdx, used, usedIdx, used_idx, pc, idx, info>>
    BY <1>7 DEF DevTake
  <2>2. Settled({})
    BY <2>1 DEF Settled
  <2>3. UsedInv' /\ EndsInv'
    BY <2>1, <2>2, UsedKept, EndsKept
  <2> QED  BY <1>7, <2>3, AvailTaken DEF RingInv
<1>8. ASSUME IntrEnter \/ IntrEnd \/ IntrExit
      PROVE  RingInv'
  BY <1>8, RingIdle DEF IntrEnter, IntrEnd, IntrExit
<1> QED  BY <1>1, <1>2, <1>3, <1>4, <1>5, <1>6, <1>7, <1>8, Steps, RingSubmitted, RingFinished

(* The handler does not panic, and no interrupt is lost. *)
LEMMA IntrInv ==
  ASSUME DiskAssumption, IInv, Next
  PROVE  handler' # "panic" /\ NoLostInterrupt'
<1>0. handler # "panic" /\ NoLostInterrupt
  BY Layers
<1>1. ASSUME UNCHANGED <<used_idx, usedIdx, irq, handler>>
      PROVE  handler' # "panic" /\ NoLostInterrupt'
  BY <1>0, <1>1 DEF NoLostInterrupt
<1>2. ASSUME NEW p \in Procs, Served(p) \/ Woken(p)
      PROVE  handler' # "panic" /\ NoLostInterrupt'
  BY <1>0, <1>2 DEF NoLostInterrupt, Served, Woken
<1>3. ASSUME IntrEnter \/ IntrEnd
      PROVE  handler' # "panic" /\ NoLostInterrupt'
  BY <1>3 DEF NoLostInterrupt, IntrEnter, IntrEnd
<1>4. ASSUME IntrExit
      PROVE  handler' # "panic" /\ NoLostInterrupt'
  BY <1>0, <1>4 DEF NoLostInterrupt, IntrExit, Ack
<1>5. ASSUME NEW p \in Procs,
             \/ AllocFail(p) \/ Notify(p) \/ Resleep(p) \/ Finished(p)
             \/ \E x, y, z \in Desc : Submitted(p, x, y, z)
             \/ \E b \in Bufs, w \in BOOLEAN, v \in Vals : Call(p, b, w, v)
      PROVE  UNCHANGED <<used_idx, usedIdx, irq, handler>>
  BY <1>5 DEF Call, Submitted, AllocFail, Notify, Resleep, Finished
<1>6. ASSUME DevTake
      PROVE  UNCHANGED <<used_idx, usedIdx, irq, handler>>
  BY <1>6 DEF DevTake
<1> QED  BY <1>1, <1>2, <1>3, <1>4, <1>5, <1>6, Steps

-----------------------------------------------------------------------------
(* The theorems *)

(* virtio_disk_init() establishes the invariant. *)
LEMMA InitIInv ==
  ASSUME DiskAssumption, Init
  PROVE  IInv
<1>1. 0 \in Desc /\ 0 \in Counters
  BY Sizes, SMTT(30) DEF Desc, Counters
<1>2. DriverTypes
  <2>1. ZeroDesc \in [addr : Addrs, flags : SUBSET {"NEXT", "WRITE"}, next : Desc]
    BY <1>1 DEF ZeroDesc, Addrs
  <2>2. /\ [write |-> FALSE, blk |-> "none"] \in [write : BOOLEAN, blk : AnyBuf]
        /\ [b |-> "none", status |-> 0] \in [b : AnyBuf, status : {0, Undone}]
    BY DEF AnyBuf
  <2> QED  BY <2>1, <2>2 DEF Init, DriverTypes
<1>3. RingTypes
  BY <1>1 DEF Init, RingTypes
<1>4. ThreadTypes
  <2>1. [b |-> "none", write |-> FALSE] \in [b : AnyBuf, write : BOOLEAN]
    BY DEF AnyBuf
  <2>2. <<0, 0, 0>> \in Desc \X Desc \X Desc
    BY <1>1
  <2> QED  BY <2>1, <2>2 DEF Init, ThreadTypes, Labels
<1>5. Busy = {} /\ BufInv /\ LockInv /\ ChainInv
  <2>1. \A p \in Procs : pc[p] = "idle"
    BY DEF Init
  <2>2. lock = {} /\ handler = "off"
    BY DEF Init
  <2>3. Busy = {}
    BY <2>1 DEF Busy
  <2> QED  BY <2>1, <2>2, <2>3 DEF BufInv, LockInv, ChainInv
<1>6. CountInv
  <2>1. Cardinality(Busy) = 0
    BY <1>5, FS_EmptySet
  <2>2. Cardinality(0..(NUM - 1)) = NUM
    <3>1. 0 \in Int /\ NUM - 1 \in Int /\ ~(0 > NUM - 1) /\ (NUM - 1) - 0 + 1 = NUM
      BY Sizes, SMTT(30)
    <3> QED  BY <3>1, FS_Interval
  <2>3. Cardinality(free) = NUM
    BY <2>2 DEF Init, Desc
  <2>4. Cardinality(free) + 3 * Cardinality(Busy) = NUM
    BY <2>1, <2>3, Sizes, SMTT(30)
  <2> QED  BY <2>4 DEF CountInv
<1>7. RingInv
  <2>1. Gap(0, 0) = 0
    BY SMTT(30) DEF Gap
  <2>2. 0..(0 - 1) = {}
    BY SMTT(30)
  <2>3. Asks = {} /\ Answers = {}
    BY <2>1, <2>2 DEF Init, Asks, Answers
  <2>4. EndsInv /\ InflightInv
    BY DEF Init, EndsInv, InflightInv
  <2> QED  BY <2>3, <2>4 DEF RingInv, AvailInv, UsedInv
<1>8. handler # "panic" /\ NoLostInterrupt
  BY DEF Init, NoLostInterrupt
<1> QED  BY <1>2, <1>3, <1>4, <1>5, <1>6, <1>7, <1>8 DEF IInv, TypeOK

(* A step that changes no variable. *)
LEMMA StutterIInv ==
  ASSUME IInv, UNCHANGED vars
  PROVE  IInv'
<1>1. /\ UNCHANGED <<free, desc, ops, info, avail, availIdx, used, usedIdx, seen, inflight>>
      /\ UNCHANGED <<used_idx, irq, handler, lock, bdisk, data, disk, pc, req, idx>>
  BY DEF vars
<1>2. TypeOK'
  BY <1>1, Layers DEF TypeOK, DriverTypes, RingTypes, ThreadTypes
<1>3. BufInv' /\ LockInv' /\ Busy' = Busy
  BY <1>1, Layers DEF BufInv, LockInv, Busy
<1>4. ChainInv' /\ CountInv'
  BY <1>1, <1>3, ChainKept
<1>5. RingInv'
  BY <1>1, RingIdle
<1>6. handler' # "panic" /\ NoLostInterrupt'
  BY <1>1, Layers DEF NoLostInterrupt
<1> QED  BY <1>2, <1>3, <1>4, <1>5, <1>6 DEF IInv

(* Every step preserves the invariant. *)
LEMMA NextIInv ==
  ASSUME DiskAssumption, IInv, Next
  PROVE  IInv'
<1>1. TypeOK'
  BY DriverTypesStep, RingTypesStep, ThreadTypesStep DEF TypeOK
<1> QED  BY <1>1, BufStep, LockStep, ChainStep, RingStep, IntrInv DEF IInv

(* For any number of threads, buffers and descriptors, and wherever the        *)
(* counters wrap around: in every reachable state of the driver each request   *)
(* is in one place, a chain of its own that the avail ring, the device, the    *)
(* used ring or its thread has.                                                *)
THEOREM DiskInvariance == DiskAssumption => (Spec => []IInv)
<1> SUFFICES ASSUME DiskAssumption
             PROVE  Spec => []IInv
  OBVIOUS
<1>1. Init => IInv
  BY InitIInv
<1>2. IInv /\ [Next]_vars => IInv'
  BY NextIInv, StutterIInv
<1> QED  BY <1>1, <1>2, PTL DEF Spec

(* free_chain() gives back exactly what alloc3_desc() took, whatever the order *)
(* in which the device completes the requests: no descriptor is lost, and none *)
(* belongs to two requests.                                                    *)
THEOREM DescriptorsNeverLost == DiskAssumption => (Spec => []DescriptorsPartitioned)
<1> SUFFICES ASSUME DiskAssumption
             PROVE  Spec => []DescriptorsPartitioned
  OBVIOUS
<1>1. IInv => DescriptorsPartitioned
  <2> SUFFICES ASSUME IInv
               PROVE  DescriptorsPartitioned
    OBVIOUS
  <2>1. ASSUME NEW p \in Busy
        PROVE  Chain(idx[p][1]) = Owned(p) /\ Cardinality(Owned(p)) = 3 /\ Owned(p) \cap free = {}
    <3>1. Chain(idx[p][1]) = Owned(p) /\ Formatted(p) /\ Owned(p) \cap free = {}
      BY ChainOwned, Layers DEF ChainInv
    <3> DEFINE x == idx[p][1]  y == idx[p][2]  z == idx[p][3]
    <3>2. x # y /\ x # z /\ y # z
      BY <3>1 DEF Formatted
    <3> HIDE DEF x, y, z
    <3>3. IsFiniteSet({x}) /\ Cardinality({x}) = 1
      BY FS_Singleton
    <3>4. IsFiniteSet({x} \cup {y}) /\ Cardinality({x} \cup {y}) = 1 + 1
      BY <3>2, <3>3, FS_AddElement
    <3>5. Cardinality(({x} \cup {y}) \cup {z}) = (1 + 1) + 1
      BY <3>2, <3>4, FS_AddElement
    <3>6. Owned(p) = ({x} \cup {y}) \cup {z}
      BY DEF Owned, x, y, z
    <3>7. (1 + 1) + 1 = 3
      BY SMTT(30)
    <3> QED  BY <3>1, <3>5, <3>6, <3>7
  <2>2. \A p, q \in Busy : p # q => Owned(p) \cap Owned(q) = {}
    BY Layers DEF ChainInv
  <2> QED  BY <2>1, <2>2, Layers DEF DescriptorsPartitioned, CountInv
<1> QED  BY <1>1, DiskInvariance, PTL

(* The driver reaches none of its panics: the entry the handler reads is a     *)
(* finished request that still has its buffer, and no free descriptor is freed *)
(* again.                                                                      *)
THEOREM DriverNeverPanics == DiskAssumption => (Spec => []NoPanic)
<1> SUFFICES ASSUME DiskAssumption
             PROVE  Spec => []NoPanic
  OBVIOUS
<1>1. IInv => NoPanic
  <2> SUFFICES ASSUME IInv
               PROVE  NoPanic
    OBVIOUS
  <2>1. ASSUME NEW p \in Procs, pc[p] = "relock"
        PROVE  Chain(idx[p][1]) \cap free = {}
    <3>1. p \in Busy
      BY <2>1 DEF Busy
    <3> QED  BY <3>1, ChainOwned, Layers DEF ChainInv
  <2> QED  BY <2>1, Layers DEF NoPanic
<1> QED  BY <1>1, DiskInvariance, PTL

(* No completion is left behind when the device adds it to the used ring while *)
(* virtio_disk_intr() acknowledges the interrupt or leaves its loop.           *)
THEOREM InterruptsNeverLost == DiskAssumption => (Spec => []NoLostInterrupt)
<1> SUFFICES ASSUME DiskAssumption
             PROVE  Spec => []NoLostInterrupt
  OBVIOUS
<1>1. IInv => NoLostInterrupt
  BY Layers
<1> QED  BY <1>1, DiskInvariance, PTL

-----------------------------------------------------------------------------
(* The atomic disk *)

(* The request of thread p as the caller of virtio_disk_rw() sees it. *)
Done(p) == p \in Busy /\ info[idx[p][1]].status = 0
Request(p) == [blk |-> req[p].b, write |-> req[p].write, val |-> data[req[p].b], done |-> Done(p)]
View == [p \in Procs |-> IF pc[p] = "idle" THEN <<>> ELSE Request(p)]

(* A request is not the absence of one. *)
LEMMA SomeRequest ==
  ASSUME NEW a, NEW b, NEW c, NEW d
  PROVE  [blk |-> a, write |-> b, val |-> c, done |-> d] # <<>>
<1>1. "blk" \in DOMAIN [blk |-> a, write |-> b, val |-> c, done |-> d]
  OBVIOUS
<1>2. DOMAIN <<>> = {}
  BY SMTT(30)
<1> QED  BY <1>1, <1>2

(* Performing the request of one process of several. *)
LEMMA TwoFields ==
  ASSUME NEW S, NEW T, NEW f \in [S -> T], NEW p \in S, NEW v
  PROVE  [f EXCEPT ![p].done = TRUE, ![p].val = v]
           = [f EXCEPT ![p] = [f[p] EXCEPT !.done = TRUE, !.val = v]]
OBVIOUS

(* The view of one thread. *)
LEMMA Viewed ==
  ASSUME NEW p \in Procs
  PROVE  /\ View \in [Procs -> {View[q] : q \in Procs}]
         /\ pc[p] = "idle" => View[p] = <<>>
         /\ pc[p] # "idle" =>
              /\ View[p] = Request(p) /\ View[p] # <<>>
              /\ View[p].blk = req[p].b /\ View[p].write = req[p].write
              /\ View[p].val = data[req[p].b] /\ View[p].done = Done(p)
<1>1. View[p] = IF pc[p] = "idle" THEN <<>> ELSE Request(p)
  BY DEF View
<1>2. Request(p) # <<>>
  BY SomeRequest DEF Request
<1>3. /\ Request(p).blk = req[p].b /\ Request(p).write = req[p].write
      /\ Request(p).val = data[req[p].b] /\ Request(p).done = Done(p)
  BY DEF Request
<1>4. View \in [Procs -> {View[q] : q \in Procs}]
  BY DEF View
<1> QED  BY <1>1, <1>2, <1>3, <1>4

(* A thread whose request does not change. *)
LEMMA ViewKept ==
  ASSUME NEW q \in Procs, pc'[q] = "idle" <=> pc[q] = "idle",
         pc[q] # "idle" => /\ req'[q] = req[q] /\ data'[req[q].b] = data[req[q].b]
                           /\ Done(q)' <=> Done(q)
  PROVE  View'[q] = View[q]
<1>1. CASE pc[q] = "idle"
  BY <1>1 DEF View
<1>2. CASE pc[q] # "idle"
  <2>1. Done(q)' = Done(q)
    BY <1>2 DEF Done
  <2>2. Request(q)' = Request(q)
    BY <1>2, <2>1 DEF Request
  <2> QED  BY <1>2, <2>2 DEF View
<1> QED  BY <1>1, <1>2

(* A step that no caller notices. *)
LEMMA Unnoticed ==
  ASSUME \A q \in Procs : View'[q] = View[q], disk' = disk
  PROVE  UNCHANGED Abstract!vars
<1>1. View' = View
  BY DEF View
<1> QED  BY <1>1 DEF Abstract!vars, View, Request, Done

(* A step of the driver, the device or the handler in the middle of a request. *)
LEMMA Inside ==
  ASSUME UNCHANGED <<req, data, disk, info, idx>>,
         \A q \in Procs : pc'[q] = "idle" <=> pc[q] = "idle",
         Busy' = Busy
  PROVE  UNCHANGED Abstract!vars
<1>1. ASSUME NEW q \in Procs
      PROVE  View'[q] = View[q]
  <2>1. Done(q)' <=> Done(q)
    BY DEF Done
  <2> QED  BY <2>1, ViewKept
<1> QED  BY <1>1, Unnoticed

(* The call of virtio_disk_rw() posts a request. *)
LEMMA CallPosts ==
  ASSUME IInv, NEW p \in Procs, NEW b \in Bufs, NEW w \in BOOLEAN, NEW v \in Vals, Call(p, b, w, v)
  PROVE  Abstract!Next
<1> DEFINE r == [blk |-> b, write |-> w, val |-> v, done |-> FALSE]
<1>1. /\ pc[p] = "idle" /\ pc' = [pc EXCEPT ![p] = "alloc"]
      /\ \A q \in Procs : pc[q] # "idle" => req[q].b # b
      /\ req' = [req EXCEPT ![p] = [b |-> b, write |-> w]] /\ data' = [data EXCEPT ![b] = v]
      /\ UNCHANGED <<info, idx, disk>>
  BY DEF Call
<1>2. pc'[p] = "alloc" /\ \A q \in Procs : q # p => pc'[q] = pc[q] /\ req'[q] = req[q]
  BY <1>1, Layers DEF ThreadTypes
<1>3. req'[p].b = b /\ req'[p].write = w
  <2>1. req'[p] = [b |-> b, write |-> w]
    BY <1>1, Layers DEF ThreadTypes
  <2> QED  BY <2>1, SMTT(30)
<1>4. data'[b] = v /\ \A c \in Bufs : c # b => data'[c] = data[c]
  BY <1>1, Layers DEF DriverTypes
<1>5. View'[p] = r
  <2>1. Done(p)' = FALSE
    BY <1>2 DEF Done, Busy
  <2>2. Request(p)' = r
    BY <1>3, <1>4, <2>1 DEF Request
  <2> QED  BY <1>2, <2>2 DEF View
<1>6. ASSUME NEW q \in Procs, q # p
      PROVE  View'[q] = View[q]
  <2>1. pc'[q] = pc[q] /\ req'[q] = req[q] /\ (pc[q] # "idle" => data'[req[q].b] = data[req[q].b])
    BY <1>1, <1>2, <1>4, <1>6, Layers DEF BufInv
  <2>2. Done(q)' <=> Done(q)
    BY <1>1, <2>1 DEF Done, Busy
  <2> QED  BY <2>1, <2>2, ViewKept
<1>7. View[p] = <<>>
  BY <1>1, Viewed
<1>8. View' = [View EXCEPT ![p] = r]
  <2> HIDE DEF r
  <2>1. View' = [q \in Procs |-> View'[q]] /\ View = [q \in Procs |-> View[q]]
    BY DEF View
  <2> QED  BY <1>5, <1>6, <2>1
<1>9. r \in Abstract!Requests /\ ~r.done
  BY DEF Abstract!Requests
<1>10. Abstract!Post(p, r)
  <2>1. disk' = disk /\ ~r.done
    BY <1>1, <1>9
  <2> HIDE DEF r
  <2> QED  BY <1>7, <1>8, <2>1 DEF Abstract!Post, View, Request, Done
<1> HIDE DEF r
<1> QED  BY <1>9, <1>10 DEF Abstract!Next

(* The device does the request: it is performed, once. *)
LEMMA ServedPerforms ==
  ASSUME IInv, NEW p \in Procs, Served(p)
  PROVE  Abstract!Next
<1> DEFINE c == req[p].b
<1>1. pc[p] = "asleep" /\ UNCHANGED <<pc, req, idx>>
  BY DEF Served
<1>2. p \in Busy /\ c \in Bufs /\ req[p].write \in BOOLEAN
  BY <1>1, Layers DEF Busy, BufInv, ThreadTypes
<1>3. /\ info[idx[p][1]].status = Undone /\ info'[idx[p][1]].status = 0
      /\ \A d \in Desc \ {idx[p][1]} : info'[d] = info[d]
  BY ServedSettled
<1>4. ~Done(p) /\ Done(p)'
  BY <1>1, <1>2, <1>3, UndoneNotZero DEF Done, Busy
<1>5. /\ data \in [Bufs -> Vals] /\ disk \in [Bufs -> Vals]
  BY Layers DEF DriverTypes
<1>6. /\ disk' = IF req[p].write THEN [disk EXCEPT ![c] = data[c]] ELSE disk
      /\ data'[c] = disk'[c] /\ \A b \in Bufs : b # c => data'[b] = data[b]
  <2>1. CASE req[p].write
    <3>1. disk' = [disk EXCEPT ![c] = data[c]] /\ data' = data
      BY <2>1 DEF Served
    <3> QED  BY <1>2, <1>5, <2>1, <3>1
  <2>2. CASE ~req[p].write
    <3>1. data' = [data EXCEPT ![c] = disk[c]] /\ disk' = disk
      BY <2>2 DEF Served
    <3> QED  BY <1>2, <1>5, <2>2, <3>1
  <2> QED  BY <2>1, <2>2
<1>7. ASSUME NEW q \in Procs, q # p
      PROVE  View'[q] = View[q]
  <2>1. pc[q] # "idle" => data'[req[q].b] = data[req[q].b]
    BY <1>1, <1>6, <1>7, Layers DEF BufInv
  <2>2. Done(q)' <=> Done(q)
    <3>1. CASE q \in Busy
      <4>1. idx[q][1] \in Desc \ {idx[p][1]}
        BY <1>2, <1>7, <3>1, HeadOnce
      <4> QED  BY <1>1, <1>3, <4>1 DEF Done, Busy
    <3>2. CASE q \notin Busy
      BY <1>1, <3>2 DEF Done, Busy
    <3> QED  BY <3>1, <3>2
  <2> QED  BY <1>1, <2>1, <2>2, ViewKept
<1> DEFINE r == [View[p] EXCEPT !.done = TRUE, !.val = disk'[c]]
<1>8. /\ View[p] # <<>> /\ ~View[p].done /\ View[p].blk = c /\ View[p].write = req[p].write
      /\ View[p].val = data[c] /\ View[p] = Request(p)
  BY <1>1, <1>4, Viewed
<1>9. View'[p] = r
  <2>1. Done(p)' = TRUE
    BY <1>4 DEF Done
  <2>2. Request(p)' = [blk |-> c, write |-> req[p].write, val |-> disk'[c], done |-> TRUE]
    BY <1>1, <1>6, <2>1 DEF Request
  <2>3. View[p] = [blk |-> c, write |-> req[p].write, val |-> data[c], done |-> Done(p)]
    BY <1>8 DEF Request
  <2>4. View'[p] = Request(p)'
    BY <1>1 DEF View
  <2> HIDE DEF c
  <2>5. r = [blk |-> c, write |-> req[p].write, val |-> disk'[c], done |-> TRUE]
    <3> DEFINE W == req[p].write  V == data[c]  U == disk'[c]  D == Done(p)
               R == [[blk |-> c, write |-> W, val |-> V, done |-> D] EXCEPT !.done = TRUE, !.val = U]
    <3>1. r = R
      BY <2>3
    <3> HIDE DEF W, V, U, D
    <3>2. R \in [blk : {c}, write : {W}, val : {U}, done : {TRUE}]
      OBVIOUS
    <3> HIDE DEF R
    <3>3. R = [blk |-> c, write |-> W, val |-> U, done |-> TRUE]
      BY <3>2
    <3> QED  BY <3>1, <3>3 DEF W, U
  <2> QED  BY <2>2, <2>4, <2>5 DEF c
<1>10. View' = [View EXCEPT ![p] = r]
  <2> HIDE DEF r
  <2>1. View' = [q \in Procs |-> View'[q]] /\ View = [q \in Procs |-> View[q]]
    BY DEF View
  <2> QED  BY <1>7, <1>9, <2>1
<1>11. View' = [View EXCEPT ![p].done = TRUE, ![p].val = disk'[View[p].blk]]
  <2>1. View \in [Procs -> {View[q] : q \in Procs}]
    BY Viewed
  <2>2. [View EXCEPT ![p].done = TRUE, ![p].val = disk'[c]] = [View EXCEPT ![p] = r]
    <3> HIDE DEF c
    <3> QED  BY <2>1, TwoFields
  <2>3. View[p].blk = c
    BY <1>8
  <2> HIDE DEF c, r
  <2> QED  BY <1>10, <2>2, <2>3
<1>12. disk' = IF View[p].write THEN [disk EXCEPT ![View[p].blk] = View[p].val] ELSE disk
  BY <1>6, <1>8
<1>13. Abstract!Perform(p)
  BY <1>8, <1>11, <1>12 DEF Abstract!Perform, View, Request, Done
<1> QED  BY <1>13 DEF Abstract!Next

(* virtio_disk_rw() returns after its request has been performed. *)
LEMMA FinishedReturns ==
  ASSUME IInv, NEW p \in Procs, Finished(p)
  PROVE  Abstract!Next
<1>1. /\ pc[p] = "relock" /\ WakeAs(p, "idle", "wait_desc", "alloc")
      /\ UNCHANGED <<req, idx, data, disk>>
  BY DEF Finished
<1>2. /\ pc'[p] = "idle"
      /\ \A q \in Procs : q # p => \/ pc'[q] = pc[q] /\ pc[q] # "wait_desc"
                                   \/ pc[q] = "wait_desc" /\ pc'[q] = "alloc"
  BY <1>1, Waked
<1>3. \A d \in Desc : info'[d].status = info[d].status
  <2>1. /\ info' = [info EXCEPT ![idx[p][1]].b = "none"]
        /\ info \in [Desc -> [b : AnyBuf, status : {0, Undone}]]
    BY Layers DEF Finished, DriverTypes
  <2> QED  BY <2>1, SMTT(30)
<1>4. ASSUME NEW q \in Procs, q # p
      PROVE  View'[q] = View[q]
  <2>1. pc'[q] = "idle" <=> pc[q] = "idle"
    BY <1>2, <1>4
  <2>2. q \in Busy' <=> q \in Busy
    BY <1>2, <1>4 DEF Busy
  <2>3. Done(q)' <=> Done(q)
    <3>1. CASE q \in Busy
      <4>1. idx[q][1] \in Desc
        BY <3>1, HeadOnce
      <4> QED  BY <1>1, <1>3, <2>2, <4>1 DEF Done
    <3>2. CASE q \notin Busy
      BY <2>2, <3>2 DEF Done
    <3> QED  BY <3>1, <3>2
  <2> QED  BY <1>1, <2>1, <2>3, ViewKept
<1>5. View[p] # <<>> /\ View[p].done
  <2>1. Done(p)
    BY <1>1, Layers DEF Done, Busy, EndsInv
  <2>2. View[p] # <<>> /\ View[p].done = Done(p)
    BY <1>1, Viewed
  <2> QED  BY <2>1, <2>2
<1>6. View'[p] = <<>>
  BY <1>2 DEF View
<1>7. View' = [View EXCEPT ![p] = <<>>]
  <2>1. View' = [q \in Procs |-> View'[q]] /\ View = [q \in Procs |-> View[q]]
    BY DEF View
  <2> QED  BY <1>4, <1>6, <2>1
<1>8. Abstract!Return(p)
  BY <1>1, <1>5, <1>7 DEF Abstract!Return, View, Request, Done
<1> QED  BY <1>8 DEF Abstract!Next

(* The driver hands the request to the device. *)
LEMMA SubmittedInside ==
  ASSUME IInv, NEW p \in Procs, NEW x \in Desc, NEW y \in Desc, NEW z \in Desc,
         Submitted(p, x, y, z)
  PROVE  UNCHANGED Abstract!vars
<1>1. /\ pc[p] = "alloc" /\ pc' = [pc EXCEPT ![p] = "notify"] /\ x \in free
      /\ idx' = [idx EXCEPT ![p] = <<x, y, z>>]
      /\ info' = [info EXCEPT ![x] = [b |-> req[p].b, status |-> Undone]]
      /\ UNCHANGED <<req, data, disk>>
  BY DEF Submitted
<1>2. pc'[p] = "notify" /\ \A q \in Procs : q # p => pc'[q] = pc[q] /\ idx'[q] = idx[q]
  BY <1>1, Layers DEF ThreadTypes
<1>3. info'[x].status = Undone /\ \A d \in Desc : d # x => info'[d] = info[d]
  <2>1. info \in [Desc -> [b : AnyBuf, status : {0, Undone}]]
    BY Layers DEF DriverTypes
  <2> QED  BY <1>1, <2>1, SMTT(30)
<1>4. ~Done(p) /\ ~Done(p)'
  <2>1. idx'[p] = <<x, y, z>>
    BY <1>1, Layers DEF ThreadTypes
  <2>2. idx'[p][1] = x
    BY <2>1, SMTT(30)
  <2> QED  BY <1>1, <1>3, <2>2, UndoneNotZero DEF Done, Busy
<1>5. ASSUME NEW q \in Procs, q # p
      PROVE  Done(q)' <=> Done(q)
  <2>1. q \in Busy' <=> q \in Busy
    BY <1>2, <1>5 DEF Busy
  <2>2. CASE q \in Busy
    <3>1. Owned(q) \cap free = {} /\ idx[q][1] \in Desc
      BY <2>2, HeadOnce, Layers DEF ChainInv
    <3>2. idx[q][1] # x
      BY <1>1, <3>1 DEF Owned
    <3> QED  BY <1>2, <1>3, <1>5, <2>1, <3>1, <3>2 DEF Done
  <2>3. CASE q \notin Busy
    BY <2>1, <2>3 DEF Done
  <2> QED  BY <2>2, <2>3
<1>6. ASSUME NEW q \in Procs
      PROVE  View'[q] = View[q]
  <2>1. pc'[q] = "idle" <=> pc[q] = "idle"
    BY <1>1, <1>2
  <2>2. Done(q)' <=> Done(q)
    BY <1>4, <1>5
  <2> QED  BY <1>1, <2>1, <2>2, ViewKept
<1> QED  BY <1>1, <1>6, Unnoticed

(* Every step of the driver is a step of the atomic disk, or none. *)
LEMMA StepSimulates ==
  ASSUME DiskAssumption, IInv, Next
  PROVE  Abstract!Next \/ UNCHANGED Abstract!vars
<1>0. pc \in [Procs -> Labels]
  BY Layers DEF ThreadTypes
<1>1. ASSUME NEW p \in Procs, AllocFail(p)
      PROVE  UNCHANGED Abstract!vars
  <2>1. pc[p] = "alloc" /\ UNCHANGED <<req, data, disk, info, idx>>
    BY <1>1 DEF AllocFail
  <2>2. (\A q \in Procs : pc'[q] = "idle" <=> pc[q] = "idle") /\ Busy' = Busy
    BY <1>1, <2>1, AllocFailed DEF Busy
  <2> QED  BY <2>1, <2>2, Inside
<1>2. ASSUME NEW p \in Procs, Notify(p) \/ Resleep(p) \/ Woken(p)
      PROVE  UNCHANGED Abstract!vars
  <2>1. UNCHANGED <<req, data, disk, info, idx>>
    BY <1>2 DEF Notify, Resleep, Woken
  <2>2. (\A q \in Procs : pc'[q] = "idle" <=> pc[q] = "idle") /\ Busy' = Busy
    BY <1>0, <1>2 DEF Notify, Resleep, Woken, Busy
  <2> QED  BY <2>1, <2>2, Inside
<1>3. ASSUME DevTake \/ IntrEnter \/ IntrEnd \/ IntrExit
      PROVE  UNCHANGED Abstract!vars
  <2>1. UNCHANGED <<req, data, disk, info, idx, pc>>
    BY <1>3 DEF DevTake, IntrEnter, IntrEnd, IntrExit
  <2>2. Busy' = Busy
    BY <2>1 DEF Busy
  <2> QED  BY <2>1, <2>2, Inside
<1> QED  BY <1>1, <1>2, <1>3, Steps, CallPosts, ServedPerforms, FinishedReturns, SubmittedInside

(* The driver implements an atomic disk, for any number of threads, buffers    *)
(* and descriptors: between the call of virtio_disk_rw() and its return the    *)
(* block is read or written exactly once, and the caller gets the value of     *)
(* that moment, however the device orders the requests.                        *)
THEOREM DriverIsADisk == DiskAssumption => (Spec => ServesRequests)
<1> SUFFICES ASSUME DiskAssumption
             PROVE  Spec => ServesRequests
  OBVIOUS
<1>1. Init => Abstract!Init
  <2> SUFFICES ASSUME Init
               PROVE  Abstract!Init
    OBVIOUS
  <2>1. disk \in [Bufs -> Vals] /\ \A p \in Procs : pc[p] = "idle"
    BY DEF Init
  <2>2. View = [p \in Procs |-> <<>>]
    BY <2>1 DEF View
  <2> QED  BY <2>1, <2>2 DEF Abstract!Init, View, Request, Done
<1>2. IInv /\ [Next]_vars => [Abstract!Next]_Abstract!vars
  <2> SUFFICES ASSUME IInv, [Next]_vars
               PROVE  [Abstract!Next]_Abstract!vars
    OBVIOUS
  <2>1. CASE Next
    BY <2>1, StepSimulates
  <2>2. CASE UNCHANGED vars
    <3>1. UNCHANGED <<req, data, disk, info, idx, pc>>
      BY <2>2 DEF vars
    <3>2. Busy' = Busy
      BY <3>1 DEF Busy
    <3> QED  BY <3>1, <3>2, Inside
  <2> QED  BY <2>1, <2>2
<1> QED  BY <1>1, <1>2, DiskInvariance, PTL DEF Spec, ServesRequests, Abstract!Spec
=============================================================================
