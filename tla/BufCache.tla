------------------------------ MODULE BufCache ------------------------------
(***************************************************************************)
(* The buffer cache (kernel/bio.c) and the sleep-locks of its buffers      *)
(* (kernel/sleeplock.c).  A step is one critical section of bcache.lock or *)
(* of a sleep-lock's spin-lock; the disk answers in a step of its own.     *)
(*                                                                         *)
(* The callers follow the discipline of log.c: a changed buffer is pinned  *)
(* or written before it is released, and a pin ends after a write.         *)
(***************************************************************************)
EXTENDS Naturals, FiniteSets

CONSTANTS Procs,    \* threads
          Blocks,   \* blocks of the disk
          Vals,     \* contents of a block
          NBUF,     \* buffers of the cache
          MaxPin    \* bound: buffers pinned by the log at a time

VARIABLES
  lru,                                    \* the list from bcache.head.next to head.prev
  blockno, valid, refcnt, holder, data,   \* struct buf; holder: the sleep-lock
  pinned, dirty,                          \* buffers pinned by the log; changed since
  disk, cur,                              \* blocks on the disk; the value last given to each
  pc, want, buf                           \* a thread: label, block it asked for, its buffer

bufVars == <<lru, blockno, refcnt>>
ioVars == <<valid, data, disk, cur, dirty>>
vars == <<bufVars, ioVars, holder, pinned, pc, want, buf>>

Bufs == 1..NBUF
None == "none"

CacheAssumption ==
  NBUF \in Nat \ {0} /\ MaxPin \in Nat /\ IsFiniteSet(Procs) /\ Vals # {} /\ None \notin Blocks

(* binit(): the buffers in a list, none of them with a block. *)
Init ==
  /\ lru = [i \in Bufs |-> NBUF + 1 - i]
  /\ blockno = [b \in Bufs |-> None] /\ valid = [b \in Bufs |-> FALSE]
  /\ refcnt = [b \in Bufs |-> 0] /\ holder = [b \in Bufs |-> {}]
  /\ disk \in [Blocks -> Vals] /\ cur = disk
  /\ data \in [Bufs -> {CHOOSE v \in Vals : TRUE}]
  /\ pinned = {} /\ dirty = {}
  /\ pc = [p \in Procs |-> "idle"]
  /\ want = [p \in Procs |-> None] /\ buf = [p \in Procs |-> 0]

Goto(p, l) == pc' = [pc EXCEPT ![p] = l]
Held(p) == pc[p] = "have"

-----------------------------------------------------------------------------
(* bget(): the block is cached. *)
BgetHit(p, n, b) ==
  /\ pc[p] = "idle" /\ blockno[b] = n
  /\ refcnt' = [refcnt EXCEPT ![b] = @ + 1]
  /\ want' = [want EXCEPT ![p] = n] /\ buf' = [buf EXCEPT ![p] = b]
  /\ Goto(p, "lock")
  /\ UNCHANGED <<lru, blockno, ioVars, holder, pinned>>

(* Faulty variant of Recyclable: a buffer that nobody has locked. *)
RecyclableUnlocked(b) == holder[b] = {}

(* Faulty variant of Recyclable: only buffers that have never had a block. *)
RecyclableNew(b) == refcnt[b] = 0 /\ blockno[b] = None

(* bget() recycles buffers that nobody refers to. *)
Recyclable(b) == refcnt[b] = 0

(* Faulty variant of Cached: the lookup misses a buffer nobody refers to. *)
CachedInUse(n) == \E b \in Bufs : blockno[b] = n /\ refcnt[b] > 0

(* The first scan of bget() finds the block. *)
Cached(n) == \E b \in Bufs : blockno[b] = n

(* bget(): recycle the last unused buffer of the list, or panic. *)
BgetMiss(p, n) ==
  /\ pc[p] = "idle" /\ ~Cached(n)
  /\ IF \A b \in Bufs : ~Recyclable(b)
     THEN Goto(p, "panic") /\ UNCHANGED <<bufVars, valid, want, buf>>
     ELSE LET i == CHOOSE i \in Bufs : Recyclable(lru[i]) /\ \A j \in Bufs : j > i => ~Recyclable(lru[j])
              b == lru[i]
          IN /\ blockno' = [blockno EXCEPT ![b] = n]
             /\ valid' = [valid EXCEPT ![b] = FALSE]
             /\ refcnt' = [refcnt EXCEPT ![b] = 1]
             /\ want' = [want EXCEPT ![p] = n] /\ buf' = [buf EXCEPT ![p] = b]
             /\ Goto(p, "lock") /\ UNCHANGED lru
  /\ UNCHANGED <<data, disk, cur, dirty, holder, pinned>>

(* acquiresleep(): one turn of the loop, under the sleep-lock's spin-lock. *)
AcquireSleep(p) ==
  /\ pc[p] = "lock"
  /\ IF holder[buf[p]] # {} THEN Goto(p, "asleep") /\ UNCHANGED holder
     ELSE holder' = [holder EXCEPT ![buf[p]] = {p}] /\ Goto(p, "locked")
  /\ UNCHANGED <<bufVars, ioVars, pinned, want, buf>>

(* bread(): read the block unless the buffer is valid. *)
BreadStart(p) ==
  /\ pc[p] = "locked"
  /\ Goto(p, IF valid[buf[p]] THEN "have" ELSE "reading")
  /\ UNCHANGED <<bufVars, ioVars, holder, pinned, want, buf>>

BreadDone(p) ==
  /\ pc[p] = "reading"
  /\ data' = [data EXCEPT ![buf[p]] = disk[blockno[buf[p]]]]
  /\ valid' = [valid EXCEPT ![buf[p]] = TRUE]
  /\ Goto(p, "have")
  /\ UNCHANGED <<bufVars, disk, cur, dirty, holder, pinned, want, buf>>

(* The owner of the buffer changes b->data. *)
Modify(p, v) ==
  /\ Held(p)
  /\ data' = [data EXCEPT ![buf[p]] = v]
  /\ cur' = [cur EXCEPT ![want[p]] = v]
  /\ dirty' = dirty \cup {buf[p]}
  /\ UNCHANGED <<bufVars, valid, disk, holder, pinned, pc, want, buf>>

(* bwrite(): the disk is written, in a later step, from the locked buffer. *)
BwriteStart(p) ==
  /\ Held(p) /\ Goto(p, "writing")
  /\ UNCHANGED <<bufVars, ioVars, holder, pinned, want, buf>>

BwriteDone(p) ==
  /\ pc[p] = "writing"
  /\ disk' = [disk EXCEPT ![blockno[buf[p]]] = data[buf[p]]]
  /\ dirty' = dirty \ {buf[p]}
  /\ Goto(p, "have")
  /\ UNCHANGED <<bufVars, valid, data, cur, holder, pinned, want, buf>>

(* bpin(), once for each block of the log. *)
Bpin(p) ==
  /\ Held(p) /\ buf[p] \notin pinned /\ Cardinality(pinned) < MaxPin
  /\ refcnt' = [refcnt EXCEPT ![buf[p]] = @ + 1]
  /\ pinned' = pinned \cup {buf[p]}
  /\ UNCHANGED <<lru, blockno, ioVars, holder, pc, want, buf>>

(* bunpin(), of a block that install_trans() has just written. *)
Bunpin(p) ==
  /\ Held(p) /\ buf[p] \in pinned \ dirty
  /\ refcnt' = [refcnt EXCEPT ![buf[p]] = @ - 1]
  /\ pinned' = pinned \ {buf[p]}
  /\ UNCHANGED <<lru, blockno, ioVars, holder, pc, want, buf>>

(* Faulty variant of Wakened: releasesleep() forgets wakeup(). *)
WakenedNone(b) == {}

(* wakeup(lk): all who sleep on the buffer's lock. *)
Wakened(b) == {q \in Procs : pc[q] = "asleep" /\ buf[q] = b}

(* Faulty variant of Retry: acquiresleep() tests lk->locked only once. *)
RetryNot == "locked"

(* A woken thread tests lk->locked again. *)
Retry == "lock"

(* brelse(), first half: releasesleep(). *)
ReleaseSleep(p) ==
  /\ Held(p) /\ buf[p] \notin dirty \ pinned
  /\ holder' = [holder EXCEPT ![buf[p]] = {}]
  /\ pc' = [q \in Procs |-> IF q = p THEN "unref" ELSE IF q \in Wakened(buf[p]) THEN Retry ELSE pc[q]]
  /\ UNCHANGED <<bufVars, ioVars, pinned, want, buf>>

(* Faulty variant of Dropped: the count is kept while others use the buffer. *)
DroppedLast(b) == IF refcnt[b] = 1 THEN [refcnt EXCEPT ![b] = 0] ELSE refcnt

(* b->refcnt--. *)
Dropped(b) == [refcnt EXCEPT ![b] = @ - 1]

(* Unlink the buffer and insert it after bcache.head. *)
ToFront(b) ==
  LET at == CHOOSE i \in Bufs : lru[i] = b
  IN [i \in Bufs |-> IF i = 1 THEN b ELSE IF i <= at THEN lru[i - 1] ELSE lru[i]]

(* brelse(), second half: the last one out moves the buffer to the front. *)
Unref(p) ==
  LET b == buf[p] IN
  /\ pc[p] = "unref"
  /\ refcnt' = Dropped(b)
  /\ lru' = IF refcnt[b] = 1 THEN ToFront(b) ELSE lru
  /\ Goto(p, "idle")
  /\ UNCHANGED <<blockno, ioVars, holder, pinned, want, buf>>

Step(p) ==
  \/ AcquireSleep(p) \/ BreadStart(p) \/ BreadDone(p) \/ BwriteDone(p)
  \/ ReleaseSleep(p) \/ Unref(p)

Next ==
  \E p \in Procs :
    \/ \E n \in Blocks : BgetMiss(p, n) \/ \E b \in Bufs : BgetHit(p, n, b)
    \/ Step(p) \/ BwriteStart(p) \/ Bpin(p) \/ Bunpin(p) \/ \E v \in Vals : Modify(p, v)

Spec == Init /\ [][Next]_vars

(* Every thread runs, the disk answers, and an owner that keeps being able to  *)
(* write or release its buffer does.                                           *)
Fairness == \A p \in Procs : WF_vars(Step(p)) /\ SF_vars(ReleaseSleep(p)) /\ SF_vars(BwriteStart(p))

-----------------------------------------------------------------------------
Users(b) == {p \in Procs : buf[p] = b /\ pc[p] \notin {"idle", "panic"}}
Owner(p) == pc[p] \in {"locked", "reading", "have", "writing"}

(* A block is never in two buffers: the lookup and the recycling of bget() are *)
(* one critical section, so that two threads that miss on a block share it.    *)
OneBufferPerBlock ==
  \A b, c \in Bufs : b # c /\ blockno[b] # None => blockno[b] # blockno[c]

(* A thread keeps the block it asked for from bget() to brelse(), with its     *)
(* contents the last ones that any thread gave it: neither a recycled buffer,  *)
(* nor a sleep on its lock, nor a disk read racing a change loses an update.   *)
OwnerSeesLatest ==
  /\ \A p \in Procs : pc[p] \notin {"idle", "panic"} => blockno[buf[p]] = want[p]
  /\ \A p \in Procs : Held(p) => valid[buf[p]] /\ data[buf[p]] = cur[want[p]]

(* The sleep-lock excludes: the thread that works on a buffer is the one that  *)
(* its lock names, so the checks of bwrite() and brelse() never panic.         *)
LockNamesOwner == \A p \in Procs : Owner(p) => holder[buf[p]] = {p}

(* b->refcnt counts the threads between bget() and brelse() and the log's pin. *)
RefcntCounts ==
  \A b \in Bufs : refcnt[b] = Cardinality(Users(b)) + (IF b \in pinned THEN 1 ELSE 0)

(* With a buffer for every thread and every pin, bget() finds one to recycle.  *)
EnoughBuffers ==
  NBUF >= Cardinality(Procs) + MaxPin => \A p \in Procs : pc[p] # "panic"

(* Whoever sleeps on a buffer's lock sleeps while someone holds it: the test   *)
(* of lk->locked and the sleep are one critical section with the release.      *)
NoLostWakeup == \A p \in Procs : pc[p] = "asleep" => holder[buf[p]] # {}

At(p, l) == pc[p] = l

(* A thread that sleeps for a buffer is woken.  (It may find it locked again.) *)
SleepersWake == \A p \in Procs : At(p, "asleep") ~> At(p, "lock")
=============================================================================
