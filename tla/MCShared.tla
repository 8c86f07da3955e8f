------------------------------ MODULE MCShared ------------------------------
(***************************************************************************)
(* What processes share: the disk driver, the buffer cache, the            *)
(* spin-locks, the table of open files and the pages of memory. The        *)
(* components have no state in common, so one run checks them side by      *)
(* side: a behaviour chooses one of them, its part, and is a behaviour of  *)
(* that component in the variables s1, s2, ...; the remaining ones stay 0. *)
(***************************************************************************)
EXTENDS Integers, TLC

CONSTANTS a1, a2, a3, b1, b2, b3, c1, c2, d1

VARIABLES part, s1, s2, s3, s4, s5, s6, s7, s8, s9, s10, s11, s12, s13, s14, s15, s16, s17, s18, s19, s20

vars == <<part, s1, s2, s3, s4, s5, s6, s7, s8, s9, s10, s11, s12, s13, s14, s15, s16, s17, s18, s19, s20>>

(* Names that no component tells apart: harts, processes or pages, and blocks. *)
Two == {a1, a2}
Three == {b1, b2, b3}
Symmetric == Permutations(Two) \cup Permutations(Three)

Callers == {a1, a2, a3}
Processes == {c1, c2}
Bufs == {c1, c2}
OneThread == {c1}
OneLock == {d1}
Bits == {0, 1}
OneVal == {0}

(* Three requests for two chains of descriptors, and the indices wrap. *)
Rings == INSTANCE VirtioDisk WITH
  Procs <- Callers, Bufs <- Three, Vals <- OneVal, NUM <- 7, IdxMod <- 14, free <- s1,
  desc <- s2, ops <- s3, info <- s4, avail <- s5, availIdx <- s6, used <- s7, usedIdx <- s8,
  seen <- s9, inflight <- s10, used_idx <- s11, irq <- s12, handler <- s13, lock <- s14,
  bdisk <- s15, data <- s16, disk <- s17, pc <- s18, req <- s19, idx <- s20

(* Two requests that carry data. *)
Data == INSTANCE VirtioDisk WITH
  Procs <- Two, Bufs <- Bufs, Vals <- Bits, NUM <- 7, IdxMod <- 7, free <- s1, desc <- s2,
  ops <- s3, info <- s4, avail <- s5, availIdx <- s6, used <- s7, usedIdx <- s8, seen <- s9,
  inflight <- s10, used_idx <- s11, irq <- s12, handler <- s13, lock <- s14, bdisk <- s15,
  data <- s16, disk <- s17, pc <- s18, req <- s19, idx <- s20

(* More blocks than buffers; a buffer for each thread, and one too few for a pin. *)
Cache == INSTANCE BufCache WITH
  Procs <- Two, Blocks <- Three, Vals <- Bits, NBUF <- 2, MaxPin <- 0, lru <- s1, blockno <- s2,
  valid <- s3, refcnt <- s4, holder <- s5, data <- s6, pinned <- s7, dirty <- s8, disk <- s9,
  cur <- s10, pc <- s11, want <- s12, buf <- s13

Pinned == INSTANCE BufCache WITH
  Procs <- Two, Blocks <- Three, Vals <- Bits, NBUF <- 2, MaxPin <- 1, lru <- s1, blockno <- s2,
  valid <- s3, refcnt <- s4, holder <- s5, data <- s6, pinned <- s7, dirty <- s8, disk <- s9,
  cur <- s10, pc <- s11, want <- s12, buf <- s13

Locks == INSTANCE Spinlock WITH
  CPU <- Two, Threads <- OneThread, Shared <- OneLock, locked <- s1, lkcpu <- s2, noff <- s3,
  intena <- s4, sie <- s5, cur <- s6, pc <- s7, lk <- s8, old <- s9, frame <- s10, saved <- s11,
  fresh <- s12, held <- s13, base <- s14

(* Room for one pipe: a second one finds one slot, or no descriptors. *)
Files == INSTANCE FileTable WITH
  Procs <- Processes, First <- c1, NFILE <- 3, NOFILE <- 2, Pipes <- Two, file <- s1,
  ofile <- s2, pipe <- s3, th <- s4

(* Pages for both processes, and too few for both at every step. *)
Mem == INSTANCE Memory WITH
  Procs <- Processes, Init1 <- c1, Pages <- 1..16, PTES <- 2, PG <- 2, UintMod <- 64,
  MaxSz <- 8, Vals <- {"x"}, free <- s1, data <- s2, proc <- s3, image <- s4, last <- s5
NoMem == INSTANCE Memory WITH
  Procs <- Processes, Init1 <- c1, Pages <- 1..12, PTES <- 2, PG <- 2, UintMod <- 64,
  MaxSz <- 8, Vals <- {"x"}, free <- s1, data <- s2, proc <- s3, image <- s4, last <- s5

ASSUME SharedAssumption ==
  /\ Rings!DiskAssumption /\ Data!DiskAssumption /\ Cache!CacheAssumption /\ Pinned!CacheAssumption
  /\ Locks!SpinAssumption /\ Files!FileTableAssumption
  /\ Mem!MemoryAssumption /\ NoMem!MemoryAssumption

Init ==
  \/ part = "rings" /\ Rings!Init
  \/ part = "data" /\ Data!Init
  \/ part = "cache" /\ Cache!Init
       /\ s14 = 0 /\ s15 = 0 /\ s16 = 0 /\ s17 = 0 /\ s18 = 0 /\ s19 = 0 /\ s20 = 0
  \/ part = "pinned" /\ Pinned!Init
       /\ s14 = 0 /\ s15 = 0 /\ s16 = 0 /\ s17 = 0 /\ s18 = 0 /\ s19 = 0 /\ s20 = 0
  \/ part = "locks" /\ Locks!Init
       /\ s15 = 0 /\ s16 = 0 /\ s17 = 0 /\ s18 = 0 /\ s19 = 0 /\ s20 = 0
  \/ part = "files" /\ Files!Init
       /\ s5 = 0 /\ s6 = 0 /\ s7 = 0 /\ s8 = 0 /\ s9 = 0 /\ s10 = 0 /\ s11 = 0 /\ s12 = 0
       /\ s13 = 0 /\ s14 = 0 /\ s15 = 0 /\ s16 = 0 /\ s17 = 0 /\ s18 = 0 /\ s19 = 0 /\ s20 = 0
  \/ part = "memory" /\ Mem!Init
       /\ s6 = 0 /\ s7 = 0 /\ s8 = 0 /\ s9 = 0 /\ s10 = 0 /\ s11 = 0 /\ s12 = 0 /\ s13 = 0
       /\ s14 = 0 /\ s15 = 0 /\ s16 = 0 /\ s17 = 0 /\ s18 = 0 /\ s19 = 0 /\ s20 = 0
  \/ part = "nomemory" /\ NoMem!Init
       /\ s6 = 0 /\ s7 = 0 /\ s8 = 0 /\ s9 = 0 /\ s10 = 0 /\ s11 = 0 /\ s12 = 0 /\ s13 = 0
       /\ s14 = 0 /\ s15 = 0 /\ s16 = 0 /\ s17 = 0 /\ s18 = 0 /\ s19 = 0 /\ s20 = 0

Next ==
  \/ part = "rings" /\ Rings!Next /\ UNCHANGED part
  \/ part = "data" /\ Data!Next /\ UNCHANGED part
  \/ part = "cache" /\ Cache!Next
       /\ UNCHANGED <<part, s14, s15, s16, s17, s18, s19, s20>>
  \/ part = "pinned" /\ Pinned!Next
       /\ UNCHANGED <<part, s14, s15, s16, s17, s18, s19, s20>>
  \/ part = "locks" /\ Locks!Next
       /\ UNCHANGED <<part, s15, s16, s17, s18, s19, s20>>
  \/ part = "files" /\ Files!Next
       /\ UNCHANGED <<part, s5, s6, s7, s8, s9, s10, s11, s12, s13, s14, s15, s16, s17, s18, s19, s20>>
  \/ part = "memory" /\ Mem!Next
       /\ UNCHANGED <<part, s6, s7, s8, s9, s10, s11, s12, s13, s14, s15, s16, s17, s18, s19, s20>>
  \/ part = "nomemory" /\ NoMem!Next
       /\ UNCHANGED <<part, s6, s7, s8, s9, s10, s11, s12, s13, s14, s15, s16, s17, s18, s19, s20>>

Spec == Init /\ [][Next]_vars

(* What is read again of a state. *)
Live ==
  <<part, CASE part = "rings" -> Rings!Live
            [] part = "data" -> Data!Live
            [] part = "cache" -> Cache!vars
            [] part = "pinned" -> Pinned!vars
            [] part = "locks" -> Locks!Live
            [] part = "files" -> Files!Live
            [] part = "memory" -> Mem!Shapes
            [] part = "nomemory" -> NoMem!Shapes>>

-----------------------------------------------------------------------------
(* The rings of the driver: free_chain() returns exactly the descriptors that  *)
(* alloc3_desc() took, whatever the order of completion; virtio_disk_intr()    *)
(* finds only finished requests that still have their buffers, so its panics   *)
(* are not reached; and a completion it has not looked at has an interrupt     *)
(* coming or a handler in its loop, also when the device acts between the      *)
(* acknowledgement and the reading of the index.                               *)
RingsSafe ==
  part = "rings" => Rings!DescriptorsPartitioned /\ Rings!NoPanic /\ Rings!NoLostInterrupt

(* virtio_disk_rw() implements the atomic disk of BlockDev: each request takes *)
(* effect at one moment between its call and its return.                       *)
ServesRequests ==
  /\ part = "data" => Data!Abstract!Init
  /\ [][part = "data" => Data!Abstract!Next \/ UNCHANGED Data!Abstract!vars]_vars

(* bget() never puts a block into two buffers, and from bget() to brelse() a   *)
(* thread has the block it asked for with the contents last given to it,       *)
(* whoever recycles, reads or sleeps meanwhile. Its sleep-lock names it; who   *)
(* sleeps in acquiresleep() sleeps while somebody holds the lock; refcnt       *)
(* counts the users and the log's pins; and with a buffer for every thread and *)
(* every pin, "bget: no buffers" is not reached.                               *)
CacheCoherent ==
  /\ part = "cache" => /\ Cache!OneBufferPerBlock /\ Cache!OwnerSeesLatest /\ Cache!LockNamesOwner
                       /\ Cache!NoLostWakeup /\ Cache!RefcntCounts /\ Cache!EnoughBuffers
  /\ part = "pinned" => /\ Pinned!OneBufferPerBlock /\ Pinned!OwnerSeesLatest /\ Pinned!LockNamesOwner
                        /\ Pinned!NoLostWakeup /\ Pinned!RefcntCounts

(* Two harts are never both between acquire() and release() of a lock, also    *)
(* when sched() passes it from a thread to a scheduler or back; a hart that    *)
(* holds, waits for or gives back a lock takes no interrupt; with its locks    *)
(* given back an agent finds interrupts as it left them, also when sched() has *)
(* moved it to another hart in between (noff, intena); and the panics of       *)
(* acquire(), release(), pop_off() and sched() are not reached, although       *)
(* holding() reads the lock without owning it.                                 *)
LocksExclude ==
  part = "locks" => /\ Locks!MutualExclusion /\ Locks!NoInterruptWhileHolding
                    /\ Locks!NoffCounts /\ Locks!InterruptsRestored /\ Locks!NoPanic

(* f->ref is the number of descriptors and kernel variables that refer to the  *)
(* file, whatever fails in pipe(), open() and dup() and whoever forks or       *)
(* exits; an end of a pipe is open as long as an open file refers to it or its *)
(* close is under way, and the page is freed with the second end.              *)
FilesCounted == part = "files" => Files!RefsExact /\ Files!PipesMatch

(* Wherever fork(), exec() or sbrk() runs out of memory, every page is free or *)
(* has one owner and one use; the pages below p->sz are mapped and no others;  *)
(* a program finds in its memory what it or its parent has put there, and      *)
(* zeros in new pages; and undoing reaches none of the panics of vm.c.         *)
SpacesIntact ==
  /\ part = "memory" => Mem!PagesAccounted /\ Mem!SizesMapped /\ Mem!ImageKept /\ Mem!NoPanic
  /\ part = "nomemory" => NoMem!PagesAccounted /\ NoMem!SizesMapped /\ NoMem!ImageKept /\ NoMem!NoPanic

(* A fork() or exec() that fails leaves the processes and as many free pages   *)
(* as before; a failed sbrk() leaves the size and the mappings.                *)
FailureLeavesNothing ==
  [][/\ part = "memory" => Mem!FailureLeavesNothing
     /\ part = "nomemory" => NoMem!FailureLeavesNothing]_vars
=============================================================================
