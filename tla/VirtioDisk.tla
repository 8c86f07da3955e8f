----------------------------- MODULE VirtioDisk -----------------------------
(***************************************************************************)
(* The disk driver (kernel/virtio_disk.c): threads in virtio_disk_rw(),    *)
(* the interrupt handler, and the device that consumes the avail ring and  *)
(* fills the used ring at its own pace and in any order.                   *)
(*                                                                         *)
(* A step of a thread is one hold of vdisk_lock, except that publishing a  *)
(* request is two steps, the ring entry and the index, because the device  *)
(* takes no lock.  A buffer is in use by one thread at a time (its         *)
(* sleep-lock, see BufCache).                                              *)
(***************************************************************************)
EXTENDS Naturals, FiniteSets

CONSTANTS Procs,    \* threads that call virtio_disk_rw()
          Bufs,     \* buffers, each of a block of its own
          Vals,     \* contents of a block
          NUM,      \* descriptors, and entries of the two rings
          IdxMod    \* 2^16: avail->idx, used->idx and used_idx wrap

DiskAssumption ==
  /\ NUM \in Nat \ {0} /\ IdxMod \in Nat \ {0}
  /\ IdxMod % NUM = 0
  /\ IsFiniteSet(Procs) /\ "intr" \notin Procs /\ "none" \notin Bufs

VARIABLES
  free, desc, ops, info,   \* free descriptors, descriptors, request headers, disk.info[]
  avail, availIdx,         \* disk.avail: ring and idx
  used, usedIdx,           \* disk.used: ring and idx, written by the device
  seen, inflight,          \* the device: avail entries taken, requests under way
  used_idx,                \* disk.used_idx: used entries the handler has looked at
  irq, handler,            \* the interrupt line; where the handler is
  lock,                    \* {} or {holder of vdisk_lock}
  bdisk, data, disk,       \* b->disk, b->data; the blocks on the disk
  pc, req, idx             \* a thread: label, its buffer and direction, idx[0..2]

driverVars == <<free, desc, ops, avail, availIdx>>
deviceVars == <<used, usedIdx, seen, inflight, disk>>
intrVars == <<used_idx, irq, handler>>
vars == <<driverVars, info, deviceVars, intrVars, lock, bdisk, data, pc, req, idx>>

Desc == 0..(NUM - 1)
NoBuf == "none"
ZeroDesc == [addr |-> <<>>, flags |-> {}, next |-> 0]

(* virtio_disk_init(): all descriptors free, all pages zero. *)
Init ==
  /\ free = Desc /\ desc = [d \in Desc |-> ZeroDesc]
  /\ ops = [d \in Desc |-> [write |-> FALSE, blk |-> NoBuf]]
  /\ info = [d \in Desc |-> [b |-> NoBuf, status |-> 0]]
  /\ avail = [i \in Desc |-> 0] /\ availIdx = 0
  /\ used = [i \in Desc |-> 0] /\ usedIdx = 0 /\ used_idx = 0
  /\ seen = 0 /\ inflight = {}
  /\ irq = FALSE /\ handler = "off" /\ lock = {}
  /\ bdisk = [b \in Bufs |-> 0]
  /\ data \in [Bufs -> Vals] /\ disk \in [Bufs -> Vals]
  /\ pc = [p \in Procs |-> "idle"]
  /\ req = [p \in Procs |-> [b |-> NoBuf, write |-> FALSE]]
  /\ idx = [p \in Procs |-> <<0, 0, 0>>]

-----------------------------------------------------------------------------
(* Faulty variant of WakeAs: nobody is woken. *)
WakeAsNone(p, l, a, b) == pc' = [pc EXCEPT ![p] = l]

(* wakeup(): threads asleep at label a go to b, while p goes to l. *)
WakeAs(p, l, a, b) ==
  pc' = [q \in Procs |-> IF q = p THEN l ELSE IF pc[q] = a THEN b ELSE pc[q]]

(* alloc_desc(): the lowest free descriptor. *)
Lowest(S) == CHOOSE d \in S : \A e \in S : d <= e

(* alloc3_desc() with three or more free descriptors. *)
Alloc3 ==
  LET a == Lowest(free)  b == Lowest(free \ {a})  c == Lowest(free \ {a, b}) IN <<a, b, c>>

(* The descriptors of the chain that starts at d (free_chain() follows NEXT). *)
Chain(d) ==
  LET d2 == desc[d].next  d3 == desc[d2].next IN
  IF "NEXT" \notin desc[d].flags THEN {d}
  ELSE IF "NEXT" \notin desc[d2].flags THEN {d, d2} ELSE {d, d2, d3}

(* uint16 counters wrap. *)
Next16(i) == (i + 1) % IdxMod

(* bread() or bwrite() of a buffer that the thread has locked. *)
Call(p, b, w, v) ==
  /\ pc[p] = "idle" /\ \A q \in Procs : pc[q] # "idle" => req[q].b # b
  /\ req' = [req EXCEPT ![p] = [b |-> b, write |-> w]]
  /\ data' = [data EXCEPT ![b] = v]
  /\ pc' = [pc EXCEPT ![p] = "alloc"]
  /\ UNCHANGED <<driverVars, info, deviceVars, intrVars, lock, bdisk, idx>>

(* Fewer than three descriptors: alloc3_desc() gives back what it took, and    *)
(* free_desc() of those wakes the others that wait; sleep(&disk.free[0]).      *)
AllocFail(p) ==
  /\ pc[p] = "alloc" /\ lock = {} /\ Cardinality(free) < 3
  /\ desc' = [d \in Desc |-> IF d \in free THEN ZeroDesc ELSE desc[d]]
  /\ IF free = {} THEN pc' = [pc EXCEPT ![p] = "wait_desc"]
     ELSE WakeAs(p, "wait_desc", "wait_desc", "alloc")
  /\ UNCHANGED <<free, ops, avail, availIdx, info, deviceVars, intrVars, lock, bdisk, data,
                 req, idx>>

(* Faulty variant of Format: the device gets the direction of the caller. *)
FormatReversed(i, b, w) ==
  [desc EXCEPT
     ![i[1]] = [addr |-> <<"op", i[1]>>, flags |-> {"NEXT"}, next |-> i[2]],
     ![i[2]] = [addr |-> <<"data", b>>, flags |-> IF w THEN {"WRITE", "NEXT"} ELSE {"NEXT"},
                next |-> i[3]],
     ![i[3]] = [addr |-> <<"status", i[1]>>, flags |-> {"WRITE"}, next |-> 0]]

(* The chain of three descriptors for buffer b at i. *)
Format(i, b, w) ==
  [desc EXCEPT
     ![i[1]] = [addr |-> <<"op", i[1]>>, flags |-> {"NEXT"}, next |-> i[2]],
     ![i[2]] = [addr |-> <<"data", b>>, flags |-> IF w THEN {"NEXT"} ELSE {"WRITE", "NEXT"},
                next |-> i[3]],
     ![i[3]] = [addr |-> <<"status", i[1]>>, flags |-> {"WRITE"}, next |-> 0]]

(* disk.avail->ring[disk.avail->idx % NUM] = idx[0]; the index comes later. *)
Publish(i) == avail' = [avail EXCEPT ![availIdx % NUM] = i[1]]

(* Faulty variant of Record: filed under the last descriptor of the chain. *)
RecordLast(i, b) == info' = [info EXCEPT ![i[3]] = [b |-> b, status |-> 255]]

(* disk.info[idx[0]]: the buffer and the status, for the handler. *)
Record(i, b) == info' = [info EXCEPT ![i[1]] = [b |-> b, status |-> 255]]

(* Allocate and format the descriptors, and write the ring entry. *)
Submit(p) ==
  LET i == Alloc3  b == req[p].b  w == req[p].write IN
  /\ pc[p] = "alloc" /\ lock = {} /\ Cardinality(free) >= 3
  /\ free' = free \ {i[1], i[2], i[3]}
  /\ ops' = [ops EXCEPT ![i[1]] = [write |-> w, blk |-> b]]
  /\ desc' = Format(i, b, w)
  /\ Record(i, b)
  /\ bdisk' = [bdisk EXCEPT ![b] = 1]
  /\ Publish(i) /\ UNCHANGED availIdx
  /\ idx' = [idx EXCEPT ![p] = i]
  /\ lock' = {p} /\ pc' = [pc EXCEPT ![p] = "notify"]
  /\ UNCHANGED <<deviceVars, intrVars, data, req>>

(* disk.avail->idx += 1; QUEUE_NOTIFY; b->disk is 1, sleep(b, &vdisk_lock). *)
Notify(p) ==
  /\ pc[p] = "notify"
  /\ availIdx' = Next16(availIdx)
  /\ pc' = [pc EXCEPT ![p] = "asleep"] /\ lock' = {}
  /\ UNCHANGED <<free, desc, ops, avail, info, deviceVars, intrVars, bdisk, data, req, idx>>

(* Faulty variant of Freed: only the head of the chain is given back. *)
FreedHead(p) == {idx[p][1]}

(* free_chain(idx[0]). *)
Freed(p) == Chain(idx[p][1])

(* Awake with the lock: the loop ends when the handler has cleared b->disk;    *)
(* free_chain() wakes those that wait for descriptors.                         *)
Finish(p) ==
  /\ pc[p] = "relock" /\ lock = {}
  /\ IF bdisk[req[p].b] = 1
     THEN /\ pc' = [pc EXCEPT ![p] = "asleep"]
          /\ UNCHANGED <<free, desc, info>>
     ELSE /\ info' = [info EXCEPT ![idx[p][1]].b = NoBuf]
          /\ free' = free \cup Freed(p)
          /\ desc' = [d \in Desc |-> IF d \in Freed(p) THEN ZeroDesc ELSE desc[d]]
          /\ WakeAs(p, "idle", "wait_desc", "alloc")
  /\ UNCHANGED <<ops, avail, availIdx, deviceVars, intrVars, lock, bdisk, data, req, idx>>

-----------------------------------------------------------------------------
(* The device takes the next entry of the avail ring. *)
DevTake ==
  /\ seen # availIdx
  /\ inflight' = inflight \cup {avail[seen % NUM]}
  /\ seen' = Next16(seen)
  /\ UNCHANGED <<driverVars, info, used, usedIdx, disk, intrVars, lock, bdisk, data, pc, req, idx>>

(* The device does a request it holds: moves the data through the second       *)
(* descriptor, writes the status through the third, adds the head to the used  *)
(* ring and raises the interrupt.                                              *)
DevDone(h) ==
  LET d2 == desc[h].next  d3 == desc[d2].next  b == desc[d2].addr[2]  blk == ops[h].blk IN
  /\ h \in inflight /\ h \notin free
  /\ inflight' = inflight \ {h}
  /\ IF "WRITE" \in desc[d2].flags
     THEN data' = [data EXCEPT ![b] = disk[blk]] /\ UNCHANGED disk
     ELSE disk' = [disk EXCEPT ![blk] = data[b]] /\ UNCHANGED data
  /\ info' = [info EXCEPT ![desc[d3].addr[2]].status = 0]
  /\ used' = [used EXCEPT ![usedIdx % NUM] = h]
  /\ usedIdx' = Next16(usedIdx)
  /\ irq' = TRUE
  /\ UNCHANGED <<driverVars, seen, used_idx, handler, lock, bdisk, pc, req, idx>>

-----------------------------------------------------------------------------
(* Faulty variant of Ack: the interrupt is acknowledged after the loop. *)
AckLate(entry) == irq' = IF entry THEN irq ELSE FALSE

(* The handler writes INTERRUPT_ACK before it looks at the used ring. *)
Ack(entry) == irq' = IF entry THEN FALSE ELSE irq

(* virtio_disk_intr(): claimed from the PLIC by one hart, takes the lock. *)
IntrEnter ==
  /\ irq /\ handler = "off" /\ lock = {}
  /\ Ack(TRUE)
  /\ handler' = "loop" /\ lock' = {"intr"}
  /\ UNCHANGED <<driverVars, info, deviceVars, used_idx, bdisk, data, pc, req, idx>>

(* The thread that wakeup(b) finds asleep. *)
Sleepers(b) == {q \in Procs : pc[q] = "asleep" /\ req[q].b = b}

(* One turn of the loop: b->disk = 0 and wakeup(b), or a panic. *)
IntrStep ==
  LET h == used[used_idx % NUM]  b == info[h].b IN
  /\ handler = "loop" /\ used_idx # usedIdx
  /\ IF info[h].status # 0 \/ b = NoBuf
     THEN handler' = "panic" /\ UNCHANGED <<bdisk, pc, used_idx>>
     ELSE /\ bdisk' = [bdisk EXCEPT ![b] = 0]
          /\ pc' = [q \in Procs |-> IF q \in Sleepers(b) THEN "relock" ELSE pc[q]]
          /\ used_idx' = Next16(used_idx)
          /\ UNCHANGED handler
  /\ UNCHANGED <<driverVars, info, deviceVars, irq, lock, data, req, idx>>

(* The loop ends. *)
IntrEnd ==
  /\ handler = "loop" /\ used_idx = usedIdx
  /\ handler' = "end"
  /\ UNCHANGED <<driverVars, info, deviceVars, used_idx, irq, lock, bdisk, data, pc, req, idx>>

IntrExit ==
  /\ handler = "end"
  /\ Ack(FALSE)
  /\ handler' = "off" /\ lock' = {}
  /\ UNCHANGED <<driverVars, info, deviceVars, used_idx, bdisk, data, pc, req, idx>>

Device == DevTake \/ \E h \in Desc : DevDone(h)
Intr == IntrEnter \/ IntrStep \/ IntrEnd \/ IntrExit
Run(p) == AllocFail(p) \/ Submit(p) \/ Notify(p) \/ Finish(p)

Next ==
  \/ \E p \in Procs : Run(p) \/ \E b \in Bufs, w \in BOOLEAN, v \in Vals : Call(p, b, w, v)
  \/ Device \/ Intr

Spec == Init /\ [][Next]_vars

(* The device answers every request, interrupts are delivered, and a thread    *)
(* that keeps finding the lock free gets it (the lock is a spinning swap).     *)
Fairness ==
  /\ \A p \in Procs : SF_vars(Run(p))
  /\ WF_vars(DevTake) /\ \A h \in Desc : WF_vars(DevDone(h))
  /\ SF_vars(IntrEnter) /\ WF_vars(IntrStep) /\ WF_vars(IntrEnd) /\ WF_vars(IntrExit)

-----------------------------------------------------------------------------
Busy == {p \in Procs : pc[p] \in {"notify", "asleep", "relock"}}

(* The descriptors are the free ones and the chains of the requests under way, *)
(* with none in two places and none lost: free_chain() returns exactly what    *)
(* alloc3_desc() took, whatever the order of completion.                       *)
DescriptorsPartitioned ==
  /\ \A p \in Busy : Cardinality(Chain(idx[p][1])) = 3 /\ Chain(idx[p][1]) \cap free = {}
  /\ \A p, q \in Busy : p # q => Chain(idx[p][1]) \cap Chain(idx[q][1]) = {}
  /\ Cardinality(free) + 3 * Cardinality(Busy) = NUM

(* None of the driver's panics is reached: what the handler finds in the used  *)
(* ring is a finished request that still has its buffer ("virtio_disk_intr     *)
(* status"), and a thread never frees a free descriptor ("free_desc 2").       *)
NoPanic ==
  /\ handler # "panic"
  /\ \A p \in Procs : pc[p] = "relock" => Chain(idx[p][1]) \cap free = {}

(* A used entry that the handler has not looked at has an interrupt coming or  *)
(* a handler in its loop: no completion is left behind by the race between the *)
(* acknowledgement and the device.                                             *)
NoLostInterrupt == used_idx # usedIdx => irq \/ handler \in {"loop", "panic"}

(* The driver implements an atomic disk: the value a thread finds in its       *)
(* buffer when virtio_disk_rw() returns is the one the disk had, or was given, *)
(* at one moment between the call and the return.                              *)
Abstract == INSTANCE BlockDev WITH
  Blocks <- Bufs, store <- disk,
  req <- [p \in Procs |-> IF pc[p] = "idle" THEN <<>> ELSE
            [blk |-> req[p].b, write |-> req[p].write, val |-> data[req[p].b],
             done |-> p \in Busy /\ info[idx[p][1]].status = 0]]
ServesRequests == Abstract!Spec

At(p, l) == pc[p] = l

(* A request that has its descriptors returns, and a thread that waits for     *)
(* descriptors is woken: no completion and no release is slept through.  (It   *)
(* may find the descriptors gone again: nothing makes the driver fair.)        *)
NobodySleepsForever ==
  \A p \in Procs : /\ At(p, "notify") ~> At(p, "idle")
                  /\ At(p, "wait_desc") ~> At(p, "alloc")

-----------------------------------------------------------------------------
(* The state without what is never read again: ring entries outside the        *)
(* windows, headers and info of free descriptors, the request of an idle       *)
(* thread.                                                                     *)
Pending(i, from, to) == (i + IdxMod - from) % IdxMod < (to + IdxMod - from) % IdxMod
Live ==
  <<free, desc, [d \in Desc \ free |-> <<ops[d], info[d]>>],
    {<<i, avail[i % NUM]>> : i \in {j \in 0..(IdxMod - 1) : Pending(j, seen, availIdx)}},
    {<<i, used[i % NUM]>> : i \in {j \in 0..(IdxMod - 1) : Pending(j, used_idx, usedIdx)}},
    avail[availIdx % NUM] \in {idx[p][1] : p \in {q \in Procs : pc[q] = "notify"}},
    availIdx, seen, usedIdx, used_idx, inflight, irq, handler, lock, bdisk, data, disk, pc,
    [p \in Procs |-> IF pc[p] = "idle" THEN <<>> ELSE <<req[p], IF p \in Busy THEN idx[p] ELSE <<>>>>]>>
=============================================================================
