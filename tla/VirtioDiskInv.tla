--------------------------- MODULE VirtioDiskInv ----------------------------
(***************************************************************************)
(* The inductive invariant of VirtioDisk: where a request is between       *)
(* virtio_disk_rw(), the two rings, the device and the interrupt handler.  *)
(***************************************************************************)
EXTENDS VirtioDisk, Integers

Labels == {"idle", "alloc", "wait_desc", "notify", "asleep", "relock"}
Addrs == {<<>>} \cup ({"op", "status"} \X Desc) \cup ({"data"} \X Bufs)
AnyBuf == Bufs \cup {NoBuf}
Counters == 0..(IdxMod - 1)

(* info.status of a request that the device has not done. *)
Undone == 255

DriverTypes ==
  /\ free \subseteq Desc
  /\ desc \in [Desc -> [addr : Addrs, flags : SUBSET {"NEXT", "WRITE"}, next : Desc]]
  /\ ops \in [Desc -> [write : BOOLEAN, blk : AnyBuf]]
  /\ info \in [Desc -> [b : AnyBuf, status : {0, Undone}]]
  /\ bdisk \in [Bufs -> {0, 1}] /\ data \in [Bufs -> Vals] /\ disk \in [Bufs -> Vals]

RingTypes ==
  /\ avail \in [Desc -> Desc] /\ used \in [Desc -> Desc] /\ inflight \subseteq Desc
  /\ availIdx \in Counters /\ seen \in Counters /\ usedIdx \in Counters /\ used_idx \in Counters

ThreadTypes ==
  /\ irq \in BOOLEAN /\ handler \in {"off", "loop", "end", "panic"}
  /\ pc \in [Procs -> Labels]
  /\ req \in [Procs -> [b : AnyBuf, write : BOOLEAN]]
  /\ idx \in [Procs -> Desc \X Desc \X Desc]

TypeOK == DriverTypes /\ RingTypes /\ ThreadTypes

-----------------------------------------------------------------------------
(* The buffers of two requests are different (their sleep-locks are held). *)
BufInv ==
  /\ \A p \in Procs : pc[p] # "idle" => req[p].b \in Bufs
  /\ \A p, q \in Procs : pc[p] # "idle" /\ pc[q] # "idle" /\ req[p].b = req[q].b => p = q

(* vdisk_lock is held between the ring entry and the index, and by the handler. *)
LockInv ==
  /\ \A p \in Procs : pc[p] = "notify" <=> lock = {p}
  /\ handler # "off" <=> lock = {"intr"}

(* The descriptors of a request under way, linked and filled as the device needs them. *)
Owned(p) == {idx[p][1], idx[p][2], idx[p][3]}

Formatted(p) ==
  LET i == idx[p] IN
  /\ i[1] # i[2] /\ i[1] # i[3] /\ i[2] # i[3]
  /\ desc[i[1]].flags = {"NEXT"} /\ desc[i[1]].next = i[2]
  /\ desc[i[2]].addr = <<"data", req[p].b>> /\ desc[i[2]].next = i[3]
  /\ desc[i[2]].flags = IF req[p].write THEN {"NEXT"} ELSE {"WRITE", "NEXT"}
  /\ desc[i[3]].addr = <<"status", i[1]>> /\ desc[i[3]].flags = {"WRITE"}
  /\ ops[i[1]].blk = req[p].b /\ info[i[1]].b = req[p].b

ChainInv ==
  /\ \A p \in Busy : Formatted(p) /\ Owned(p) \cap free = {}
  /\ \A p, q \in Busy : p # q => Owned(p) \cap Owned(q) = {}

CountInv == Cardinality(free) + 3 * Cardinality(Busy) = NUM

-----------------------------------------------------------------------------
(* The distance from one counter to another that may have wrapped around. *)
Gap(from, to) == IF to >= from THEN to - from ELSE to + IdxMod - from

(* The k-th entry of ring r from a counter on. *)
Entry(r, from, k) == r[(from + k) % NUM]

(* The entries of the avail ring that the device has not taken, and those of   *)
(* the used ring that the handler has not looked at.                           *)
Asks == 0..(Gap(seen, availIdx) - 1)
Asked(k) == Entry(avail, seen, k)
Answers == 0..(Gap(used_idx, usedIdx) - 1)
Answered(k) == Entry(used, used_idx, k)

(* A request of a sleeping thread with head h, which the device has or has not served. *)
Waiting(h, s) == \E p \in Procs : pc[p] = "asleep" /\ idx[p][1] = h /\ info[h].status = s

AvailInv ==
  /\ \A k \in Asks : Waiting(Asked(k), Undone) /\ Asked(k) \notin inflight
  /\ \A j, k \in Asks : Asked(j) = Asked(k) => j = k

InflightInv == \A h \in inflight : Waiting(h, Undone)

UsedInv ==
  /\ \A k \in Answers : Waiting(Answered(k), 0)
  /\ \A j, k \in Answers : Answered(j) = Answered(k) => j = k

(* The entry a thread is about to publish, and the end of a request. *)
EndsInv ==
  \A p \in Procs :
    /\ pc[p] = "notify" => avail[availIdx % NUM] = idx[p][1] /\ info[idx[p][1]].status = Undone
    /\ pc[p] = "relock" => info[idx[p][1]].status = 0

RingInv == AvailInv /\ InflightInv /\ UsedInv /\ EndsInv

IInv == /\ TypeOK /\ BufInv /\ LockInv /\ ChainInv /\ CountInv /\ RingInv
        /\ handler # "panic" /\ NoLostInterrupt
=============================================================================
