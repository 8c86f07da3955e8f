----------------------------- MODULE BufCacheInv ----------------------------
(***************************************************************************)
(* The inductive invariant of BufCache, in layers: each layer is inductive *)
(* relative to the ones above it.                                          *)
(***************************************************************************)
EXTENDS BufCache

Labels == {"idle", "panic", "lock", "asleep", "locked", "reading", "have", "writing", "unref"}

(* A thread between bget() and the end of brelse(). *)
Using(p) == pc[p] \notin {"idle", "panic"}

(* Layer 1: types; and every buffer is somewhere in the list. *)
TypeOK ==
  /\ lru \in [Bufs -> Bufs] /\ blockno \in [Bufs -> Blocks \cup {None}]
  /\ valid \in [Bufs -> BOOLEAN] /\ refcnt \in [Bufs -> Nat]
  /\ holder \in [Bufs -> {{}} \cup {{p} : p \in Procs}]
  /\ data \in [Bufs -> Vals] /\ disk \in [Blocks -> Vals] /\ cur \in [Blocks -> Vals]
  /\ pinned \subseteq Bufs /\ dirty \subseteq Bufs
  /\ pc \in [Procs -> Labels]
  /\ want \in [Procs -> Blocks \cup {None}] /\ buf \in [Procs -> Bufs \cup {0}]
  /\ \A p \in Procs : Using(p) => buf[p] \in Bufs /\ want[p] \in Blocks

ListInv == \A b \in Bufs : \E i \in Bufs : lru[i] = b

(* Layer 2: who uses a buffer has the block it asked for, and is counted. *)
WantInv == \A p \in Procs : Using(p) => blockno[buf[p]] = want[p]

(* Layer 3: the sleep-lock of a buffer names the thread that works on it. *)
HolderInv == \A p \in Procs, b \in Bufs : holder[b] = {p} <=> Owner(p) /\ buf[p] = b

(* Layer 4: a valid buffer is not read again; a changed one is valid, and    *)
(* pinned or in the hands of a thread.                                       *)
DirtyInv ==
  /\ \A p \in Procs : /\ pc[p] \in {"have", "writing"} => valid[buf[p]]
                      /\ pc[p] = "reading" => ~valid[buf[p]]
  /\ \A b \in dirty :
       valid[b] /\ (b \in pinned \/ \E p \in Procs : pc[p] \in {"have", "writing"} /\ buf[p] = b)

(* Layer 5: a valid buffer has the latest contents of its block, and so has  *)
(* the disk unless the buffer is changed.                                    *)
DataInv ==
  /\ \A b \in Bufs : valid[b] /\ blockno[b] # None => data[b] = cur[blockno[b]]
  /\ \A n \in Blocks : (\A b \in dirty : blockno[b] # n) => disk[n] = cur[n]

(* Layer 6: the log's pins are bounded. *)
PinInv == Cardinality(pinned) <= MaxPin

IInv == /\ TypeOK /\ ListInv /\ WantInv /\ OneBufferPerBlock /\ RefcntCounts
        /\ HolderInv /\ NoLostWakeup /\ DirtyInv /\ DataInv /\ PinInv /\ EnoughBuffers

=============================================================================
