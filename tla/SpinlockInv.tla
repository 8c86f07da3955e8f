----------------------------- MODULE SpinlockInv ----------------------------
(***************************************************************************)
(* The inductive invariant of Spinlock, in layers: each layer is inductive *)
(* relative to the ones above it.                                          *)
(***************************************************************************)
EXTENDS Spinlock

Labels == {"run", "push", "spin", "mark", "unlock", "pop", "panic"}

(* An interrupt finds an agent outside acquire() and release(), or in push_off(). *)
Frames == {<<>>} \cup ({"run", "push"} \X Locks \X BOOLEAN)

(* Agent a is on no hart: a thread that waits for the scheduler, or the      *)
(* scheduler of a hart that runs a thread.                                   *)
Away(a) == \A c \in CPU : cur[c] # a

(* Layer 1: types. *)
TypeOK ==
  /\ locked \in [Locks -> BOOLEAN] /\ lkcpu \in [Locks -> CPU \cup {0}]
  /\ noff \in [CPU -> Nat] /\ intena \in [CPU -> BOOLEAN] /\ sie \in [CPU -> BOOLEAN]
  /\ cur \in [CPU -> Agents] /\ pc \in [Agents -> Labels] /\ lk \in [Agents -> Locks]
  /\ old \in [Agents -> BOOLEAN] /\ frame \in [Agents -> Frames]
  /\ saved \in [Threads -> BOOLEAN] /\ fresh \subseteq Threads
  /\ held \in [CPU -> SUBSET Locks] /\ base \in [Agents -> BOOLEAN]

(* Layer 2: an agent is on one hart at most, and leaves it outside acquire()  *)
(* and release(); a scheduler leaves it outside interrupt handlers.           *)
CurInv ==
  /\ \A c \in CPU : cur[c] = c \/ (cur[c] \in Threads /\ frame[c] = <<>>)
  /\ \A c, d \in CPU : cur[c] = cur[d] => c = d
  /\ \A a \in Agents : Away(a) => pc[a] = "run"
  /\ \A t \in fresh : Away(t) /\ frame[t] = <<>>

(* The locks of a hart: those held, and the one between the swap and lk->cpu  *)
(* in acquire() or between lk->cpu and the store in release().                *)
Own(c) == held[c] \cup (IF pc[cur[c]] \in {"mark", "unlock"} THEN {lk[cur[c]]} ELSE {})

(* Layer 3: lk->locked and lk->cpu say whose a lock is. *)
OwnInv ==
  /\ \A c, d \in CPU : c # d => Own(c) \cap Own(d) = {}
  /\ \A l \in Locks : locked[l] <=> \E c \in CPU : l \in Own(c)
  /\ \A l \in Locks, c \in CPU : lkcpu[l] = c <=> l \in held[c]
  /\ \A c \in CPU : pc[cur[c]] \in {"push", "spin", "mark", "unlock"} => lk[cur[c]] \notin held[c]

(* Layer 4: noff counts the locks, and with a lock interrupts are off. *)
NoffInv == NoffCounts /\ \A c \in CPU : IsFiniteSet(held[c]) /\ (noff[c] > 0 => ~sie[c])

(* Layer 5: where SIE is kept while it is off: in the frame of an interrupt    *)
(* handler, in the hart's intena, in push_off()'s old, in sched()'s intena.    *)
BaseInv ==
  /\ InterruptsRestored
  /\ \A a \in Agents : frame[a] # <<>> => ~base[a] /\ (frame[a][1] = "push" => frame[a][3])
  /\ \A c \in CPU : /\ noff[c] > 0 => intena[c] = base[cur[c]]
                    /\ pc[cur[c]] = "push" /\ noff[c] = 0 => old[cur[c]] = base[cur[c]]
  /\ \A t \in Threads \ fresh : Away(t) => saved[t] = base[t]

IInv == TypeOK /\ CurInv /\ OwnInv /\ NoffInv /\ BaseInv /\ NoPanic

=============================================================================
