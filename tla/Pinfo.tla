------------------------------- MODULE Pinfo -------------------------------
(***************************************************************************)
(* The pinfo system call (kernel/sysproc.c) and the page count it reports  *)
(* (countmapped(), kernel/vm.c). The process table is fixed but for sbrk() *)
(* of the callers: the mapped leaves of each slot's page table, None for   *)
(* an UNUSED slot, whose page table pointer is 0. countmapped() visits the *)
(* leaves one by one; the global count it increments has no lock, so an    *)
(* increment is a load and a store.                                        *)
(***************************************************************************)
EXTENDS Integers

CONSTANTS NPROC,     \* slots of the process table
          Callers,   \* slots of the processes that call pinfo
          NPages     \* free pages at the start

VARIABLES pages,     \* slot -> mapped leaves, or None
          free,      \* length of the free list
          count,     \* vm.c's global
          pc, i,     \* caller -> where it is, loop index
          left, tmp, \* caller -> leaves to visit, value loaded from count
          info,      \* caller -> the kernel's psinfo: slot -> <<active, num_used_pages>>
          ubuf       \* caller -> active[] of the struct it passed

vars == <<pages, free, count, pc, i, left, tmp, info, ubuf>>

Slots == 1..NPROC
None == -1

(* The caller's struct is on its stack and holds anything before the call. *)
Init ==
  /\ pages \in [Slots -> {None, 1}] /\ \A c \in Callers : pages[c] = 1
  /\ free = NPages /\ count = 0
  /\ pc = [c \in Callers |-> "user"]
  /\ i = [c \in Callers |-> 1] /\ left = [c \in Callers |-> 0] /\ tmp = [c \in Callers |-> 0]
  /\ info = [c \in Callers |-> [s \in Slots |-> <<0, 0>>]]
  /\ ubuf \in [Callers -> [Slots -> {0, 1}]]

Panic(c) == pc' = [pc EXCEPT ![c] = "panic"]

(* kalloc() and argaddr(), which stores through the result unchecked. *)
Enter(c) ==
  /\ pc[c] \in {"user", "done"}
  /\ \/ free = 0 /\ Panic(c) /\ UNCHANGED <<free, i, info>>
     \/ /\ free > 0 /\ free' = free - 1
        /\ pc' = [pc EXCEPT ![c] = "slot"] /\ i' = [i EXCEPT ![c] = 1]
        /\ info' = [info EXCEPT ![c] = [s \in Slots |-> <<0, 0>>]]
  /\ UNCHANGED <<pages, count, left, tmp, ubuf>>

(* The loop takes the lock of slot i and calls countmapped(), which reads      *)
(* through the page table pointer; address 0 is not mapped in the kernel.      *)
Slot(c) ==
  /\ pc[c] = "slot" /\ i[c] \in Slots
  /\ \A d \in Callers \ {c} : pc[d] \in {"load", "store"} => i[d] # i[c]
  /\ info' = [info EXCEPT ![c][i[c]][1] = 1]
  /\ \/ pages[i[c]] = None /\ Panic(c) /\ UNCHANGED left
     \/ pages[i[c]] # None /\ left' = [left EXCEPT ![c] = pages[i[c]]] /\ pc' = [pc EXCEPT ![c] = "load"]
  /\ UNCHANGED <<pages, free, count, i, tmp, ubuf>>

(* countmapped() at a leaf: count++; at the end: the slot is reported and released. *)
Countmapped(c) ==
  \/ /\ pc[c] = "load" /\ left[c] > 0
     /\ tmp' = [tmp EXCEPT ![c] = count] /\ pc' = [pc EXCEPT ![c] = "store"]
     /\ UNCHANGED <<count, left, i, info>>
  \/ /\ pc[c] = "store"
     /\ count' = tmp[c] + 1 /\ left' = [left EXCEPT ![c] = @ - 1] /\ pc' = [pc EXCEPT ![c] = "load"]
     /\ UNCHANGED <<tmp, i, info>>
  \/ /\ pc[c] = "load" /\ left[c] = 0
     /\ info' = [info EXCEPT ![c][i[c]][2] = count] /\ i' = [i EXCEPT ![c] = @ + 1]
     /\ pc' = [pc EXCEPT ![c] = "slot"] /\ UNCHANGED <<count, left, tmp>>

CountStep(c) == Countmapped(c) /\ UNCHANGED <<pages, free, ubuf>>

(* return 0: nothing is copied out, and the page is not freed. *)
Leave(c) ==
  /\ pc[c] = "slot" /\ i[c] > NPROC /\ pc' = [pc EXCEPT ![c] = "done"]
  /\ UNCHANGED <<pages, free, count, i, left, tmp, info, ubuf>>

(* sbrk(PGSIZE) between two calls. *)
Sbrk(c) ==
  /\ pc[c] \in {"user", "done"} /\ free > 0 /\ free' = free - 1
  /\ pages' = [pages EXCEPT ![c] = @ + 1] /\ pc' = [pc EXCEPT ![c] = "user"]
  /\ UNCHANGED <<count, i, left, tmp, info, ubuf>>

Next ==
  /\ \A c \in Callers : pc[c] # "panic"
  /\ \E c \in Callers : Enter(c) \/ Slot(c) \/ CountStep(c) \/ Leave(c) \/ Sbrk(c)

Spec == Init /\ [][Next]_vars

-----------------------------------------------------------------------------
(* A call of pinfo never faults in the kernel (kerneltrap() panics on any trap *)
(* that is not an interrupt).                                                  *)
NoPanic == \A c \in Callers : pc[c] # "panic"

(* After a successful call the caller finds its own process among the active   *)
(* ones of the struct it passed (findpid() in user/pstest.c).                  *)
CallerFound == \A c \in Callers : pc[c] = "done" => ubuf[c][c] = 1

(* The pages reported for the caller are the pages it has mapped, so that they *)
(* grow by the pages it asks for (testmem() in user/pstest.c).                 *)
PagesReported == \A c \in Callers : pc[c] = "done" => info[c][c][2] = pages[c]

(* A page in no process's page table is free again once no call is in progress *)
(* (countfree() in user/usertests.c).                                          *)
NoPageLost ==
  LET Mapped[n \in 0..NPROC] == IF n = 0 THEN 0 ELSE Mapped[n - 1] + (IF pages[n] = None THEN 0 ELSE pages[n] - 1)
  IN (\A c \in Callers : pc[c] \in {"user", "done"}) => free = NPages - Mapped[NPROC]
=============================================================================
