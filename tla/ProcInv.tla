------------------------------ MODULE ProcInv -------------------------------
(***************************************************************************)
(* The inductive invariant of Proc, in layers: each layer is inductive     *)
(* relative to the ones above it.                                          *)
(***************************************************************************)
EXTENDS Proc

(* Where thread p is in its system call, seen through a yield() or a sleep(). *)
Point(p) == IF pc[p] \in {"yield_sched", "yield_ret", "sleep_sched", "sleep_ret"}
            THEN rpc[p] ELSE pc[p]

(* Labels at which a thread holds its own p->lock, wait_lock, tickslock or no lock. *)
SelfHeld == {"yield_sched", "sleep_sched", "exit_sched",
             "forkret", "yield_ret", "sleep_ret", "exit_ret"}
WaitHeld == {"wait_scan", "wait_sleep", "reparent", "reparent_wake", "exit_wake", "exit_zombie"}
TicksHeld == {"ticks_loop", "ticks_sleep"}
Unlocked == {"user", "trapret", "alloc", "fork_parent", "fork_run", "wait", "exit", "kill",
             "ticks", "ticks_relock", "panic"}

Live == {"SLEEPING", "RUNNABLE", "RUNNING"}

(* Thread p is on a hart (the hart may be in the last instructions of swtch). *)
OnCPU(p) == \E c \in CPU : run[c] = p

-----------------------------------------------------------------------------
(* Layer 1: types, and the range of the loop cursors. *)
CursorOK(p) ==
  /\ Point(p) \notin {"wait", "wait_scan", "wait_sleep", "reparent"} => cur[p] \in Procs
  /\ pc[p] \in {"yield_sched", "yield_ret"} => rpc[p] \in Unlocked
  /\ pc[p] \in {"sleep_sched", "sleep_ret"} => rpc[p] \in {"wait", "ticks_relock"}

CursorInv == \A p \in Procs : CursorOK(p)

(* Layer 2: who runs, who holds p->lock, and what state goes with a label. *)
CPUInv ==
  \A c \in CPU :
    /\ run[c] # NULL => cproc[c] = run[c]
    /\ cproc[c] # NULL => scan[c] = cproc[c]
    /\ \A d \in CPU : cproc[c] # NULL /\ cproc[d] = cproc[c] => d = c

LockOK(p) ==
  \A c \in CPU : plock[p] = c <=> cproc[c] = p /\ (run[c] = NULL \/ pc[p] \in SelfHeld)

LockInv == \A p \in Procs : LockOK(p)

StateOK(p) ==
  /\ OnCPU(p) =>
       /\ pc[p] = "yield_sched" => state[p] = "RUNNABLE"
       /\ pc[p] = "sleep_sched" => state[p] = "SLEEPING"
       /\ pc[p] = "exit_sched" => state[p] = "ZOMBIE"
       /\ pc[p] \notin SchedPoints => state[p] = "RUNNING" /\ pc[p] # "exit_ret"
  /\ ~OnCPU(p) =>
       \/ state[p] = "UNUSED" /\ pc[p] \in {"forkret", "exit_ret"}
       \/ state[p] = "USED" /\ pc[p] = "forkret"
       \/ state[p] = "RUNNABLE" /\ pc[p] \in {"forkret", "yield_ret", "sleep_ret"}
       \/ state[p] = "SLEEPING" /\ pc[p] = "sleep_ret"
       \/ state[p] = "ZOMBIE" /\ pc[p] = "exit_ret"

StateInv == \A p \in Procs : StateOK(p)

(* Layer 3: who holds wait_lock and tickslock. *)
GlobalLockInv ==
  /\ \A c \in CPU :
       /\ wait_lock = c <=> run[c] # NULL /\ pc[run[c]] \in WaitHeld
       /\ tickslock = c <=> InClock(c) \/ (run[c] # NULL /\ pc[run[c]] \in TicksHeld)
  /\ clk # 0 => 0 \in CPU /\ cproc[0] = run[0] /\ (run[0] # NULL => pc[run[0]] \in Unlocked)

(* Layer 4: a slot in use has a pid of its own, below nextpid. *)
PidInv ==
  /\ \A p \in Procs : (pid[p] = 0 <=> state[p] = "UNUSED") /\ pid[p] < nextpid
  /\ \A p, q \in Procs : pid[p] = pid[q] /\ pid[p] # 0 => p = q

(* Layer 5: the process tree. *)
Forking(p) == Point(p) \in {"fork_parent", "fork_run"} /\ state[p] \in Live

ForkInv ==
  /\ \A q \in Procs : state[q] = "UNUSED" => parent[q] = NULL
  /\ \A p \in Procs : Forking(p) =>
       /\ state[cur[p]] = "USED"
       /\ parent[cur[p]] = IF Point(p) = "fork_run" THEN p ELSE NULL
  /\ \A p, q \in Procs : Forking(p) /\ Forking(q) /\ cur[p] = cur[q] => p = q

TreeInv ==
  /\ state[initproc] \in Live /\ parent[initproc] = NULL
  /\ pc[initproc] \notin {"reparent", "reparent_wake", "exit_wake", "exit_zombie"}
  /\ \A q \in Procs : parent[q] # NULL => parent[q] # q /\ state[parent[q]] \in Live
  /\ \A q \in Procs \ {initproc} : state[q] \in Live \cup {"ZOMBIE"} => parent[q] # NULL

ReparentOK(p) ==
  \A q \in Procs :
    /\ pc[p] \in {"exit_wake", "exit_zombie"} => parent[q] # p
    /\ pc[p] = "reparent" /\ q < cur[p] => parent[q] # p
    /\ pc[p] = "reparent_wake" /\ q <= cur[p] => parent[q] # p

ReparentInv == \A p \in Procs : ReparentOK(p)

(* Layer 6: the hand-over between exit() and wait(). *)
InWait(p) == state[p] = "SLEEPING" /\ chan[p] = p
Waker(c) == run[c] # NULL /\ pc[run[c]] = "reparent_wake" /\ wcur[run[c]] = initproc

SleepOK(p) ==
  /\ chan[p] \in {NULL, p, TicksChan}
  /\ state[p] = "SLEEPING" =>
       \/ chan[p] = p /\ rpc[p] = "wait"
       \/ chan[p] = TicksChan /\ rpc[p] = "ticks_relock"

SleepInv == \A p \in Procs : SleepOK(p)

(* wait() has passed slot q, or all of them, without finding a zombie child. *)
Passed(p, q) == pc[p] = "wait_sleep" \/ (pc[p] = "wait_scan" /\ q < cur[p])

(* wakeup() in exit() has passed the slot of p's parent. *)
ParentWoken(p) == pc[p] = "exit_zombie" \/ (pc[p] = "exit_wake" /\ parent[p] < wcur[p])

(* Outside wakeup() its cursor is at the first slot. *)
WakeInv == \A p \in Procs : pc[p] \notin {"reparent_wake", "exit_wake"} => wcur[p] = 1

(* Hence no child that the scan has passed is a zombie. *)
ScanInv == \A p, q \in Procs : Passed(p, q) /\ parent[q] = p => state[q] # "ZOMBIE"

(* Hence the parent is not asleep in wait(). *)
WokenInv == \A p \in Procs : ParentWoken(p) /\ parent[p] # NULL => ~InWait(parent[p])

(* A zombie's parent is asleep in wait() only while reparent() is about to wake it. *)
ZombieInv == \A p, q \in Procs :
               InWait(p) /\ parent[q] = p /\ state[q] = "ZOMBIE" =>
                 p = initproc /\ \E c \in CPU : Waker(c)

(* Layer 7: sys_sleep() and clockintr(). *)
TickOK(p) ==
  /\ pc[p] = "ticks_sleep" => TicksLeft(p)
  /\ state[p] = "SLEEPING" /\ chan[p] = TicksChan => TicksLeft(p) \/ (clk # 0 /\ clk <= p)

TickInv == \A p \in Procs : TickOK(p)

IInv == /\ TypeOK /\ CursorInv
        /\ CPUInv /\ LockInv /\ StateInv
        /\ GlobalLockInv
        /\ PidInv
        /\ ForkInv /\ TreeInv /\ ReparentInv
        /\ SleepInv /\ WakeInv /\ ScanInv /\ WokenInv /\ ZombieInv
        /\ TickInv

(* Beside the layers: in sys_sleep(), ticks - ticks0 is the number of ticks since   *)
(* the call, unless waited says that the counter went all the way round since then. *)
WaitedOK(p) == InSysSleep(p) => waited[p] = TickMod \/ waited[p] = (ticks - ticks0[p]) % TickMod

WaitedInv == \A p \in Procs : WaitedOK(p)

=============================================================================
