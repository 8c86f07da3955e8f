-------------------------------- MODULE Proc --------------------------------
(***************************************************************************)
(* The process table, the per-CPU schedulers, sleep/wakeup and the process *)
(* system calls fork, exit, wait, kill and sleep (kernel/proc.c, with the  *)
(* parts of kernel/trap.c and kernel/sysproc.c that drive it).             *)
(*                                                                         *)
(* A step of a thread starts at an acquire() and runs to the next one: a   *)
(* lock that is taken and dropped inside a step is not a variable (pid_lock,*)
(* kmem.lock, ftable.lock, itable.lock); a lock that is held from one step *)
(* to another is (p->lock, wait_lock, tickslock).  Reads that the code     *)
(* makes without the lock (p->killed) are steps of their own.              *)
(***************************************************************************)
EXTENDS Integers, FiniteSets

CONSTANTS NPROC,      \* slots of the process table
          CPU,        \* harts; hart 0 runs clockintr()
          MaxPid,     \* bound: no fork() starts once nextpid exceeds it
          TickMod,    \* 2^w: ticks is an unsigned integer of w bits
          Calls,      \* system calls the user programs make
          KillArgs,   \* arguments they pass to kill()
          SleepArgs,  \* arguments they pass to sleep()
          ExitArgs    \* statuses they pass to exit()

ASSUME ProcAssumption ==
  /\ NPROC \in Nat \ {0}
  /\ CPU \subseteq Nat
  /\ MaxPid \in Nat \ {0}
  /\ TickMod \in Nat \ {0}
  /\ KillArgs \subseteq Int
  /\ SleepArgs \subseteq Int
  /\ ExitArgs \subseteq Int

Procs == 1..NPROC
NoCPU == -1           \* a lock nobody holds
NULL == 0             \* the null proc pointer; as run[c], the scheduler thread
initproc == 1         \* userinit() gets the first slot
TicksChan == NPROC + 1  \* the channel &ticks; the channel of proc p is p itself
Chans == {NULL, TicksChan} \cup Procs
Slots == 1..(NPROC + 1) \* a cursor over the table; NPROC + 1 is its end
Ticks == 0..(TickMod - 1)

VARIABLES
  state, chan, killed, xstate, pid, parent,  \* struct proc
  nextpid,
  plock, wait_lock, tickslock,  \* the CPU that holds the lock, or NoCPU
  ticks,
  cproc,     \* cpus[c].proc
  run,       \* the thread hart c executes: a kernel thread, or NULL for scheduler()
  scan,      \* scheduler()'s p
  clk,       \* wakeup() cursor of clockintr() on hart 0; 0 outside the interrupt
  pc,        \* where the kernel thread of a process is
  rpc,       \* where it goes after yield() or sleep()
  cur,       \* its loop cursor over the table (the slot fork() took, once found)
  wcur,      \* its cursor in wakeup()
  arg,       \* argument of its system call
  ticks0,    \* the local of sys_sleep()
  waited     \* history: ticks since sys_sleep() read ticks0, up to TickMod

idVars == <<xstate, pid, parent, nextpid>>
procVars == <<state, chan, killed, idVars>>
lockVars == <<plock, wait_lock, tickslock>>
cpuVars == <<cproc, run, scan>>
clockVars == <<ticks, clk, waited>>
cursors == <<cur, wcur>>
localVars == <<rpc, cursors, arg, ticks0>>
vars == <<procVars, lockVars, cpuVars, clockVars, pc, localVars>>

States == {"UNUSED", "USED", "SLEEPING", "RUNNABLE", "RUNNING", "ZOMBIE"}

Labels == {"forkret", "user", "trapret",
           "alloc", "fork_parent", "fork_run",
           "wait", "wait_scan", "wait_sleep",
           "exit", "reparent", "reparent_wake", "exit_wake", "exit_zombie",
           "kill",
           "ticks", "ticks_loop", "ticks_sleep", "ticks_relock",
           "yield_sched", "sleep_sched", "exit_sched",
           "yield_ret", "sleep_ret", "exit_ret", "panic"}

(* After userinit(): init is the only process and every hart is in scheduler(). *)
Init ==
  /\ state = [p \in Procs |-> IF p = initproc THEN "RUNNABLE" ELSE "UNUSED"]
  /\ chan = [p \in Procs |-> NULL]
  /\ killed = [p \in Procs |-> FALSE]
  /\ xstate = [p \in Procs |-> 0]
  /\ pid = [p \in Procs |-> IF p = initproc THEN 1 ELSE 0]
  /\ parent = [p \in Procs |-> NULL]
  /\ nextpid = 2
  /\ plock = [p \in Procs |-> NoCPU]
  /\ wait_lock = NoCPU
  /\ tickslock = NoCPU
  /\ ticks = 0
  /\ cproc = [c \in CPU |-> NULL]
  /\ run = [c \in CPU |-> NULL]
  /\ scan = [c \in CPU |-> 1]
  /\ clk = 0
  /\ pc = [p \in Procs |-> "forkret"]
  /\ rpc = [p \in Procs |-> "user"]
  /\ cur = [p \in Procs |-> 1]
  /\ wcur = [p \in Procs |-> 1]
  /\ arg = [p \in Procs |-> 0]
  /\ ticks0 = [p \in Procs |-> 0]
  /\ waited = [p \in Procs |-> 0]

-----------------------------------------------------------------------------
(* Locks, interrupts and control. *)

(* mycpu()->noff is 0: no spinlock is held, so interrupts are on. *)
IntrOn(c) == wait_lock # c /\ tickslock # c /\ \A p \in Procs : plock[p] # c

(* Hart c is inside clockintr(), on top of the thread run[c]. *)
InClock(c) == c = 0 /\ clk # 0

(* The kernel thread that hart c executes is at label l. *)
At(c, l) == run[c] # NULL /\ pc[run[c]] = l /\ ~InClock(c)

Free(l) == l = NoCPU

Goto(p, l) == pc' = [pc EXCEPT ![p] = l]

(* A system call returns to usertrap(); its locals go out of scope. *)
Return(p) ==
  /\ Goto(p, "trapret")
  /\ cur' = [cur EXCEPT ![p] = 1]
  /\ arg' = [arg EXCEPT ![p] = 0]
  /\ ticks0' = [ticks0 EXCEPT ![p] = 0]
  /\ UNCHANGED <<rpc, wcur>>

(* freeproc(): the slot q becomes UNUSED. *)
FreeProc(q) ==
  /\ pid' = [pid EXCEPT ![q] = 0]
  /\ parent' = [parent EXCEPT ![q] = NULL]
  /\ chan' = [chan EXCEPT ![q] = NULL]
  /\ killed' = [killed EXCEPT ![q] = FALSE]
  /\ xstate' = [xstate EXCEPT ![q] = 0]
  /\ state' = [state EXCEPT ![q] = "UNUSED"]

(* One iteration of the loop of wakeup(ch), called by me, at slot q. *)
WakeOne(q, me, ch) ==
  /\ q # me => Free(plock[q])
  /\ state' = IF q # me /\ state[q] = "SLEEPING" /\ chan[q] = ch
              THEN [state EXCEPT ![q] = "RUNNABLE"] ELSE state
  /\ UNCHANGED <<chan, killed, idVars>>

-----------------------------------------------------------------------------
(* scheduler(), on hart c. *)

Advance(c) == scan' = [scan EXCEPT ![c] = IF @ = NPROC THEN 1 ELSE @ + 1]

InScheduler(c) == run[c] = NULL /\ ~InClock(c)

(* acquire(&p->lock); p is RUNNABLE: swtch() to it, with p->lock held. *)
SchedRun(c) ==
  LET p == scan[c] IN
  /\ InScheduler(c) /\ cproc[c] = NULL
  /\ Free(plock[p]) /\ state[p] = "RUNNABLE"
  /\ state' = [state EXCEPT ![p] = "RUNNING"]
  /\ plock' = [plock EXCEPT ![p] = c]
  /\ cproc' = [cproc EXCEPT ![c] = p]
  /\ run' = [run EXCEPT ![c] = p]
  /\ UNCHANGED <<chan, killed, idVars, wait_lock, tickslock, scan, clockVars, pc, localVars>>

(* Faulty variant of SchedSkip: the loop does not move on. *)
SchedSkipStays(c) ==
  /\ InScheduler(c) /\ cproc[c] = NULL
  /\ Free(plock[scan[c]]) /\ state[scan[c]] # "RUNNABLE"
  /\ UNCHANGED vars

(* acquire(&p->lock); p is not RUNNABLE: release(&p->lock). *)
SchedSkip(c) ==
  /\ InScheduler(c) /\ cproc[c] = NULL
  /\ Free(plock[scan[c]]) /\ state[scan[c]] # "RUNNABLE"
  /\ Advance(c)
  /\ UNCHANGED <<procVars, lockVars, cproc, run, clockVars, pc, localVars>>

(* swtch() has come back: c->proc = 0; release(&p->lock). *)
SchedBack(c) ==
  /\ InScheduler(c) /\ cproc[c] # NULL
  /\ cproc' = [cproc EXCEPT ![c] = NULL]
  /\ plock' = [plock EXCEPT ![scan[c]] = NoCPU]
  /\ Advance(c)
  /\ UNCHANGED <<procVars, wait_lock, tickslock, run, clockVars, pc, localVars>>

Scheduler(c) == SchedRun(c) \/ SchedSkip(c) \/ SchedBack(c)

-----------------------------------------------------------------------------
(* sched(), and the three callers that give up the CPU. *)

SchedPoints == {"yield_sched", "sleep_sched", "exit_sched"}

Resume(l) == IF l = "yield_sched" THEN "yield_ret"
             ELSE IF l = "sleep_sched" THEN "sleep_ret" ELSE "exit_ret"

(* swtch(&p->context, &mycpu()->context): its panics are PanicFree below. *)
Sched(c) ==
  LET p == run[c] IN
  /\ \E l \in SchedPoints : At(c, l)
  /\ run' = [run EXCEPT ![c] = NULL]
  /\ Goto(p, Resume(pc[p]))
  /\ UNCHANGED <<procVars, lockVars, cproc, scan, clockVars, localVars>>

(* forkret(): release(&myproc()->lock), then to user space. *)
ForkRet(c) ==
  /\ At(c, "forkret")
  /\ plock' = [plock EXCEPT ![run[c]] = NoCPU]
  /\ Goto(run[c], "user")
  /\ UNCHANGED <<procVars, wait_lock, tickslock, cpuVars, clockVars, localVars>>

(* The end of yield(): release(&p->lock), back to the interrupted code. *)
YieldRet(c) ==
  LET p == run[c] IN
  /\ At(c, "yield_ret")
  /\ plock' = [plock EXCEPT ![p] = NoCPU]
  /\ Goto(p, rpc[p])
  /\ rpc' = [rpc EXCEPT ![p] = "user"]
  /\ UNCHANGED <<procVars, wait_lock, tickslock, cpuVars, clockVars, cursors, arg, ticks0>>

(* The end of sleep(): p->chan = 0; release(&p->lock); acquire(lk) is next. *)
SleepRet(c) ==
  LET p == run[c] IN
  /\ At(c, "sleep_ret")
  /\ chan' = [chan EXCEPT ![p] = NULL]
  /\ plock' = [plock EXCEPT ![p] = NoCPU]
  /\ Goto(p, rpc[p])
  /\ rpc' = [rpc EXCEPT ![p] = "user"]
  /\ UNCHANGED <<state, killed, idVars, wait_lock, tickslock,
                 cpuVars, clockVars, cursors, arg, ticks0>>

(* The start of sleep(ch, lk): acquire(&p->lock); release(lk); p->chan = ch;  *)
(* p->state = SLEEPING.  The caller releases lk; back is its point of return. *)
SleepOn(c, ch, back) ==
  LET p == run[c] IN
  /\ Free(plock[p])
  /\ plock' = [plock EXCEPT ![p] = c]
  /\ chan' = [chan EXCEPT ![p] = ch]
  /\ state' = [state EXCEPT ![p] = "SLEEPING"]
  /\ Goto(p, "sleep_sched")
  /\ rpc' = [rpc EXCEPT ![p] = back]
  /\ UNCHANGED <<killed, idVars, cpuVars, clockVars, cursors, arg, ticks0>>

-----------------------------------------------------------------------------
(* Traps: usertrap(), kerneltrap() and the timer interrupt. *)

(* exit(-1) *)
ExitKilled(p) ==
  /\ Goto(p, "exit")
  /\ arg' = [arg EXCEPT ![p] = -1]
  /\ UNCHANGED <<rpc, cursors, ticks0>>

(* usertrap() finds p->killed set, before or after the system call. *)
TrapKilled(c) ==
  /\ At(c, "user") \/ At(c, "trapret")
  /\ killed[run[c]]
  /\ ExitKilled(run[c])
  /\ UNCHANGED <<procVars, lockVars, cpuVars, clockVars>>

(* An exception in user space: p->killed = 1, then exit(-1). *)
UserFault(c) ==
  /\ At(c, "user") /\ "fault" \in Calls
  /\ killed' = [killed EXCEPT ![run[c]] = TRUE]
  /\ ExitKilled(run[c])
  /\ UNCHANGED <<state, chan, idVars, lockVars, cpuVars, clockVars>>

(* usertrapret() after a system call. *)
TrapRet(c) ==
  /\ At(c, "trapret") /\ ~killed[run[c]]
  /\ Goto(run[c], "user")
  /\ UNCHANGED <<procVars, lockVars, cpuVars, clockVars, localVars>>

(* A system call: p->killed is not set, the handler of call starts at l. *)
SysCall(c, call, l, a) ==
  /\ At(c, "user") /\ ~killed[run[c]] /\ call \in Calls
  /\ Goto(run[c], l)
  /\ arg' = [arg EXCEPT ![run[c]] = a]
  /\ UNCHANGED <<procVars, lockVars, cpuVars, clockVars, rpc, cursors, ticks0>>

SysFork(c) == nextpid <= MaxPid /\ SysCall(c, "fork", "alloc", 0)
SysWait(c) == SysCall(c, "wait", "wait", 0)
SysExit(c) == /\ run[c] = initproc => "initexit" \in Calls
              /\ \E s \in ExitArgs : SysCall(c, "exit", "exit", s)
SysKill(c) == \E k \in KillArgs : SysCall(c, "kill", "kill", k)
SysSleep(c) == \E n \in SleepArgs : SysCall(c, "sleep", "ticks", n)

(* Faulty variant of TimerReturn: yield() without acquire(&p->lock). *)
TimerReturnUnlocked(c) ==
  LET p == run[c] IN
  IF pc[p] = "user" /\ killed[p]
  THEN ExitKilled(p) /\ UNCHANGED <<state, plock>>
  ELSE /\ pc[p] # "user" => state[p] = "RUNNING"
       /\ state' = [state EXCEPT ![p] = "RUNNABLE"]
       /\ Goto(p, "yield_sched")
       /\ rpc' = [rpc EXCEPT ![p] = pc[p]]
       /\ UNCHANGED <<plock, cursors, arg, ticks0>>

(* The end of usertrap() and kerneltrap() after a timer interrupt: exit if *)
(* killed (user space only), otherwise yield().                           *)
TimerReturn(c) ==
  LET p == run[c] IN
  IF pc[p] = "user" /\ killed[p]
  THEN ExitKilled(p) /\ UNCHANGED <<state, plock>>
  ELSE /\ Free(plock[p])
       /\ pc[p] # "user" => state[p] = "RUNNING"
       /\ plock' = [plock EXCEPT ![p] = c]
       /\ state' = [state EXCEPT ![p] = "RUNNABLE"]
       /\ Goto(p, "yield_sched")
       /\ rpc' = [rpc EXCEPT ![p] = pc[p]]
       /\ UNCHANGED <<cursors, arg, ticks0>>

(* A timer interrupt on a hart other than 0. *)
TimerIntr(c) ==
  /\ c # 0 /\ run[c] # NULL /\ IntrOn(c)
  /\ TimerReturn(c)
  /\ UNCHANGED <<chan, killed, idVars, wait_lock, tickslock, cpuVars, clockVars>>

(* p is in sys_sleep(), past the read of ticks0. *)
InSysSleep(p) ==
  \/ pc[p] \in {"ticks_loop", "ticks_sleep", "ticks_relock"}
  \/ /\ pc[p] \in {"yield_sched", "yield_ret", "sleep_sched", "sleep_ret"}
     /\ rpc[p] = "ticks_relock"

(* clockintr() on hart 0: acquire(&tickslock); ticks++. *)
ClockIntr ==
  /\ 0 \in CPU /\ clk = 0 /\ IntrOn(0) /\ Free(tickslock)
  /\ tickslock' = 0
  /\ ticks' = (ticks + 1) % TickMod
  /\ clk' = 1
  /\ waited' = [p \in Procs |-> IF InSysSleep(p) /\ waited[p] < TickMod
                                THEN waited[p] + 1 ELSE waited[p]]
  /\ UNCHANGED <<procVars, plock, wait_lock, cpuVars, pc, localVars>>

(* wakeup(&ticks) *)
ClockWake ==
  /\ clk \in Procs
  /\ WakeOne(clk, cproc[0], TicksChan)
  /\ clk' = clk + 1
  /\ UNCHANGED <<lockVars, cpuVars, ticks, waited, pc, localVars>>

(* release(&tickslock), then the end of the trap. *)
ClockEnd ==
  /\ clk = NPROC + 1
  /\ clk' = 0
  /\ tickslock' = NoCPU
  /\ IF run[0] = NULL THEN UNCHANGED <<state, plock, pc, localVars>> ELSE TimerReturn(0)
  /\ UNCHANGED <<chan, killed, idVars, wait_lock, cpuVars, ticks, waited>>

-----------------------------------------------------------------------------
(* fork() *)

(* allocproc(): the loop over the table passes a slot in use. *)
AllocNext(c) ==
  LET p == run[c] IN
  /\ At(c, "alloc")
  /\ Free(plock[cur[p]]) /\ state[cur[p]] # "UNUSED"
  /\ IF cur[p] = NPROC
     THEN Return(p)
     ELSE /\ cur' = [cur EXCEPT ![p] = @ + 1]
          /\ UNCHANGED <<pc, rpc, wcur, arg, ticks0>>
  /\ UNCHANGED <<procVars, lockVars, cpuVars, clockVars>>

(* Faulty variant of AllocFound: allocpid() forgets nextpid = nextpid + 1. *)
AllocFoundSamePid(c) ==
  LET p == run[c]  q == cur[run[c]] IN
  /\ At(c, "alloc")
  /\ Free(plock[q]) /\ state[q] = "UNUSED"
  /\ pid' = [pid EXCEPT ![q] = nextpid]
  /\ state' = [state EXCEPT ![q] = "USED"]
  /\ pc' = [pc EXCEPT ![q] = "forkret", ![p] = "fork_parent"]
  /\ UNCHANGED <<nextpid, chan, killed, xstate, parent, lockVars, cpuVars, clockVars, localVars>>

(* allocproc() finds a slot, and fork() fills it: USED, p->lock released. *)
AllocFound(c) ==
  LET p == run[c]  q == cur[run[c]] IN
  /\ At(c, "alloc")
  /\ Free(plock[q]) /\ state[q] = "UNUSED"
  /\ nextpid' = nextpid + 1
  /\ pid' = [pid EXCEPT ![q] = nextpid]
  /\ state' = [state EXCEPT ![q] = "USED"]
  /\ pc' = [pc EXCEPT ![q] = "forkret", ![p] = "fork_parent"]
  /\ UNCHANGED <<chan, killed, xstate, parent, lockVars, cpuVars, clockVars, localVars>>

(* kalloc() fails in allocproc() or in uvmcopy(): freeproc() undoes it, *)
(* the pid is lost, fork() returns -1.                                  *)
AllocFail(c) ==
  LET p == run[c]  q == cur[run[c]] IN
  /\ At(c, "alloc")
  /\ Free(plock[q]) /\ state[q] = "UNUSED"
  /\ nextpid' = nextpid + 1
  /\ FreeProc(q)
  /\ Return(p)
  /\ UNCHANGED <<lockVars, cpuVars, clockVars>>

(* acquire(&wait_lock); np->parent = p; release(&wait_lock). *)
ForkParent(c) ==
  LET p == run[c] IN
  /\ At(c, "fork_parent") /\ Free(wait_lock)
  /\ parent' = [parent EXCEPT ![cur[p]] = p]
  /\ Goto(p, "fork_run")
  /\ UNCHANGED <<state, chan, killed, xstate, pid, nextpid, lockVars, cpuVars,
                 clockVars, localVars>>

(* acquire(&np->lock); np->state = RUNNABLE; release(&np->lock). *)
ForkRun(c) ==
  LET p == run[c] IN
  /\ At(c, "fork_run") /\ Free(plock[cur[p]])
  /\ state' = [state EXCEPT ![cur[p]] = "RUNNABLE"]
  /\ Return(p)
  /\ UNCHANGED <<chan, killed, idVars, lockVars, cpuVars, clockVars>>

-----------------------------------------------------------------------------
(* wait() *)

(* Faulty variant of WaitLock: after sleep() the scan does not start over. *)
WaitLockKeepsCursor(c) ==
  LET p == run[c] IN
  /\ At(c, "wait") /\ Free(wait_lock)
  /\ wait_lock' = c
  /\ Goto(p, "wait_scan")
  /\ UNCHANGED <<procVars, plock, tickslock, cpuVars, clockVars, rpc, cursors, arg, ticks0>>

(* acquire(&wait_lock), on entry and again at the end of sleep(); a new scan. *)
WaitLock(c) ==
  LET p == run[c] IN
  /\ At(c, "wait") /\ Free(wait_lock)
  /\ wait_lock' = c
  /\ cur' = [cur EXCEPT ![p] = 1]
  /\ Goto(p, "wait_scan")
  /\ UNCHANGED <<procVars, plock, tickslock, cpuVars, clockVars, rpc, wcur, arg, ticks0>>

(* Not a child, or a child that is not a zombie (its lock taken to look). *)
WaitNext(c) ==
  LET p == run[c]  q == cur[run[c]] IN
  /\ At(c, "wait_scan") /\ q \in Procs
  /\ parent[q] = p => Free(plock[q]) /\ state[q] # "ZOMBIE"
  /\ cur' = [cur EXCEPT ![p] = @ + 1]
  /\ UNCHANGED <<procVars, lockVars, cpuVars, clockVars, pc, rpc, wcur, arg, ticks0>>

(* Faulty variant of WaitReap: np->state is read without acquire(&np->lock). *)
WaitReapUnlocked(c) ==
  LET p == run[c]  q == cur[run[c]] IN
  /\ At(c, "wait_scan") /\ q \in Procs
  /\ parent[q] = p /\ state[q] = "ZOMBIE"
  /\ FreeProc(q)
  /\ wait_lock' = NoCPU
  /\ Return(p)
  /\ UNCHANGED <<nextpid, plock, tickslock, cpuVars, clockVars>>

(* A zombie child: copy out its status and freeproc() it. *)
WaitReap(c) ==
  LET p == run[c]  q == cur[run[c]] IN
  /\ At(c, "wait_scan") /\ q \in Procs
  /\ parent[q] = p /\ Free(plock[q]) /\ state[q] = "ZOMBIE"
  /\ FreeProc(q)
  /\ wait_lock' = NoCPU
  /\ Return(p)
  /\ UNCHANGED <<nextpid, plock, tickslock, cpuVars, clockVars>>

(* A zombie child, but copyout() fails: wait() returns -1. *)
WaitBadAddr(c) ==
  LET p == run[c]  q == cur[run[c]] IN
  /\ "badaddr" \in Calls
  /\ At(c, "wait_scan") /\ q \in Procs
  /\ parent[q] = p /\ Free(plock[q]) /\ state[q] = "ZOMBIE"
  /\ wait_lock' = NoCPU
  /\ Return(p)
  /\ UNCHANGED <<procVars, plock, tickslock, cpuVars, clockVars>>

(* havekids: the parent pointers cannot change during the scan, which holds *)
(* wait_lock.                                                               *)
HaveKids(p) == \E q \in Procs : parent[q] = p

(* Faulty variant of WaitGiveUp: it returns without release(&wait_lock). *)
WaitGiveUpLocked(c) ==
  LET p == run[c] IN
  /\ At(c, "wait_scan") /\ cur[p] = NPROC + 1
  /\ HaveKids(p) => killed[p]
  /\ Return(p)
  /\ UNCHANGED <<procVars, lockVars, cpuVars, clockVars>>

(* The scan is over: !havekids || p->killed, read without p->lock. *)
WaitGiveUp(c) ==
  LET p == run[c] IN
  /\ At(c, "wait_scan") /\ cur[p] = NPROC + 1
  /\ HaveKids(p) => killed[p]
  /\ wait_lock' = NoCPU
  /\ Return(p)
  /\ UNCHANGED <<procVars, plock, tickslock, cpuVars, clockVars>>

(* The scan goes on after a sleep. *)
WaitMore(c) ==
  LET p == run[c] IN
  /\ At(c, "wait_scan") /\ cur[p] = NPROC + 1
  /\ HaveKids(p) /\ ~killed[p]
  /\ Goto(p, "wait_sleep")
  /\ UNCHANGED <<procVars, lockVars, cpuVars, clockVars, localVars>>

(* sleep(p, &wait_lock) *)
WaitSleep(c) ==
  /\ At(c, "wait_sleep")
  /\ SleepOn(c, run[c], "wait")
  /\ wait_lock' = NoCPU
  /\ UNCHANGED tickslock

-----------------------------------------------------------------------------
(* exit() *)

ExitPanic(c) ==
  /\ At(c, "exit") /\ run[c] = initproc
  /\ Goto(run[c], "panic")
  /\ UNCHANGED <<procVars, lockVars, cpuVars, clockVars, localVars>>

(* acquire(&wait_lock) *)
ExitLock(c) ==
  LET p == run[c] IN
  /\ At(c, "exit") /\ p # initproc /\ Free(wait_lock)
  /\ wait_lock' = c
  /\ Goto(p, "reparent")
  /\ cur' = [cur EXCEPT ![p] = 1]
  /\ UNCHANGED <<procVars, plock, tickslock, cpuVars, clockVars, rpc, wcur, arg, ticks0>>

(* Faulty variant of Reparent: the loop stops one slot early. *)
ReparentShort(c) ==
  LET p == run[c]  q == cur[run[c]] IN
  /\ At(c, "reparent")
  /\ IF q = NPROC
     THEN Goto(p, "exit_wake") /\ cur' = [cur EXCEPT ![p] = 1] /\ UNCHANGED parent
     ELSE IF parent[q] = p
     THEN /\ parent' = [parent EXCEPT ![q] = initproc]
          /\ Goto(p, "reparent_wake") /\ UNCHANGED cur
     ELSE cur' = [cur EXCEPT ![p] = q + 1] /\ UNCHANGED <<pc, parent>>
  /\ UNCHANGED <<state, chan, killed, xstate, pid, nextpid, lockVars, cpuVars,
                 clockVars, rpc, wcur, arg, ticks0>>

(* One iteration of the loop of reparent(), or its end. *)
Reparent(c) ==
  LET p == run[c]  q == cur[run[c]] IN
  /\ At(c, "reparent")
  /\ IF q = NPROC + 1
     THEN Goto(p, "exit_wake") /\ cur' = [cur EXCEPT ![p] = 1] /\ UNCHANGED parent
     ELSE IF parent[q] = p
     THEN /\ parent' = [parent EXCEPT ![q] = initproc]
          /\ Goto(p, "reparent_wake") /\ UNCHANGED cur
     ELSE cur' = [cur EXCEPT ![p] = q + 1] /\ UNCHANGED <<pc, parent>>
  /\ UNCHANGED <<state, chan, killed, xstate, pid, nextpid, lockVars, cpuVars,
                 clockVars, rpc, wcur, arg, ticks0>>

(* wakeup(initproc), then the next iteration of reparent(). *)
ReparentWake(c) ==
  LET p == run[c] IN
  /\ At(c, "reparent_wake")
  /\ WakeOne(wcur[p], p, initproc)
  /\ IF wcur[p] = NPROC
     THEN /\ Goto(p, "reparent")
          /\ wcur' = [wcur EXCEPT ![p] = 1]
          /\ cur' = [cur EXCEPT ![p] = @ + 1]
     ELSE wcur' = [wcur EXCEPT ![p] = @ + 1] /\ UNCHANGED <<pc, cur>>
  /\ UNCHANGED <<lockVars, cpuVars, clockVars, rpc, arg, ticks0>>

(* Faulty variant of ExitWake: it wakes p, not p->parent. *)
ExitWakeSelf(c) ==
  LET p == run[c] IN
  /\ At(c, "exit_wake")
  /\ WakeOne(wcur[p], p, p)
  /\ IF wcur[p] = NPROC
     THEN Goto(p, "exit_zombie") /\ wcur' = [wcur EXCEPT ![p] = 1]
     ELSE wcur' = [wcur EXCEPT ![p] = @ + 1] /\ UNCHANGED pc
  /\ UNCHANGED <<lockVars, cpuVars, clockVars, rpc, cur, arg, ticks0>>

(* wakeup(p->parent) *)
ExitWake(c) ==
  LET p == run[c] IN
  /\ At(c, "exit_wake")
  /\ WakeOne(wcur[p], p, parent[p])
  /\ IF wcur[p] = NPROC
     THEN Goto(p, "exit_zombie") /\ wcur' = [wcur EXCEPT ![p] = 1]
     ELSE wcur' = [wcur EXCEPT ![p] = @ + 1] /\ UNCHANGED pc
  /\ UNCHANGED <<lockVars, cpuVars, clockVars, rpc, cur, arg, ticks0>>

(* Faulty variant of ExitZombie: wait_lock is not released before sched(). *)
ExitZombieLocked(c) ==
  LET p == run[c] IN
  /\ At(c, "exit_zombie") /\ Free(plock[p])
  /\ plock' = [plock EXCEPT ![p] = c]
  /\ xstate' = [xstate EXCEPT ![p] = arg[p]]
  /\ state' = [state EXCEPT ![p] = "ZOMBIE"]
  /\ Goto(p, "exit_sched")
  /\ arg' = [arg EXCEPT ![p] = 0]
  /\ UNCHANGED <<wait_lock, chan, killed, pid, parent, nextpid, tickslock, cpuVars, clockVars,
                 rpc, cursors, ticks0>>

(* acquire(&p->lock); the process becomes a zombie; release(&wait_lock). *)
ExitZombie(c) ==
  LET p == run[c] IN
  /\ At(c, "exit_zombie") /\ Free(plock[p])
  /\ plock' = [plock EXCEPT ![p] = c]
  /\ xstate' = [xstate EXCEPT ![p] = arg[p]]
  /\ state' = [state EXCEPT ![p] = "ZOMBIE"]
  /\ wait_lock' = NoCPU
  /\ Goto(p, "exit_sched")
  /\ arg' = [arg EXCEPT ![p] = 0]
  /\ UNCHANGED <<chan, killed, pid, parent, nextpid, tickslock, cpuVars, clockVars,
                 rpc, cursors, ticks0>>

-----------------------------------------------------------------------------
(* kill() *)

KillNext(c) ==
  LET p == run[c]  q == cur[run[c]] IN
  /\ At(c, "kill") /\ Free(plock[q]) /\ pid[q] # arg[p]
  /\ IF q = NPROC
     THEN Return(p)
     ELSE /\ cur' = [cur EXCEPT ![p] = @ + 1]
          /\ UNCHANGED <<pc, rpc, wcur, arg, ticks0>>
  /\ UNCHANGED <<procVars, lockVars, cpuVars, clockVars>>

(* p->killed = 1; wake the process from sleep(). *)
KillHit(c) ==
  LET p == run[c]  q == cur[run[c]] IN
  /\ At(c, "kill") /\ Free(plock[q]) /\ pid[q] = arg[p]
  /\ killed' = [killed EXCEPT ![q] = TRUE]
  /\ state' = [state EXCEPT ![q] = IF @ = "SLEEPING" THEN "RUNNABLE" ELSE @]
  /\ Return(p)
  /\ UNCHANGED <<chan, idVars, lockVars, cpuVars, clockVars>>

-----------------------------------------------------------------------------
(* sys_sleep() *)

(* Faulty variant of TicksLeft: the sum is compared, not the difference. *)
TicksLeftSum(p) == ticks < (ticks0[p] + arg[p]) % TickMod

(* ticks - ticks0 < n on unsigned integers: n is converted, both wrap. *)
TicksLeft(p) == (ticks - ticks0[p]) % TickMod < arg[p] % TickMod

(* acquire(&tickslock); ticks0 = ticks. *)
TicksEnter(c) ==
  LET p == run[c] IN
  /\ At(c, "ticks") /\ Free(tickslock)
  /\ tickslock' = c
  /\ ticks0' = [ticks0 EXCEPT ![p] = ticks]
  /\ waited' = [waited EXCEPT ![p] = 0]
  /\ Goto(p, "ticks_loop")
  /\ UNCHANGED <<procVars, plock, wait_lock, cpuVars, ticks, clk, rpc, cursors, arg>>

(* The loop ends, or p->killed is set: release(&tickslock) and return. *)
TicksReturn(c) ==
  LET p == run[c] IN
  /\ At(c, "ticks_loop") /\ (TicksLeft(p) => killed[p])
  /\ tickslock' = NoCPU
  /\ Return(p)
  /\ waited' = [waited EXCEPT ![p] = 0]
  /\ UNCHANGED <<procVars, plock, wait_lock, cpuVars, ticks, clk>>

(* Faulty variant of TicksMore: tickslock is released before sleep(). *)
TicksMoreUnlocked(c) ==
  /\ At(c, "ticks_loop") /\ TicksLeft(run[c]) /\ ~killed[run[c]]
  /\ Goto(run[c], "ticks_sleep")
  /\ tickslock' = NoCPU
  /\ UNCHANGED <<procVars, plock, wait_lock, cpuVars, clockVars, localVars>>

(* The loop goes on. *)
TicksMore(c) ==
  /\ At(c, "ticks_loop") /\ TicksLeft(run[c]) /\ ~killed[run[c]]
  /\ Goto(run[c], "ticks_sleep")
  /\ UNCHANGED <<procVars, lockVars, cpuVars, clockVars, localVars>>

(* sleep(&ticks, &tickslock) *)
TicksSleep(c) ==
  /\ At(c, "ticks_sleep")
  /\ SleepOn(c, TicksChan, "ticks_relock")
  /\ tickslock' = NoCPU
  /\ UNCHANGED wait_lock

(* The acquire(lk) at the end of that sleep(). *)
TicksRelock(c) ==
  /\ At(c, "ticks_relock") /\ Free(tickslock)
  /\ tickslock' = c
  /\ Goto(run[c], "ticks_loop")
  /\ UNCHANGED <<procVars, plock, wait_lock, cpuVars, clockVars, localVars>>

-----------------------------------------------------------------------------
(* The steps a hart takes by itself once in the kernel. *)
ForkStep(c) == AllocNext(c) \/ AllocFound(c) \/ AllocFail(c) \/ ForkParent(c) \/ ForkRun(c)
WaitStep(c) == \/ WaitLock(c) \/ WaitNext(c) \/ WaitReap(c) \/ WaitBadAddr(c)
               \/ WaitGiveUp(c) \/ WaitMore(c) \/ WaitSleep(c)
ExitStep(c) == \/ ExitPanic(c) \/ ExitLock(c) \/ Reparent(c) \/ ReparentWake(c)
               \/ ExitWake(c) \/ ExitZombie(c)
KillStep(c) == KillNext(c) \/ KillHit(c)
TicksStep(c) == TicksEnter(c) \/ TicksReturn(c) \/ TicksMore(c) \/ TicksSleep(c) \/ TicksRelock(c)
SwitchStep(c) == Sched(c) \/ ForkRet(c) \/ YieldRet(c) \/ SleepRet(c)

SysStep(c) == \/ TrapRet(c) \/ TrapKilled(c) \/ ForkStep(c)
              \/ WaitStep(c) \/ ExitStep(c) \/ KillStep(c) \/ TicksStep(c)

(* What the user programs choose to do. *)
UserStep(c) == SysFork(c) \/ SysWait(c) \/ SysExit(c) \/ SysKill(c) \/ SysSleep(c) \/ UserFault(c)

Clock == ClockIntr \/ ClockWake \/ ClockEnd

Next ==
  \/ Clock
  \/ \E c \in CPU : Scheduler(c) \/ SwitchStep(c) \/ SysStep(c) \/ UserStep(c) \/ TimerIntr(c)

Spec == Init /\ [][Next]_vars

(* Harts execute instructions, a pending timer interrupt is taken once       *)
(* interrupts are enabled, and whoever spins on a lock that is free again    *)
(* and again gets it.  Nothing is assumed of the user programs.              *)
KernelStep(p) == \E c \in CPU : run[c] = p /\ SysStep(c)
Fairness ==
  /\ WF_vars(ClockWake \/ ClockEnd) /\ SF_vars(ClockIntr)
  /\ \A c \in CPU : /\ WF_vars(SwitchStep(c)) /\ SF_vars(Scheduler(c))
                     /\ SF_vars(TimerIntr(c))
  /\ \A p \in Procs : SF_vars(KernelStep(p))

(* init calls wait() again and again (user/init.c). *)
InitCalls == \E c \in CPU : run[c] = initproc /\ SysWait(c)
InitWaits == SF_vars(InitCalls)

FairSpec == Spec /\ Fairness
InitSpec == FairSpec /\ InitWaits

-----------------------------------------------------------------------------
ProcTypes ==
  /\ state \in [Procs -> States]
  /\ chan \in [Procs -> Chans]
  /\ killed \in [Procs -> BOOLEAN]
  /\ xstate \in [Procs -> Int]
  /\ pid \in [Procs -> Nat]
  /\ parent \in [Procs -> Procs \cup {NULL}]
  /\ nextpid \in Nat

LockTypes ==
  /\ plock \in [Procs -> CPU \cup {NoCPU}]
  /\ wait_lock \in CPU \cup {NoCPU}
  /\ tickslock \in CPU \cup {NoCPU}

CPUTypes ==
  /\ cproc \in [CPU -> Procs \cup {NULL}]
  /\ run \in [CPU -> Procs \cup {NULL}]
  /\ scan \in [CPU -> Procs]

ClockTypes ==
  /\ ticks \in Ticks
  /\ clk \in {0} \cup Slots
  /\ waited \in [Procs -> Ticks \cup {TickMod}]

ThreadTypes ==
  /\ pc \in [Procs -> Labels]
  /\ rpc \in [Procs -> Labels]
  /\ cur \in [Procs -> Slots]
  /\ wcur \in [Procs -> Procs]
  /\ arg \in [Procs -> Int]
  /\ ticks0 \in [Procs -> Ticks]

(* Every variable keeps its type: cursors stay in the table, locks are held  *)
(* by harts, tick arithmetic stays within its width.                         *)
TypeOK == ProcTypes /\ LockTypes /\ CPUTypes /\ ClockTypes /\ ThreadTypes

(* A kernel stack is used by one hart at a time: the process a hart executes *)
(* is its c->proc, no other hart executes it, and from the moment its state  *)
(* is no longer RUNNING until swtch() has left its stack, that hart holds    *)
(* p->lock, so that no scheduler() picks it and no wait() frees it.          *)
StackOwned ==
  \A c \in CPU : run[c] # NULL =>
    /\ cproc[c] = run[c]
    /\ \A d \in CPU : run[d] = run[c] => d = c
    /\ state[run[c]] = "RUNNING" \/ plock[run[c]] = c

(* The panics of sched() and release(), and "zombie exit", cannot happen: at *)
(* swtch() a process holds p->lock and no other spinlock and is not RUNNING; *)
(* it returns from swtch() holding p->lock, and a zombie never returns.      *)
PanicFree ==
  \A c \in CPU : run[c] # NULL =>
    LET p == run[c] IN
    /\ pc[p] \in SchedPoints => /\ \A q \in Procs : plock[q] = c <=> q = p
                                /\ wait_lock # c /\ tickslock # c
                                /\ state[p] # "RUNNING"
    /\ pc[p] \in {"forkret", "yield_ret", "sleep_ret"} => plock[p] = c
    /\ pc[p] \in {"wait_scan", "wait_sleep", "reparent", "reparent_wake", "exit_wake",
                  "exit_zombie"} => wait_lock = c
    /\ pc[p] \in {"ticks_loop", "ticks_sleep"} => tickslock = c
    /\ pc[p] # "exit_ret"

(* wait_lock comes before any p->lock, and no lock survives a system call:   *)
(* a hart about to acquire wait_lock or tickslock, or back in user space,    *)
(* holds no lock at all.                                                     *)
LockOrder ==
  \A c \in CPU :
    /\ run[c] # NULL /\ ~InClock(c)
    /\ pc[run[c]] \in {"user", "trapret", "alloc", "fork_parent", "fork_run", "wait", "exit",
                       "kill", "ticks", "ticks_relock"}
    => IntrOn(c)

(* Every process other than init has a parent that has neither exited nor    *)
(* been freed: exit() hands its children to init before it is a zombie.      *)
ParentAlive ==
  \A q \in Procs \ {initproc} :
    state[q] \in {"SLEEPING", "RUNNABLE", "RUNNING", "ZOMBIE"} =>
      /\ parent[q] \in Procs \ {q}
      /\ state[parent[q]] \in {"SLEEPING", "RUNNABLE", "RUNNING"}

(* No wakeup of wait() is lost: whenever wait_lock is free, no process       *)
(* sleeps in wait() while one of its children is a zombie.                   *)
NoLostExit ==
  Free(wait_lock) =>
    \A p, q \in Procs :
      ~(state[p] = "SLEEPING" /\ chan[p] = p /\ parent[q] = p /\ state[q] = "ZOMBIE")

(* No wakeup of sys_sleep() is lost: whenever tickslock is free, a process   *)
(* that sleeps on &ticks still has ticks to wait for.                        *)
NoLostTick ==
  Free(tickslock) =>
    \A p \in Procs : state[p] = "SLEEPING" /\ chan[p] = TicksChan => TicksLeft(p)

(* Pids name processes: no two slots in use have the same pid. *)
PidUnique ==
  \A p, q \in Procs :
    state[p] # "UNUSED" /\ state[q] # "UNUSED" /\ pid[p] = pid[q] => p = q

(* A slot is freed only by the reaping of a zombie, once no hart executes on *)
(* its kernel stack and its children are gone.                               *)
ReapSafe ==
  [][\A q \in Procs : state[q] # "UNUSED" /\ state'[q] = "UNUSED" =>
       /\ state[q] = "ZOMBIE"
       /\ \A c \in CPU : run[c] # q
       /\ \A r \in Procs : parent[r] # q]_vars

(* sleep(n) returns early only to a killed process, also when ticks wraps. *)
SleepFull ==
  [][\A p \in Procs : pc[p] = "ticks_loop" /\ pc'[p] = "trapret" /\ ~killed[p] =>
       waited[p] >= arg[p] % TickMod]_vars

(* scheduler() starves nobody: a RUNNABLE process gets a CPU. *)
Scheduled == \A p \in Procs : state[p] = "RUNNABLE" ~> state[p] = "RUNNING"

InitsZombie(q) == state[q] = "ZOMBIE" /\ parent[q] = initproc
FreeSlot(q) == state[q] = "UNUSED"

(* Orphans do not stay zombies: init reaps the children exit() hands it. *)
OrphansReaped == \A q \in Procs : InitsZombie(q) ~> FreeSlot(q)

(* kill(): "Wake process from sleep()." A process that has been killed does  *)
(* not stay asleep.                                                          *)
KillWakes == \A p \in Procs : ~(killed[p] /\ state[p] = "SLEEPING")

(* killed: "If non-zero, have been killed." A slot that allocproc() hands    *)
(* out starts with killed clear.                                             *)
FreshNotKilled ==
  [][\A q \in Procs : state[q] = "UNUSED" /\ state'[q] = "USED" => ~killed'[q]]_vars

=============================================================================
