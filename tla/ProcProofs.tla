---------------------------- MODULE ProcProofs ------------------------------
(***************************************************************************)
(* Proofs about Proc: IInv (module ProcInv) is inductive, and implies the  *)
(* safety properties of Proc for every size of the process table, every    *)
(* set of harts and every width of the tick counter.                       *)
(*                                                                         *)
(* Every layer of IInv has a lemma ("...Step") that says that a step from  *)
(* a state with IInv keeps that layer, with one case per group of actions. *)
(* Procs, Slots and Labels stay closed in most leaves: the facts about     *)
(* them that are needed are the lemmas Consts, Cursors and Names.          *)
(*                                                                         *)
(* This module: the constants, the types and cursors of layer 1; who runs, *)
(* who holds p->lock and in which state in layer 2; wait_lock and          *)
(* tickslock in layer 3, the pids of layer 4 and the process tree of       *)
(* layer 5.                                                                *)
(***************************************************************************)
EXTENDS ProcInv, TLAPS

USE ZenonT(60) DEF procVars, idVars, lockVars, cpuVars, clockVars, localVars, cursors,
                   At, Goto, Free

-----------------------------------------------------------------------------
(* The constants. *)

(* The special values are distinct from slots and harts. *)
LEMMA Consts ==
  /\ NULL \notin Procs /\ NoCPU \notin CPU /\ initproc \in Procs
  /\ TicksChan \notin Procs /\ TicksChan # NULL
  /\ NULL = 0 /\ initproc = 1 /\ NoCPU = -1
BY ProcAssumption, SMTT(30) DEF Procs, initproc, NoCPU, NULL, TicksChan

(* A cursor that is not at the end of the table is a slot. *)
LEMMA Cursors ==
  /\ 1 \in Procs /\ 1 \in Slots /\ NPROC + 1 \in Slots
  /\ \A i \in Procs : i \in Slots /\ i + 1 \in Slots /\ (i # NPROC => i + 1 \in Procs)
  /\ \A i \in Slots : i \in Procs <=> i # NPROC + 1
BY ProcAssumption, SMTT(30) DEF Procs, Slots

(* Tick arithmetic stays within its width. *)
LEMMA TickRange ==
  /\ 0 \in Ticks /\ \A t \in Ticks : (t + 1) % TickMod \in Ticks
  /\ \A t \in Ticks \cup {TickMod} : t < TickMod => t + 1 \in Ticks \cup {TickMod}
BY ProcAssumption, SMTT(30) DEF Ticks

(* The names of labels and states that the actions assign. *)
LEMMA Names ==
  /\ "forkret" \in Labels /\ "user" \in Labels /\ "trapret" \in Labels /\ "alloc" \in Labels
  /\ "fork_parent" \in Labels /\ "fork_run" \in Labels /\ "wait" \in Labels
  /\ "wait_scan" \in Labels /\ "wait_sleep" \in Labels /\ "exit" \in Labels
  /\ "reparent" \in Labels /\ "reparent_wake" \in Labels /\ "exit_wake" \in Labels
  /\ "exit_zombie" \in Labels /\ "kill" \in Labels /\ "ticks" \in Labels
  /\ "ticks_loop" \in Labels /\ "ticks_sleep" \in Labels /\ "ticks_relock" \in Labels
  /\ "yield_sched" \in Labels /\ "sleep_sched" \in Labels /\ "exit_sched" \in Labels
  /\ "yield_ret" \in Labels /\ "sleep_ret" \in Labels /\ "exit_ret" \in Labels
  /\ "panic" \in Labels
  /\ "UNUSED" \in States /\ "USED" \in States /\ "SLEEPING" \in States
  /\ "RUNNABLE" \in States /\ "RUNNING" \in States /\ "ZOMBIE" \in States
BY DEF Labels, States

(* The layers of the invariant. *)
LEMMA Layers ==
  ASSUME IInv
  PROVE  /\ TypeOK /\ ProcTypes /\ LockTypes /\ CPUTypes /\ ClockTypes /\ ThreadTypes /\ CursorInv
         /\ CPUInv /\ LockInv /\ StateInv
         /\ GlobalLockInv
         /\ PidInv
         /\ ForkInv /\ TreeInv /\ ReparentInv
         /\ SleepInv /\ WakeInv /\ ScanInv /\ WokenInv /\ ZombieInv
         /\ TickInv
BY DEF IInv, TypeOK

(* A hart that is not in scheduler() executes a process. *)
LEMMA RunProc ==
  ASSUME CPUTypes, NEW c \in CPU, run[c] # NULL
  PROVE  run[c] \in Procs
BY DEF CPUTypes

(* Outside a scan that runs past the end of the table, the cursor is a slot. *)
LEMMA CursorHere ==
  ASSUME CPUTypes, CursorInv, NEW c \in CPU, run[c] # NULL,
         pc[run[c]] \in {"alloc", "fork_parent", "fork_run", "kill", "reparent_wake"}
  PROVE  cur[run[c]] \in Procs
BY RunProc DEF CursorInv, CursorOK, Point

(* At the end of clockintr(), the thread it interrupted holds no lock. *)
LEMMA ClockEndHere ==
  ASSUME IInv, ClockEnd
  PROVE  /\ clk # 0 /\ 0 \in CPU
         /\ run[0] # NULL => run[0] \in Procs /\ pc[run[0]] \in Unlocked
<1>1. clk # 0
  BY ProcAssumption, SMTT(30) DEF ClockEnd
<1>2. 0 \in CPU /\ (run[0] # NULL => pc[run[0]] \in Unlocked)
  BY <1>1 DEF IInv, GlobalLockInv
<1> QED  BY <1>1, <1>2, RunProc DEF IInv, TypeOK

(* What the helper operators do to the types of what they assign. *)
LEMMA ReturnTypes ==
  ASSUME ThreadTypes, NEW p \in Procs, Return(p)
  PROVE  ThreadTypes'
BY Names, Cursors, TickRange, SMTT(30) DEF ThreadTypes, Return

(* exit(-1) of a killed process keeps the locals of every thread well typed. *)
LEMMA ExitKilledTypes ==
  ASSUME ThreadTypes, NEW p \in Procs, ExitKilled(p)
  PROVE  ThreadTypes'
BY Names, SMTT(30) DEF ThreadTypes, ExitKilled

(* freeproc() keeps the fields of the process table well typed. *)
LEMMA FreeProcTypes ==
  ASSUME ProcTypes, NEW q \in Procs, FreeProc(q), nextpid' \in Nat
  PROVE  ProcTypes'
BY Consts, Names, SMTT(30) DEF ProcTypes, FreeProc, Chans

(* An iteration of wakeup() keeps the fields of the process table well typed. *)
LEMMA WakeOneTypes ==
  ASSUME ProcTypes, NEW q \in Procs, NEW p, NEW ch, WakeOne(q, p, ch)
  PROVE  ProcTypes'
BY Names DEF ProcTypes, WakeOne

-----------------------------------------------------------------------------
(* Layer 1: types and cursors. *)

(* Locks are held by harts. *)
LEMMA LockTypesStep ==
  ASSUME IInv, Next
  PROVE  LockTypes'
<1>1. ASSUME NEW c \in CPU, Scheduler(c)
      PROVE  LockTypes'
  BY <1>1, Consts, Layers, SMTT(30) DEF LockTypes, CPUTypes, Scheduler, SchedRun, InScheduler,
     SchedSkip, Advance, SchedBack
<1>2. ASSUME NEW c \in CPU, SwitchStep(c)
      PROVE  LockTypes'
  BY <1>2, Consts, Layers DEF LockTypes, CPUTypes, SwitchStep, Sched, Resume,
     SchedPoints, ForkRet, YieldRet, SleepRet
<1>3. ASSUME NEW c \in CPU, TrapRet(c)
      PROVE  LockTypes'
  BY <1>3, Consts, Layers DEF LockTypes, CPUTypes, TrapRet
<1>4. ASSUME NEW c \in CPU, TrapKilled(c)
      PROVE  LockTypes'
  BY <1>4, Consts, Layers DEF LockTypes, CPUTypes, TrapKilled, ExitKilled
<1>5. ASSUME NEW c \in CPU, ForkStep(c)
      PROVE  LockTypes'
  BY <1>5, Consts, Layers DEF LockTypes, CPUTypes, ForkStep, AllocNext, Return,
     AllocFound, AllocFail, FreeProc, ForkParent, ForkRun
<1>6. ASSUME NEW c \in CPU, WaitStep(c)
      PROVE  LockTypes'
  <2>1. CASE WaitLock(c)
    BY <2>1, Consts, Layers DEF LockTypes, CPUTypes, WaitLock
  <2>2. CASE WaitNext(c)
    BY <2>2, Consts, Layers DEF LockTypes, CPUTypes, WaitNext
  <2>3. CASE WaitReap(c)
    BY <2>3, Consts, Layers DEF LockTypes, CPUTypes, WaitReap, Return, FreeProc
  <2>4. CASE WaitBadAddr(c)
    BY <2>4, Consts, Layers DEF LockTypes, CPUTypes, WaitBadAddr, Return
  <2>5. CASE WaitGiveUp(c)
    BY <2>5, Consts, Layers DEF LockTypes, CPUTypes, WaitGiveUp, Return
  <2>6. CASE WaitMore(c)
    BY <2>6, Consts, Layers DEF LockTypes, CPUTypes, WaitMore
  <2>7. CASE WaitSleep(c)
    BY <2>7, Consts, Layers DEF LockTypes, CPUTypes, WaitSleep, SleepOn
  <2> QED  BY <1>6, <2>1, <2>2, <2>3, <2>4, <2>5, <2>6, <2>7 DEF WaitStep
<1>7. ASSUME NEW c \in CPU, ExitStep(c)
      PROVE  LockTypes'
  <2>1. CASE ExitPanic(c)
    BY <2>1, Consts, Layers DEF LockTypes, CPUTypes, ExitPanic
  <2>2. CASE ExitLock(c)
    BY <2>2, Consts, Layers DEF LockTypes, CPUTypes, ExitLock
  <2>3. CASE Reparent(c)
    BY <2>3, Consts, Layers DEF LockTypes, CPUTypes, Reparent
  <2>4. CASE ReparentWake(c)
    BY <2>4, Consts, Layers DEF LockTypes, CPUTypes, ReparentWake, WakeOne
  <2>5. CASE ExitWake(c)
    BY <2>5, Consts, Layers DEF LockTypes, CPUTypes, ExitWake, WakeOne
  <2>6. CASE ExitZombie(c)
    BY <2>6, Consts, Layers DEF LockTypes, CPUTypes, ExitZombie
  <2> QED  BY <1>7, <2>1, <2>2, <2>3, <2>4, <2>5, <2>6 DEF ExitStep
<1>8. ASSUME NEW c \in CPU, KillStep(c)
      PROVE  LockTypes'
  BY <1>8, Consts, Layers DEF LockTypes, CPUTypes, KillStep, KillNext, Return, KillHit
<1>9. ASSUME NEW c \in CPU, TicksStep(c)
      PROVE  LockTypes'
  <2>1. CASE TicksEnter(c)
    BY <2>1, Consts, Layers DEF LockTypes, CPUTypes, TicksEnter
  <2>2. CASE TicksReturn(c)
    BY <2>2, Consts, Layers DEF LockTypes, CPUTypes, TicksReturn, Return
  <2>3. CASE TicksMore(c)
    BY <2>3, Consts, Layers DEF LockTypes, CPUTypes, TicksMore
  <2>4. CASE TicksSleep(c)
    BY <2>4, Consts, Layers DEF LockTypes, CPUTypes, TicksSleep, SleepOn
  <2>5. CASE TicksRelock(c)
    BY <2>5, Consts, Layers DEF LockTypes, CPUTypes, TicksRelock
  <2> QED  BY <1>9, <2>1, <2>2, <2>3, <2>4, <2>5 DEF TicksStep
<1>10. ASSUME NEW c \in CPU, UserStep(c)
      PROVE  LockTypes'
  BY <1>10, Consts, Layers DEF LockTypes, CPUTypes, UserStep, SysFork, SysCall,
     SysWait, SysExit, SysKill, SysSleep, UserFault, ExitKilled
<1>11. ASSUME NEW c \in CPU, TimerIntr(c)
      PROVE  LockTypes'
  BY <1>11, Consts, Layers, SMTT(30) DEF LockTypes, CPUTypes, TimerIntr, TimerReturn, ExitKilled
<1>12. ASSUME Clock
      PROVE  LockTypes'
  <2>1. CASE ClockIntr
    BY <2>1, Consts, Layers DEF LockTypes, CPUTypes, ClockIntr
  <2>2. CASE ClockWake
    BY <2>2, Consts, Layers DEF LockTypes, CPUTypes, ClockWake, WakeOne
  <2>3. CASE ClockEnd
    <3>1. 0 \in CPU
      BY <2>3, ClockEndHere
    <3>2. plock' = plock \/ \E p \in Procs : plock' = [plock EXCEPT ![p] = 0]
      BY <2>3, <3>1, RunProc, Layers DEF ClockEnd, TimerReturn
    <3> QED  BY <2>3, <3>1, <3>2, Layers DEF LockTypes, ClockEnd
  <2> QED  BY <1>12, <2>1, <2>2, <2>3 DEF Clock
<1> QED  BY <1>1, <1>2, <1>3, <1>4, <1>5, <1>6, <1>7, <1>8, <1>9, <1>10, <1>11, <1>12
            DEF Next, SysStep

(* c->proc, the running thread and the scheduler's cursor name slots. *)
LEMMA CPUTypesStep ==
  ASSUME IInv, Next
  PROVE  CPUTypes'
<1>1. ASSUME NEW c \in CPU, Scheduler(c)
      PROVE  CPUTypes'
  <2>1. CASE SchedRun(c)
    BY <2>1, Consts, Layers DEF CPUTypes, SchedRun, InScheduler
  <2>2. CASE SchedSkip(c)
    BY <2>2, Consts, Cursors, Layers DEF CPUTypes, SchedSkip, InScheduler, Advance
  <2>3. CASE SchedBack(c)
    BY <2>3, Consts, Cursors, Layers DEF CPUTypes, SchedBack, InScheduler, Advance
  <2> QED  BY <1>1, <2>1, <2>2, <2>3 DEF Scheduler
<1>2. ASSUME NEW c \in CPU, SwitchStep(c)
      PROVE  CPUTypes'
  BY <1>2, Consts, Layers DEF CPUTypes, SwitchStep, Sched, Resume, SchedPoints,
     ForkRet, YieldRet, SleepRet
<1>3. ASSUME NEW c \in CPU, TrapRet(c)
      PROVE  CPUTypes'
  BY <1>3, Consts, Layers DEF CPUTypes, TrapRet
<1>4. ASSUME NEW c \in CPU, TrapKilled(c)
      PROVE  CPUTypes'
  BY <1>4, Consts, Layers DEF CPUTypes, TrapKilled, ExitKilled
<1>5. ASSUME NEW c \in CPU, ForkStep(c)
      PROVE  CPUTypes'
  BY <1>5, Consts, Layers DEF CPUTypes, ForkStep, AllocNext, Return, AllocFound,
     AllocFail, FreeProc, ForkParent, ForkRun
<1>6. ASSUME NEW c \in CPU, WaitStep(c)
      PROVE  CPUTypes'
  BY <1>6, Consts, Layers DEF CPUTypes, WaitStep, WaitLock, WaitNext, WaitReap,
     Return, FreeProc, WaitBadAddr, WaitGiveUp, WaitMore, WaitSleep, SleepOn
<1>7. ASSUME NEW c \in CPU, ExitStep(c)
      PROVE  CPUTypes'
  BY <1>7, Consts, Layers DEF CPUTypes, ExitStep, ExitPanic, ExitLock, Reparent,
     ReparentWake, WakeOne, ExitWake, ExitZombie
<1>8. ASSUME NEW c \in CPU, KillStep(c)
      PROVE  CPUTypes'
  BY <1>8, Consts, Layers DEF CPUTypes, KillStep, KillNext, Return, KillHit
<1>9. ASSUME NEW c \in CPU, TicksStep(c)
      PROVE  CPUTypes'
  BY <1>9, Consts, Layers DEF CPUTypes, TicksStep, TicksEnter, TicksReturn, Return,
     TicksMore, TicksSleep, SleepOn, TicksRelock
<1>10. ASSUME NEW c \in CPU, UserStep(c)
      PROVE  CPUTypes'
  BY <1>10, Consts, Layers DEF CPUTypes, UserStep, SysFork, SysCall, SysWait, SysExit,
     SysKill, SysSleep, UserFault, ExitKilled
<1>11. ASSUME NEW c \in CPU, TimerIntr(c)
      PROVE  CPUTypes'
  BY <1>11, Consts, Layers DEF CPUTypes, TimerIntr, TimerReturn, ExitKilled
<1>12. ASSUME Clock
      PROVE  CPUTypes'
  BY <1>12, Consts, Layers DEF CPUTypes, Clock, ClockIntr, ClockWake, WakeOne,
     ClockEnd, TimerReturn, ExitKilled
<1> QED  BY <1>1, <1>2, <1>3, <1>4, <1>5, <1>6, <1>7, <1>8, <1>9, <1>10, <1>11, <1>12
            DEF Next, SysStep

(* The tick counters stay within their width. *)
LEMMA ClockTypesStep ==
  ASSUME IInv, Next
  PROVE  ClockTypes'
<1>1. ASSUME NEW c \in CPU, Scheduler(c)
      PROVE  ClockTypes'
  BY <1>1, TickRange, Cursors, Layers DEF ClockTypes, Scheduler, SchedRun,
     InScheduler, SchedSkip, Advance, SchedBack
<1>2. ASSUME NEW c \in CPU, SwitchStep(c)
      PROVE  ClockTypes'
  BY <1>2, TickRange, Cursors, Layers DEF ClockTypes, SwitchStep, Sched, Resume,
     SchedPoints, ForkRet, YieldRet, SleepRet
<1>3. ASSUME NEW c \in CPU, TrapRet(c)
      PROVE  ClockTypes'
  BY <1>3, TickRange, Cursors, Layers DEF ClockTypes, TrapRet
<1>4. ASSUME NEW c \in CPU, TrapKilled(c)
      PROVE  ClockTypes'
  BY <1>4, TickRange, Cursors, Layers DEF ClockTypes, TrapKilled, ExitKilled
<1>5. ASSUME NEW c \in CPU, ForkStep(c)
      PROVE  ClockTypes'
  BY <1>5, TickRange, Cursors, Layers DEF ClockTypes, ForkStep, AllocNext, Return,
     AllocFound, AllocFail, FreeProc, ForkParent, ForkRun
<1>6. ASSUME NEW c \in CPU, WaitStep(c)
      PROVE  ClockTypes'
  BY <1>6, TickRange, Cursors, Layers DEF ClockTypes, WaitStep, WaitLock, WaitNext,
     WaitReap, Return, FreeProc, WaitBadAddr, WaitGiveUp, WaitMore, WaitSleep, SleepOn
<1>7. ASSUME NEW c \in CPU, ExitStep(c)
      PROVE  ClockTypes'
  BY <1>7, TickRange, Cursors, Layers DEF ClockTypes, ExitStep, ExitPanic, ExitLock,
     Reparent, ReparentWake, WakeOne, ExitWake, ExitZombie
<1>8. ASSUME NEW c \in CPU, KillStep(c)
      PROVE  ClockTypes'
  BY <1>8, TickRange, Cursors, Layers DEF ClockTypes, KillStep, KillNext, Return,
     KillHit
<1>9. ASSUME NEW c \in CPU, TicksStep(c)
      PROVE  ClockTypes'
  <2>1. CASE TicksEnter(c)
    BY <2>1, TickRange, Cursors, Layers DEF ClockTypes, TicksEnter
  <2>2. CASE TicksReturn(c)
    BY <2>2, TickRange, Cursors, Layers DEF ClockTypes, TicksReturn, Return
  <2>3. CASE TicksMore(c)
    BY <2>3, TickRange, Cursors, Layers DEF ClockTypes, TicksMore
  <2>4. CASE TicksSleep(c)
    BY <2>4, TickRange, Cursors, Layers DEF ClockTypes, TicksSleep, SleepOn
  <2>5. CASE TicksRelock(c)
    BY <2>5, TickRange, Cursors, Layers DEF ClockTypes, TicksRelock
  <2> QED  BY <1>9, <2>1, <2>2, <2>3, <2>4, <2>5 DEF TicksStep
<1>10. ASSUME NEW c \in CPU, UserStep(c)
      PROVE  ClockTypes'
  BY <1>10, TickRange, Cursors, Layers DEF ClockTypes, UserStep, SysFork, SysCall,
     SysWait, SysExit, SysKill, SysSleep, UserFault, ExitKilled
<1>11. ASSUME NEW c \in CPU, TimerIntr(c)
      PROVE  ClockTypes'
  BY <1>11, TickRange, Cursors, Layers DEF ClockTypes, TimerIntr, TimerReturn,
     ExitKilled
<1>12. ASSUME Clock
      PROVE  ClockTypes'
  BY <1>12, TickRange, Cursors, Layers DEF ClockTypes, Clock, ClockIntr, ClockWake,
     WakeOne, ClockEnd, TimerReturn, ExitKilled
<1> QED  BY <1>1, <1>2, <1>3, <1>4, <1>5, <1>6, <1>7, <1>8, <1>9, <1>10, <1>11, <1>12
            DEF Next, SysStep

(* The fields of struct proc keep their types. *)
LEMMA ProcTypesStep ==
  ASSUME IInv, Next
  PROVE  ProcTypes'
<1>1. ASSUME NEW c \in CPU, Scheduler(c)
      PROVE  ProcTypes'
  <2>1. CASE SchedRun(c)
    BY <2>1, Consts, Names, Cursors, Layers DEF ProcTypes, CPUTypes, ThreadTypes, Chans,
       SchedRun, InScheduler
  <2>2. CASE SchedSkip(c)
    BY <2>2, Consts, Names, Cursors, Layers DEF ProcTypes, CPUTypes, ThreadTypes, Chans,
       SchedSkip, InScheduler, Advance
  <2>3. CASE SchedBack(c)
    BY <2>3, Consts, Names, Cursors, Layers DEF ProcTypes, CPUTypes, ThreadTypes, Chans,
       SchedBack, InScheduler, Advance
  <2> QED  BY <1>1, <2>1, <2>2, <2>3 DEF Scheduler
<1>2. ASSUME NEW c \in CPU, SwitchStep(c)
      PROVE  ProcTypes'
  <2>1. CASE Sched(c)
    BY <2>1, Consts, Names, Cursors, Layers DEF ProcTypes, CPUTypes, ThreadTypes, Chans,
       Sched, Resume, SchedPoints
  <2>2. CASE ForkRet(c)
    BY <2>2, Consts, Names, Cursors, Layers DEF ProcTypes, CPUTypes, ThreadTypes, Chans,
       ForkRet
  <2>3. CASE YieldRet(c)
    BY <2>3, Consts, Names, Cursors, Layers DEF ProcTypes, CPUTypes, ThreadTypes, Chans,
       YieldRet
  <2>4. CASE SleepRet(c)
    BY <2>4, Consts, Names, Cursors, Layers DEF ProcTypes, CPUTypes, ThreadTypes, Chans,
       SleepRet
  <2> QED  BY <1>2, <2>1, <2>2, <2>3, <2>4 DEF SwitchStep
<1>3. ASSUME NEW c \in CPU, TrapRet(c)
      PROVE  ProcTypes'
  BY <1>3, Consts, Names, Cursors, Layers DEF ProcTypes, CPUTypes, ThreadTypes, Chans,
     TrapRet
<1>4. ASSUME NEW c \in CPU, TrapKilled(c)
      PROVE  ProcTypes'
  BY <1>4, Consts, Names, Cursors, Layers DEF ProcTypes, CPUTypes, ThreadTypes, Chans,
     TrapKilled, ExitKilled
<1>5. ASSUME NEW c \in CPU, ForkStep(c)
      PROVE  ProcTypes'
  <2>1. CASE AllocNext(c)
    BY <2>1, Consts, Names, Cursors, Layers DEF ProcTypes, CPUTypes, ThreadTypes,
     Chans, AllocNext, Return
  <2>2. CASE AllocFound(c)
    <3>1. cur[run[c]] \in Procs
      BY <2>2, CursorHere, Layers DEF AllocFound
    <3> QED  BY <2>2, <3>1, Names, Layers, SMTT(30) DEF ProcTypes, AllocFound
  <2>3. CASE AllocFail(c)
    <3>1. cur[run[c]] \in Procs
      BY <2>3, CursorHere, Layers DEF AllocFail
    <3>2. nextpid' \in Nat
      BY <2>3, Layers, SMTT(30) DEF ProcTypes, AllocFail
    <3> QED  BY <2>3, <3>1, <3>2, FreeProcTypes, Layers DEF AllocFail
  <2>4. CASE ForkParent(c)
    BY <2>4, Consts, Names, Cursors, Layers DEF ProcTypes, CPUTypes, ThreadTypes,
     Chans, ForkParent
  <2>5. CASE ForkRun(c)
    BY <2>5, Consts, Names, Cursors, Layers DEF ProcTypes, CPUTypes, ThreadTypes,
     Chans, ForkRun, Return
  <2> QED  BY <1>5, <2>1, <2>2, <2>3, <2>4, <2>5 DEF ForkStep
<1>6. ASSUME NEW c \in CPU, WaitStep(c)
      PROVE  ProcTypes'
  <2>1. CASE WaitLock(c)
    BY <2>1, Consts, Names, Cursors, Layers DEF ProcTypes, CPUTypes, ThreadTypes,
     Chans, WaitLock
  <2>2. CASE WaitNext(c)
    BY <2>2, Consts, Names, Cursors, Layers DEF ProcTypes, CPUTypes, ThreadTypes,
     Chans, WaitNext
  <2>3. CASE WaitReap(c)
    BY <2>3, Consts, Names, Cursors, Layers, SMTT(30) DEF ProcTypes, CPUTypes, ThreadTypes,
     Chans, WaitReap, Return, FreeProc
  <2>4. CASE WaitBadAddr(c)
    BY <2>4, Consts, Names, Cursors, Layers DEF ProcTypes, CPUTypes, ThreadTypes,
     Chans, WaitBadAddr, Return
  <2>5. CASE WaitGiveUp(c)
    BY <2>5, Consts, Names, Cursors, Layers DEF ProcTypes, CPUTypes, ThreadTypes,
     Chans, WaitGiveUp, Return
  <2>6. CASE WaitMore(c)
    BY <2>6, Consts, Names, Cursors, Layers DEF ProcTypes, CPUTypes, ThreadTypes,
     Chans, WaitMore
  <2>7. CASE WaitSleep(c)
    BY <2>7, Consts, Names, Cursors, Layers DEF ProcTypes, CPUTypes, ThreadTypes,
     Chans, WaitSleep, SleepOn
  <2> QED  BY <1>6, <2>1, <2>2, <2>3, <2>4, <2>5, <2>6, <2>7 DEF WaitStep
<1>7. ASSUME NEW c \in CPU, ExitStep(c)
      PROVE  ProcTypes'
  <2>1. CASE ExitPanic(c)
    BY <2>1, Consts, Names, Cursors, Layers DEF ProcTypes, CPUTypes, ThreadTypes,
     Chans, ExitPanic
  <2>2. CASE ExitLock(c)
    BY <2>2, Consts, Names, Cursors, Layers DEF ProcTypes, CPUTypes, ThreadTypes,
     Chans, ExitLock
  <2>3. CASE Reparent(c)
    BY <2>3, Consts, Names, Cursors, Layers, SMTT(30) DEF ProcTypes, CPUTypes, ThreadTypes,
     Chans, Reparent
  <2>4. CASE ReparentWake(c)
    BY <2>4, Consts, Names, Cursors, Layers DEF ProcTypes, CPUTypes, ThreadTypes,
     Chans, ReparentWake, WakeOne
  <2>5. CASE ExitWake(c)
    BY <2>5, Consts, Names, Cursors, Layers DEF ProcTypes, CPUTypes, ThreadTypes,
     Chans, ExitWake, WakeOne
  <2>6. CASE ExitZombie(c)
    BY <2>6, Consts, Names, Cursors, Layers DEF ProcTypes, CPUTypes, ThreadTypes,
     Chans, ExitZombie
  <2> QED  BY <1>7, <2>1, <2>2, <2>3, <2>4, <2>5, <2>6 DEF ExitStep
<1>8. ASSUME NEW c \in CPU, KillStep(c)
      PROVE  ProcTypes'
  <2>1. CASE KillNext(c)
    BY <2>1, Consts, Names, Cursors, Layers DEF ProcTypes, CPUTypes, ThreadTypes,
     Chans, KillNext, Return
  <2>2. CASE KillHit(c)
    BY <2>2, Consts, Names, Cursors, Layers DEF ProcTypes, CPUTypes, ThreadTypes,
     Chans, KillHit, Return
  <2> QED  BY <1>8, <2>1, <2>2 DEF KillStep
<1>9. ASSUME NEW c \in CPU, TicksStep(c)
      PROVE  ProcTypes'
  <2>1. CASE TicksEnter(c)
    BY <2>1, Consts, Names, Cursors, Layers DEF ProcTypes, CPUTypes, ThreadTypes,
     Chans, TicksEnter
  <2>2. CASE TicksReturn(c)
    BY <2>2, Consts, Names, Cursors, Layers DEF ProcTypes, CPUTypes, ThreadTypes,
     Chans, TicksReturn, Return
  <2>3. CASE TicksMore(c)
    BY <2>3, Consts, Names, Cursors, Layers DEF ProcTypes, CPUTypes, ThreadTypes,
     Chans, TicksMore
  <2>4. CASE TicksSleep(c)
    BY <2>4, Consts, Names, Cursors, Layers DEF ProcTypes, CPUTypes, ThreadTypes,
     Chans, TicksSleep, SleepOn
  <2>5. CASE TicksRelock(c)
    BY <2>5, Consts, Names, Cursors, Layers DEF ProcTypes, CPUTypes, ThreadTypes,
     Chans, TicksRelock
  <2> QED  BY <1>9, <2>1, <2>2, <2>3, <2>4, <2>5 DEF TicksStep
<1>10. ASSUME NEW c \in CPU, UserStep(c)
      PROVE  ProcTypes'
  <2>1. CASE SysFork(c)
    BY <2>1, Consts, Names, Cursors, Layers DEF ProcTypes, CPUTypes, ThreadTypes,
     Chans, SysFork, SysCall
  <2>2. CASE SysWait(c)
    BY <2>2, Consts, Names, Cursors, Layers DEF ProcTypes, CPUTypes, ThreadTypes,
     Chans, SysWait, SysCall
  <2>3. CASE SysExit(c)
    BY <2>3, Consts, Names, Cursors, Layers DEF ProcTypes, CPUTypes, ThreadTypes,
     Chans, SysExit, SysCall
  <2>4. CASE SysKill(c)
    BY <2>4, Consts, Names, Cursors, Layers DEF ProcTypes, CPUTypes, ThreadTypes,
     Chans, SysKill, SysCall
  <2>5. CASE SysSleep(c)
    BY <2>5, Consts, Names, Cursors, Layers DEF ProcTypes, CPUTypes, ThreadTypes,
     Chans, SysSleep, SysCall
  <2>6. CASE UserFault(c)
    BY <2>6, Consts, Names, Cursors, Layers DEF ProcTypes, CPUTypes, ThreadTypes,
     Chans, UserFault, ExitKilled
  <2> QED  BY <1>10, <2>1, <2>2, <2>3, <2>4, <2>5, <2>6 DEF UserStep
<1>11. ASSUME NEW c \in CPU, TimerIntr(c)
      PROVE  ProcTypes'
  BY <1>11, Consts, Names, Cursors, Layers, SMTT(30) DEF ProcTypes, CPUTypes, ThreadTypes,
     Chans, TimerIntr, TimerReturn, ExitKilled
<1>12. ASSUME Clock
      PROVE  ProcTypes'
  <2>1. CASE ClockIntr
    BY <2>1, Consts, Names, Cursors, Layers DEF ProcTypes, CPUTypes, ThreadTypes, Chans,
       ClockIntr
  <2>2. CASE ClockWake
    BY <2>2, Consts, Names, Cursors, Layers DEF ProcTypes, CPUTypes, ThreadTypes, Chans,
       ClockWake, WakeOne
  <2>3. CASE ClockEnd
    BY <2>3, Consts, Names, Cursors, Layers, SMTT(30) DEF ProcTypes, CPUTypes, ThreadTypes, Chans,
       ClockEnd, TimerReturn, ExitKilled
  <2> QED  BY <1>12, <2>1, <2>2, <2>3 DEF Clock
<1> QED  BY <1>1, <1>2, <1>3, <1>4, <1>5, <1>6, <1>7, <1>8, <1>9, <1>10, <1>11, <1>12
            DEF Next, SysStep

(* Labels, cursors and arguments keep their types. *)
LEMMA ThreadTypesStep ==
  ASSUME IInv, Next
  PROVE  ThreadTypes'
<1>1. ASSUME NEW c \in CPU, Scheduler(c)
      PROVE  ThreadTypes'
  <2>1. CASE SchedRun(c)
    BY <2>1, Consts, Names, Cursors, Layers DEF ThreadTypes, CPUTypes, SchedRun, InScheduler
  <2>2. CASE SchedSkip(c)
    BY <2>2, Consts, Names, Cursors, Layers DEF ThreadTypes, CPUTypes, SchedSkip,
       InScheduler, Advance
  <2>3. CASE SchedBack(c)
    BY <2>3, Consts, Names, Cursors, Layers DEF ThreadTypes, CPUTypes, SchedBack,
       InScheduler, Advance
  <2> QED  BY <1>1, <2>1, <2>2, <2>3 DEF Scheduler
<1>2. ASSUME NEW c \in CPU, SwitchStep(c)
      PROVE  ThreadTypes'
  <2>1. CASE Sched(c)
    BY <2>1, Consts, Names, Cursors, Layers DEF ThreadTypes, CPUTypes, Sched, Resume,
       SchedPoints
  <2>2. CASE ForkRet(c)
    BY <2>2, Consts, Names, Cursors, Layers DEF ThreadTypes, CPUTypes, ForkRet
  <2>3. CASE YieldRet(c)
    BY <2>3, Consts, Names, Cursors, Layers DEF ThreadTypes, CPUTypes, YieldRet
  <2>4. CASE SleepRet(c)
    BY <2>4, Consts, Names, Cursors, Layers DEF ThreadTypes, CPUTypes, SleepRet
  <2> QED  BY <1>2, <2>1, <2>2, <2>3, <2>4 DEF SwitchStep
<1>3. ASSUME NEW c \in CPU, TrapRet(c)
      PROVE  ThreadTypes'
  BY <1>3, Consts, Names, Cursors, Layers DEF ThreadTypes, CPUTypes, TrapRet
<1>4. ASSUME NEW c \in CPU, TrapKilled(c)
      PROVE  ThreadTypes'
  BY <1>4, Consts, Names, Cursors, Layers, SMTT(30) DEF ThreadTypes, CPUTypes, TrapKilled,
     ExitKilled
<1>5. ASSUME NEW c \in CPU, ForkStep(c)
      PROVE  ThreadTypes'
  <2>1. CASE AllocNext(c)
    <3>1. run[c] \in Procs /\ cur[run[c]] \in Procs
      BY <2>1, RunProc, CursorHere, Layers DEF AllocNext
    <3>2. CASE cur[run[c]] = NPROC
      BY <2>1, <3>1, <3>2, ReturnTypes, Layers DEF AllocNext
    <3>3. CASE cur[run[c]] # NPROC
      <4>1. cur[run[c]] + 1 \in Slots
        BY <3>1, Cursors
      <4> QED  BY <2>1, <3>1, <3>3, <4>1, Layers DEF ThreadTypes, AllocNext
    <3> QED  BY <3>2, <3>3
  <2>2. CASE AllocFound(c)
    BY <2>2, Consts, Names, Cursors, Layers DEF ThreadTypes, CPUTypes, AllocFound
  <2>3. CASE AllocFail(c)
    BY <2>3, RunProc, ReturnTypes, Layers DEF AllocFail
  <2>4. CASE ForkParent(c)
    BY <2>4, Consts, Names, Cursors, Layers DEF ThreadTypes, CPUTypes, ForkParent
  <2>5. CASE ForkRun(c)
    BY <2>5, RunProc, ReturnTypes, Layers DEF ForkRun
  <2> QED  BY <1>5, <2>1, <2>2, <2>3, <2>4, <2>5 DEF ForkStep
<1>6. ASSUME NEW c \in CPU, WaitStep(c)
      PROVE  ThreadTypes'
  <2>1. CASE WaitLock(c)
    BY <2>1, Consts, Names, Cursors, Layers DEF ThreadTypes, CPUTypes, WaitLock
  <2>2. CASE WaitNext(c)
    BY <2>2, Consts, Names, Cursors, Layers DEF ThreadTypes, CPUTypes, WaitNext
  <2>3. CASE WaitReap(c)
    BY <2>3, RunProc, ReturnTypes, Layers DEF WaitReap
  <2>4. CASE WaitBadAddr(c)
    BY <2>4, RunProc, ReturnTypes, Layers DEF WaitBadAddr
  <2>5. CASE WaitGiveUp(c)
    BY <2>5, RunProc, ReturnTypes, Layers DEF WaitGiveUp
  <2>6. CASE WaitMore(c)
    BY <2>6, Consts, Names, Cursors, Layers DEF ThreadTypes, CPUTypes, WaitMore
  <2>7. CASE WaitSleep(c)
    BY <2>7, Consts, Names, Cursors, Layers DEF ThreadTypes, CPUTypes, WaitSleep,
     SleepOn
  <2> QED  BY <1>6, <2>1, <2>2, <2>3, <2>4, <2>5, <2>6, <2>7 DEF WaitStep
<1>7. ASSUME NEW c \in CPU, ExitStep(c)
      PROVE  ThreadTypes'
  <2>1. CASE ExitPanic(c)
    BY <2>1, Consts, Names, Cursors, Layers DEF ThreadTypes, CPUTypes, ExitPanic
  <2>2. CASE ExitLock(c)
    BY <2>2, Consts, Names, Cursors, Layers DEF ThreadTypes, CPUTypes, ExitLock
  <2>3. CASE Reparent(c)
    <3>1. run[c] \in Procs
      BY <2>3, RunProc, Layers DEF Reparent
    <3>2. cur' = cur \/ \E i \in Slots : cur' = [cur EXCEPT ![run[c]] = i]
      <4>1. cur[run[c]] \in Slots
        BY <3>1, Layers DEF ThreadTypes
      <4>2. cur[run[c]] = NPROC + 1 \/ cur[run[c]] + 1 \in Slots
        BY <4>1, Cursors
      <4> QED  BY <2>3, <4>2, Cursors DEF Reparent
    <3>3. pc' = pc \/ \E l \in Labels : pc' = [pc EXCEPT ![run[c]] = l]
      BY <2>3, Names DEF Reparent
    <3> QED  BY <2>3, <3>1, <3>2, <3>3, Layers, SMTT(30) DEF ThreadTypes, Reparent
  <2>4. CASE ReparentWake(c)
    <3>1. run[c] \in Procs /\ cur[run[c]] \in Procs
      BY <2>4, RunProc, CursorHere, Layers DEF ReparentWake
    <3>2. cur' = cur \/ \E i \in Slots : cur' = [cur EXCEPT ![run[c]] = i]
      BY <2>4, <3>1, Cursors DEF ReparentWake
    <3>3. \E i \in Procs : wcur' = [wcur EXCEPT ![run[c]] = i]
      <4>1. wcur[run[c]] \in Procs
        BY <3>1, Layers DEF ThreadTypes
      <4> QED  BY <2>4, <4>1, Cursors DEF ReparentWake
    <3>4. pc' = pc \/ \E l \in Labels : pc' = [pc EXCEPT ![run[c]] = l]
      BY <2>4, Names DEF ReparentWake
    <3> QED  BY <2>4, <3>1, <3>2, <3>3, <3>4, Layers, SMTT(30) DEF ThreadTypes, ReparentWake
  <2>5. CASE ExitWake(c)
    <3>1. run[c] \in Procs
      BY <2>5, RunProc, Layers DEF ExitWake
    <3>2. \E i \in Procs : wcur' = [wcur EXCEPT ![run[c]] = i]
      <4>1. wcur[run[c]] \in Procs
        BY <3>1, Layers DEF ThreadTypes
      <4> QED  BY <2>5, <4>1, Cursors DEF ExitWake
    <3>3. pc' = pc \/ \E l \in Labels : pc' = [pc EXCEPT ![run[c]] = l]
      BY <2>5, Names DEF ExitWake
    <3> QED  BY <2>5, <3>1, <3>2, <3>3, Layers, SMTT(30) DEF ThreadTypes, ExitWake
  <2>6. CASE ExitZombie(c)
    BY <2>6, Consts, Names, Cursors, Layers, SMTT(30) DEF ThreadTypes, CPUTypes, ExitZombie
  <2> QED  BY <1>7, <2>1, <2>2, <2>3, <2>4, <2>5, <2>6 DEF ExitStep
<1>8. ASSUME NEW c \in CPU, KillStep(c)
      PROVE  ThreadTypes'
  <2>1. CASE KillNext(c)
    <3>1. run[c] \in Procs /\ cur[run[c]] \in Procs
      BY <2>1, RunProc, CursorHere, Layers DEF KillNext
    <3>2. CASE cur[run[c]] = NPROC
      BY <2>1, <3>1, <3>2, ReturnTypes, Layers DEF KillNext
    <3>3. CASE cur[run[c]] # NPROC
      <4>1. cur[run[c]] + 1 \in Slots
        BY <3>1, Cursors
      <4> QED  BY <2>1, <3>1, <3>3, <4>1, Layers DEF ThreadTypes, KillNext
    <3> QED  BY <3>2, <3>3
  <2>2. CASE KillHit(c)
    BY <2>2, RunProc, ReturnTypes, Layers DEF KillHit
  <2> QED  BY <1>8, <2>1, <2>2 DEF KillStep
<1>9. ASSUME NEW c \in CPU, TicksStep(c)
      PROVE  ThreadTypes'
  <2>1. CASE TicksEnter(c)
    BY <2>1, Names, TickRange, RunProc, Layers DEF ThreadTypes, ClockTypes,
     TicksEnter
  <2>2. CASE TicksReturn(c)
    BY <2>2, RunProc, ReturnTypes, Layers DEF TicksReturn
  <2>3. CASE TicksMore(c)
    BY <2>3, Consts, Names, Cursors, Layers DEF ThreadTypes, CPUTypes, TicksMore
  <2>4. CASE TicksSleep(c)
    BY <2>4, Consts, Names, Cursors, Layers DEF ThreadTypes, CPUTypes, TicksSleep,
     SleepOn
  <2>5. CASE TicksRelock(c)
    BY <2>5, Consts, Names, Cursors, Layers DEF ThreadTypes, CPUTypes, TicksRelock
  <2> QED  BY <1>9, <2>1, <2>2, <2>3, <2>4, <2>5 DEF TicksStep
<1>10. ASSUME NEW c \in CPU, UserStep(c)
      PROVE  ThreadTypes'
  <2>1. CASE SysFork(c)
    BY <2>1, Consts, Names, Cursors, Layers, SMTT(30) DEF ThreadTypes, CPUTypes, SysFork, SysCall
  <2>2. CASE SysWait(c)
    BY <2>2, Consts, Names, Cursors, Layers, SMTT(30) DEF ThreadTypes, CPUTypes, SysWait, SysCall
  <2>3. CASE SysExit(c)
    BY <2>3, Consts, Names, Cursors, ProcAssumption, Layers, SMTT(30) DEF ThreadTypes,
     CPUTypes, SysExit, SysCall
  <2>4. CASE SysKill(c)
    BY <2>4, Consts, Names, Cursors, ProcAssumption, Layers, SMTT(30) DEF ThreadTypes,
     CPUTypes, SysKill, SysCall
  <2>5. CASE SysSleep(c)
    BY <2>5, Consts, Names, Cursors, ProcAssumption, Layers, SMTT(30) DEF ThreadTypes,
     CPUTypes, SysSleep, SysCall
  <2>6. CASE UserFault(c)
    BY <2>6, Consts, Names, Cursors, Layers, SMTT(30) DEF ThreadTypes, CPUTypes, UserFault,
     ExitKilled
  <2> QED  BY <1>10, <2>1, <2>2, <2>3, <2>4, <2>5, <2>6 DEF UserStep
<1>11. ASSUME NEW c \in CPU, TimerIntr(c)
      PROVE  ThreadTypes'
  BY <1>11, Consts, Names, Cursors, Layers, SMTT(30) DEF ThreadTypes, CPUTypes, TimerIntr,
     TimerReturn, ExitKilled
<1>12. ASSUME Clock
      PROVE  ThreadTypes'
  <2>1. CASE ClockIntr
    BY <2>1, Layers DEF ThreadTypes, ClockIntr
  <2>2. CASE ClockWake
    BY <2>2, Layers DEF ThreadTypes, ClockWake
  <2>3. CASE ClockEnd
    <3>1. CASE run[0] = NULL
      BY <2>3, <3>1, Layers DEF ThreadTypes, ClockEnd
    <3>2. CASE run[0] # NULL
      BY <2>3, <3>2, Consts, Names, Cursors, Layers, SMTT(30) DEF ThreadTypes, ClockEnd,
         TimerReturn, ExitKilled
    <3> QED  BY <3>1, <3>2
  <2> QED  BY <1>12, <2>1, <2>2, <2>3 DEF Clock
<1> QED  BY <1>1, <1>2, <1>3, <1>4, <1>5, <1>6, <1>7, <1>8, <1>9, <1>10, <1>11, <1>12
            DEF Next, SysStep

-----------------------------------------------------------------------------
(* A thread that moves from label to label in the kernel, with the CPU and  *)
(* its locks as they are, disturbs nothing that layers 1 and 2 say of the   *)
(* other threads.                                                           *)
LEMMA CursorFrame ==
  ASSUME NEW p, CursorOK(p), pc'[p] = pc[p], rpc'[p] = rpc[p], cur'[p] = cur[p]
  PROVE  CursorOK(p)'
BY DEF CursorOK, Point

(* Who holds the lock of p depends only on the harts that execute p and on its label. *)
LEMMA LockFrame ==
  ASSUME NEW p, LockOK(p), pc'[p] = pc[p], plock'[p] = plock[p], UNCHANGED <<cproc, run>>
  PROVE  LockOK(p)'
BY DEF LockOK

(* A process is not disturbed if its state, its label and its hart stay as they are. *)
LEMMA StateFrame ==
  ASSUME NEW p, StateOK(p), pc'[p] = pc[p], state'[p] = state[p], UNCHANGED run
  PROVE  StateOK(p)'
BY DEF StateOK, OnCPU

(* A process whose p->lock is free and that is not RUNNING is on no hart.   *)
LEMMA OffCPU ==
  ASSUME CPUTypes, CPUInv, LockInv, StateInv, NoCPU \notin CPU,
         NEW p \in Procs, plock[p] = NoCPU, state[p] # "RUNNING"
  PROVE  ~OnCPU(p)
BY Consts, SMTT(30) DEF CPUTypes, CPUInv, LockInv, LockOK, StateInv, StateOK, OnCPU, SchedPoints,
   SelfHeld

(* Its thread has been switched out, and no hart is about to switch it.     *)
LEMMA AtRest ==
  ASSUME IInv, NEW p \in Procs, plock[p] = NoCPU, state[p] # "RUNNING"
  PROVE  pc[p] \in SelfHeld /\ \A c \in CPU : cproc[c] # p
<1>1. pc[p] \in SelfHeld
  BY Layers, OffCPU, Consts DEF StateInv, StateOK, SelfHeld
<1> QED  BY <1>1, Layers, Consts, SMTT(30) DEF LockInv, LockOK

(* The two ends of a timer interrupt: exit(-1) if killed in user space, or yield(). *)
LEMMA TimerCases ==
  ASSUME NEW c \in CPU, TimerReturn(c)
  PROVE  \/ /\ pc[run[c]] = "user" /\ ExitKilled(run[c]) /\ UNCHANGED <<state, plock>>
         \/ /\ plock[run[c]] = NoCPU
            /\ plock' = [plock EXCEPT ![run[c]] = c]
            /\ state' = [state EXCEPT ![run[c]] = "RUNNABLE"]
            /\ pc' = [pc EXCEPT ![run[c]] = "yield_sched"]
            /\ rpc' = [rpc EXCEPT ![run[c]] = pc[run[c]]]
            /\ UNCHANGED <<cur, wcur, arg, ticks0>>
BY DEF TimerReturn, NoCPU

(* A thread that holds no lock is outside the critical sections. *)
LEMMA UnlockedHere ==
  ASSUME IInv, NEW c \in CPU, run[c] \in Procs,
         plock[run[c]] # c, wait_lock # c, tickslock # c
  PROVE  pc[run[c]] \in Unlocked
<1>1. cproc[c] = run[c]
  BY Layers, Consts DEF CPUInv
<1>2. pc[run[c]] \notin SelfHeld
  BY <1>1, Layers, Consts DEF LockInv, LockOK
<1>3. pc[run[c]] \notin WaitHeld /\ pc[run[c]] \notin TicksHeld
  BY Layers, Consts DEF GlobalLockInv
<1>4. pc[run[c]] \in Labels
  BY Layers DEF ThreadTypes
<1> QED  BY <1>2, <1>3, <1>4 DEF Labels, SelfHeld, WaitHeld, TicksHeld, Unlocked

(* The end of a timer interrupt keeps the cursors, and saves a label outside the locks. *)
LEMMA TimerCursor ==
  ASSUME IInv, NEW c \in CPU, run[c] \in Procs, TimerReturn(c), pc[run[c]] \in Unlocked
  PROVE  CursorInv'
<1>1. ASSUME NEW q \in Procs, q # run[c]
      PROVE  CursorOK(q)'
  <2>1. pc'[q] = pc[q] /\ rpc'[q] = rpc[q] /\ cur'[q] = cur[q]
    BY <1>1, Layers, TimerCases DEF ThreadTypes, ExitKilled
  <2> QED  BY <2>1, Layers, CursorFrame DEF CursorInv
<1>2. ASSUME NEW q \in Procs, q = run[c]
      PROVE  CursorOK(q)'
  <2>1. CASE ExitKilled(run[c]) /\ pc[run[c]] = "user"
    BY <1>2, <2>1, Layers DEF ThreadTypes, CursorInv, CursorOK, Point, ExitKilled
  <2>2. CASE /\ pc' = [pc EXCEPT ![run[c]] = "yield_sched"]
             /\ rpc' = [rpc EXCEPT ![run[c]] = pc[run[c]]]
             /\ UNCHANGED cur
    BY <1>2, <2>2, Layers DEF ThreadTypes, CursorInv, CursorOK, Point, Unlocked
  <2> QED  BY <2>1, <2>2, TimerCases
<1> QED  BY <1>1, <1>2 DEF CursorInv

(* The cursor of a thread is a slot wherever the code uses it as one. *)
LEMMA CursorStep ==
  ASSUME IInv, Next
  PROVE  CursorInv'
<1>1. ASSUME NEW c \in CPU, Scheduler(c)
      PROVE  CursorInv'
  <2>1. CASE SchedRun(c)
    BY <2>1, Layers, Consts, Cursors DEF ThreadTypes, CPUTypes, CursorInv, CursorOK, Point,
       Unlocked, SchedRun, InScheduler
  <2>2. CASE SchedSkip(c)
    BY <2>2, Layers, Consts, Cursors DEF ThreadTypes, CPUTypes, CursorInv, CursorOK, Point,
       Unlocked, SchedSkip, InScheduler, Advance
  <2>3. CASE SchedBack(c)
    BY <2>3, Layers, Consts, Cursors DEF ThreadTypes, CPUTypes, CursorInv, CursorOK, Point,
       Unlocked, SchedBack, InScheduler, Advance
  <2> QED  BY <1>1, <2>1, <2>2, <2>3 DEF Scheduler
<1>2. ASSUME NEW c \in CPU, SwitchStep(c)
      PROVE  CursorInv'
  <2>1. CASE Sched(c)
    BY <2>1, Layers, Consts, Cursors DEF ThreadTypes, CPUTypes, CursorInv, CursorOK, Point,
       Unlocked, Sched, Resume, SchedPoints
  <2>2. CASE ForkRet(c)
    BY <2>2, Layers, Consts, Cursors DEF ThreadTypes, CPUTypes, CursorInv, CursorOK, Point,
       Unlocked, ForkRet
  <2>3. CASE YieldRet(c)
    BY <2>3, Layers, Consts, Cursors DEF ThreadTypes, CPUTypes, CursorInv, CursorOK, Point,
       Unlocked, YieldRet
  <2>4. CASE SleepRet(c)
    BY <2>4, Layers, Consts, Cursors DEF ThreadTypes, CPUTypes, CursorInv, CursorOK, Point,
       Unlocked, SleepRet
  <2> QED  BY <1>2, <2>1, <2>2, <2>3, <2>4 DEF SwitchStep
<1>3. ASSUME NEW c \in CPU, TrapRet(c)
      PROVE  CursorInv'
  BY <1>3, Layers, Consts, Cursors DEF ThreadTypes, CPUTypes, CursorInv, CursorOK, Point,
     Unlocked, TrapRet
<1>4. ASSUME NEW c \in CPU, TrapKilled(c)
      PROVE  CursorInv'
  BY <1>4, Layers, Consts, Cursors DEF ThreadTypes, CPUTypes, CursorInv, CursorOK, Point,
     Unlocked, TrapKilled, ExitKilled
<1>5. ASSUME NEW c \in CPU, ForkStep(c)
      PROVE  CursorInv'
  <2>1. CASE AllocNext(c)
    <3>1. run[c] \in Procs /\ cur[run[c]] \in Procs
      BY <2>1, Layers, RunProc, CursorHere DEF AllocNext
    <3>2. ASSUME NEW q \in Procs, q # run[c]
          PROVE  CursorOK(q)'
      BY <2>1, <3>1, <3>2, Layers, CursorFrame DEF ThreadTypes, CursorInv, AllocNext, Return
    <3>3. ASSUME NEW q \in Procs, q = run[c]
          PROVE  CursorOK(q)'
      BY <2>1, <3>1, <3>3, Layers, Cursors, SMTT(30) DEF ThreadTypes, CursorInv, CursorOK, Point,
         AllocNext, Return
    <3> QED  BY <3>2, <3>3 DEF CursorInv
  <2>2. CASE AllocFound(c)
    <3>1. run[c] \in Procs /\ cur[run[c]] \in Procs
      BY <2>2, Layers, RunProc, CursorHere DEF AllocFound
    <3>2. ASSUME NEW q \in Procs, q # run[c], q # cur[run[c]]
          PROVE  CursorOK(q)'
      BY <2>2, <3>1, <3>2, Layers, CursorFrame DEF ThreadTypes, CursorInv, AllocFound
    <3>3. pc[cur[run[c]]] \in {"forkret", "exit_ret"}
      BY <2>2, <3>1, Layers, OffCPU, Consts DEF StateInv, StateOK, AllocFound
    <3>4. ASSUME NEW q \in Procs, q = run[c] \/ q = cur[run[c]]
          PROVE  CursorOK(q)'
      BY <2>2, <3>1, <3>3, <3>4, Layers DEF ThreadTypes, CursorInv, CursorOK, Point,
         AllocFound
    <3> QED  BY <3>2, <3>4 DEF CursorInv
  <2>3. CASE AllocFail(c)
    BY <2>3, Layers, Consts, Cursors DEF ThreadTypes, CPUTypes, CursorInv, CursorOK, Point,
       Unlocked, AllocFail, Return, FreeProc
  <2>4. CASE ForkParent(c)
    BY <2>4, Layers, Consts, Cursors DEF ThreadTypes, CPUTypes, CursorInv, CursorOK, Point,
       Unlocked, ForkParent
  <2>5. CASE ForkRun(c)
    BY <2>5, Layers, Consts, Cursors DEF ThreadTypes, CPUTypes, CursorInv, CursorOK, Point,
       Unlocked, ForkRun, Return
  <2> QED  BY <1>5, <2>1, <2>2, <2>3, <2>4, <2>5 DEF ForkStep
<1>6. ASSUME NEW c \in CPU, WaitStep(c)
      PROVE  CursorInv'
  <2>1. CASE WaitLock(c)
    BY <2>1, Layers, Consts, Cursors DEF ThreadTypes, CPUTypes, CursorInv, CursorOK, Point,
       Unlocked, WaitLock
  <2>2. CASE WaitNext(c)
    BY <2>2, Layers, Consts, Cursors DEF ThreadTypes, CPUTypes, CursorInv, CursorOK, Point,
       Unlocked, WaitNext
  <2>3. CASE WaitReap(c)
    BY <2>3, Layers, Consts, Cursors DEF ThreadTypes, CPUTypes, CursorInv, CursorOK, Point,
       Unlocked, WaitReap, Return, FreeProc
  <2>4. CASE WaitBadAddr(c)
    BY <2>4, Layers, Consts, Cursors DEF ThreadTypes, CPUTypes, CursorInv, CursorOK, Point,
       Unlocked, WaitBadAddr, Return
  <2>5. CASE WaitGiveUp(c)
    BY <2>5, Layers, Consts, Cursors
       DEF ThreadTypes, CPUTypes, CursorInv, CursorOK, Point,
       Unlocked, WaitGiveUp, Return
  <2>6. CASE WaitMore(c)
    BY <2>6, Layers, Consts, Cursors DEF ThreadTypes, CPUTypes, CursorInv, CursorOK, Point,
       Unlocked, WaitMore
  <2>7. CASE WaitSleep(c)
    BY <2>7, Layers, Consts, Cursors DEF ThreadTypes, CPUTypes, CursorInv, CursorOK, Point,
       Unlocked, WaitSleep, SleepOn
  <2> QED  BY <1>6, <2>1, <2>2, <2>3, <2>4, <2>5, <2>6, <2>7 DEF WaitStep
<1>7. ASSUME NEW c \in CPU, ExitStep(c)
      PROVE  CursorInv'
  <2>1. CASE ExitPanic(c)
    BY <2>1, Layers, Consts, Cursors DEF ThreadTypes, CPUTypes, CursorInv, CursorOK, Point,
       Unlocked, ExitPanic
  <2>2. CASE ExitLock(c)
    BY <2>2, Layers, Consts, Cursors DEF ThreadTypes, CPUTypes, CursorInv, CursorOK, Point,
       Unlocked, ExitLock
  <2>3. CASE Reparent(c)
    BY <2>3, Layers, Consts, Cursors, SMTT(30)
       DEF ThreadTypes, CPUTypes, CursorInv, CursorOK, Point,
       Unlocked, Reparent
  <2>4. CASE ReparentWake(c)
    BY <2>4, Layers, Consts, Cursors, SMTT(30)
       DEF ThreadTypes, CPUTypes, CursorInv, CursorOK, Point,
       Unlocked, ReparentWake, WakeOne
  <2>5. CASE ExitWake(c)
    <3>1. run[c] \in Procs /\ pc[run[c]] = "exit_wake" /\ UNCHANGED <<rpc, cur>>
      BY <2>5, Layers, RunProc DEF ExitWake
    <3>2. CASE pc' = pc
      BY <3>1, <3>2, Layers, CursorFrame DEF CursorInv
    <3>3. CASE pc' = [pc EXCEPT ![run[c]] = "exit_zombie"]
      BY <3>1, <3>3, Layers DEF ThreadTypes, CursorInv, CursorOK, Point
    <3> QED  BY <2>5, <3>2, <3>3 DEF ExitWake
  <2>6. CASE ExitZombie(c)
    BY <2>6, Layers, Consts, Cursors DEF ThreadTypes, CPUTypes, CursorInv, CursorOK, Point,
       Unlocked, ExitZombie
  <2> QED  BY <1>7, <2>1, <2>2, <2>3, <2>4, <2>5, <2>6 DEF ExitStep
<1>8. ASSUME NEW c \in CPU, KillStep(c)
      PROVE  CursorInv'
  <2>1. CASE KillNext(c)
    <3>1. run[c] \in Procs /\ cur[run[c]] \in Procs
      BY <2>1, Layers, RunProc, CursorHere DEF KillNext
    <3>2. ASSUME NEW q \in Procs, q # run[c]
          PROVE  CursorOK(q)'
      BY <2>1, <3>1, <3>2, Layers, CursorFrame, SMTT(30)
         DEF ThreadTypes, CursorInv, KillNext, Return
    <3>3. ASSUME NEW q \in Procs, q = run[c]
          PROVE  CursorOK(q)'
      BY <2>1, <3>1, <3>3, Layers, Cursors, SMTT(30) DEF ThreadTypes, CursorInv, CursorOK, Point,
         KillNext, Return
    <3> QED  BY <3>2, <3>3 DEF CursorInv
  <2>2. CASE KillHit(c)
    BY <2>2, Layers, Consts, Cursors DEF ThreadTypes, CPUTypes, CursorInv, CursorOK, Point,
       Unlocked, KillHit, Return
  <2> QED  BY <1>8, <2>1, <2>2 DEF KillStep
<1>9. ASSUME NEW c \in CPU, TicksStep(c)
      PROVE  CursorInv'
  <2>1. CASE TicksEnter(c)
    BY <2>1, Layers, Consts, Cursors DEF ThreadTypes, CPUTypes, CursorInv, CursorOK, Point,
       Unlocked, TicksEnter
  <2>2. CASE TicksReturn(c)
    BY <2>2, Layers, Consts, Cursors DEF ThreadTypes, CPUTypes, CursorInv, CursorOK, Point,
       Unlocked, TicksReturn, Return
  <2>3. CASE TicksMore(c)
    BY <2>3, Layers, Consts, Cursors DEF ThreadTypes, CPUTypes, CursorInv, CursorOK, Point,
       Unlocked, TicksMore
  <2>4. CASE TicksSleep(c)
    BY <2>4, Layers, Consts, Cursors DEF ThreadTypes, CPUTypes, CursorInv, CursorOK, Point,
       Unlocked, TicksSleep, SleepOn
  <2>5. CASE TicksRelock(c)
    BY <2>5, Layers, Consts, Cursors DEF ThreadTypes, CPUTypes, CursorInv, CursorOK, Point,
       Unlocked, TicksRelock
  <2> QED  BY <1>9, <2>1, <2>2, <2>3, <2>4, <2>5 DEF TicksStep
<1>10. ASSUME NEW c \in CPU, UserStep(c)
      PROVE  CursorInv'
  <2>1. CASE SysFork(c)
    BY <2>1, Layers, Consts, Cursors DEF ThreadTypes, CPUTypes, CursorInv, CursorOK, Point,
       Unlocked, SysFork, SysCall
  <2>2. CASE SysWait(c)
    BY <2>2, Layers, Consts, Cursors DEF ThreadTypes, CPUTypes, CursorInv, CursorOK, Point,
       Unlocked, SysWait, SysCall
  <2>3. CASE SysExit(c)
    BY <2>3, Layers, Consts, Cursors, SMTT(30)
       DEF ThreadTypes, CPUTypes, CursorInv, CursorOK, Point,
       Unlocked, SysExit, SysCall
  <2>4. CASE SysKill(c)
    BY <2>4, Layers, Consts, Cursors, SMTT(30)
       DEF ThreadTypes, CPUTypes, CursorInv, CursorOK, Point,
       Unlocked, SysKill, SysCall
  <2>5. CASE SysSleep(c)
    BY <2>5, Layers, Consts, Cursors, SMTT(30)
       DEF ThreadTypes, CPUTypes, CursorInv, CursorOK, Point,
       Unlocked, SysSleep, SysCall
  <2>6. CASE UserFault(c)
    BY <2>6, Layers, Consts, Cursors DEF ThreadTypes, CPUTypes, CursorInv, CursorOK, Point,
       Unlocked, UserFault, ExitKilled
  <2> QED  BY <1>10, <2>1, <2>2, <2>3, <2>4, <2>5, <2>6 DEF UserStep
<1>11. ASSUME NEW c \in CPU, TimerIntr(c)
      PROVE  CursorInv'
  <2>1. run[c] \in Procs /\ plock[run[c]] # c /\ wait_lock # c /\ tickslock # c
    BY <1>11, Layers, RunProc DEF TimerIntr, IntrOn
  <2>2. pc[run[c]] \in Unlocked
    BY <2>1, Layers, UnlockedHere
  <2> QED  BY <1>11, <2>1, <2>2, TimerCursor DEF TimerIntr
<1>12. ASSUME Clock
      PROVE  CursorInv'
  <2>1. CASE ClockIntr
    BY <2>1, Layers, Consts, Cursors DEF ThreadTypes, CPUTypes, CursorInv, CursorOK, Point,
       Unlocked, ClockIntr
  <2>2. CASE ClockWake
    BY <2>2, Layers, Consts, Cursors DEF ThreadTypes, CPUTypes, CursorInv, CursorOK, Point,
       Unlocked, ClockWake, WakeOne
  <2>3. CASE ClockEnd
    <3>1. 0 \in CPU /\ (run[0] # NULL => run[0] \in Procs /\ pc[run[0]] \in Unlocked)
      BY <2>3, ClockEndHere
    <3>2. CASE run[0] = NULL
      BY <2>3, <3>2, Layers, CursorFrame DEF CursorInv, ClockEnd
    <3>3. CASE run[0] # NULL
      BY <2>3, <3>1, <3>3, TimerCursor DEF ClockEnd
    <3> QED  BY <3>2, <3>3
  <2> QED  BY <1>12, <2>1, <2>2, <2>3 DEF Clock
<1> QED  BY <1>1, <1>2, <1>3, <1>4, <1>5, <1>6, <1>7, <1>8, <1>9, <1>10, <1>11, <1>12
            DEF Next, SysStep

-----------------------------------------------------------------------------
(* Layer 2: who runs, who holds p->lock, and what state goes with a label. *)

(* Steps that leave the harts alone keep CPUInv. *)
LEMMA CPUFrame ==
  ASSUME CPUInv, UNCHANGED cpuVars
  PROVE  CPUInv'
BY DEF CPUInv

(* A hart executes its c->proc, and no other hart has it. *)
LEMMA CPUStep ==
  ASSUME IInv, Next
  PROVE  CPUInv'
<1>1. ASSUME NEW c \in CPU, Scheduler(c)
      PROVE  CPUInv'
  <2>1. CASE SchedRun(c)
    <3>1. ASSUME NEW d \in CPU
          PROVE  cproc[d] # scan[c]
      BY <2>1, Layers, AtRest DEF CPUTypes, SchedRun
    <3> QED  BY <2>1, <3>1, Layers, Consts DEF CPUTypes, CPUInv, SchedRun
  <2>2. CASE SchedSkip(c)
    BY <2>2, Layers, Consts, SMTT(30) DEF LockTypes, CPUTypes, CPUInv, LockInv, LockOK, SchedSkip,
       InScheduler, Advance
  <2>3. CASE SchedBack(c)
    BY <2>3, Layers, Consts, SMTT(30) DEF LockTypes, CPUTypes, CPUInv, LockInv, LockOK, SchedBack,
       InScheduler, Advance
  <2> QED  BY <1>1, <2>1, <2>2, <2>3 DEF Scheduler
<1>2. ASSUME NEW c \in CPU, SwitchStep(c)
      PROVE  CPUInv'
  <2>1. CASE Sched(c)
    BY <2>1, Layers, Consts, SMTT(30)
       DEF LockTypes, CPUTypes, CPUInv, LockInv, LockOK, Sched, Resume,
       SchedPoints
  <2>2. CASE ForkRet(c)
    BY <2>2, Layers, Consts DEF LockTypes, CPUTypes, CPUInv, LockInv, LockOK, ForkRet
  <2>3. CASE YieldRet(c)
    BY <2>3, Layers, Consts DEF LockTypes, CPUTypes, CPUInv, LockInv, LockOK, YieldRet
  <2>4. CASE SleepRet(c)
    BY <2>4, Layers, Consts DEF LockTypes, CPUTypes, CPUInv, LockInv, LockOK, SleepRet
  <2> QED  BY <1>2, <2>1, <2>2, <2>3, <2>4 DEF SwitchStep
<1>3. ASSUME NEW c \in CPU, TrapRet(c)
      PROVE  CPUInv'
  BY <1>3, Layers, CPUFrame DEF TrapRet
<1>4. ASSUME NEW c \in CPU, TrapKilled(c)
      PROVE  CPUInv'
  BY <1>4, Layers, CPUFrame DEF TrapKilled
<1>5. ASSUME NEW c \in CPU, ForkStep(c)
      PROVE  CPUInv'
  BY <1>5, Layers, CPUFrame DEF ForkStep, AllocNext, AllocFound, AllocFail, ForkParent,
     ForkRun
<1>6. ASSUME NEW c \in CPU, WaitStep(c)
      PROVE  CPUInv'
  BY <1>6, Layers, CPUFrame DEF WaitStep, WaitLock, WaitNext, WaitReap, WaitBadAddr,
     WaitGiveUp, WaitMore, WaitSleep, SleepOn
<1>7. ASSUME NEW c \in CPU, ExitStep(c)
      PROVE  CPUInv'
  BY <1>7, Layers, CPUFrame DEF ExitStep, ExitPanic, ExitLock, Reparent, ReparentWake,
     ExitWake, ExitZombie
<1>8. ASSUME NEW c \in CPU, KillStep(c)
      PROVE  CPUInv'
  BY <1>8, Layers, CPUFrame DEF KillStep, KillNext, KillHit
<1>9. ASSUME NEW c \in CPU, TicksStep(c)
      PROVE  CPUInv'
  BY <1>9, Layers, CPUFrame DEF TicksStep, TicksEnter, TicksReturn, TicksMore, TicksSleep,
     SleepOn, TicksRelock
<1>10. ASSUME NEW c \in CPU, UserStep(c)
      PROVE  CPUInv'
  BY <1>10, Layers, CPUFrame DEF UserStep, SysFork, SysCall, SysWait, SysExit, SysKill,
     SysSleep, UserFault
<1>11. ASSUME NEW c \in CPU, TimerIntr(c)
      PROVE  CPUInv'
  BY <1>11, Layers, CPUFrame DEF TimerIntr
<1>12. ASSUME Clock
      PROVE  CPUInv'
  BY <1>12, Layers, CPUFrame DEF Clock, ClockIntr, ClockWake, ClockEnd
<1> QED  BY <1>1, <1>2, <1>3, <1>4, <1>5, <1>6, <1>7, <1>8, <1>9, <1>10, <1>11, <1>12
            DEF Next, SysStep

(* The end of a timer interrupt takes p->lock, or leaves the locks alone. *)
LEMMA TimerLock ==
  ASSUME IInv, NEW c \in CPU, run[c] \in Procs, TimerReturn(c), UNCHANGED <<cproc, run>>
  PROVE  LockInv'
<1>1. ASSUME NEW q \in Procs, q # run[c]
      PROVE  LockOK(q)'
  <2>1. pc'[q] = pc[q] /\ plock'[q] = plock[q]
    BY <1>1, Layers, TimerCases, SMTT(30) DEF ThreadTypes, LockTypes, ExitKilled
  <2> QED  BY <2>1, Layers, LockFrame DEF LockInv
<1>2. ASSUME NEW q \in Procs, q = run[c]
      PROVE  LockOK(q)'
  <2>1. cproc[c] = q /\ \A d \in CPU : cproc[d] = q => d = c
    BY <1>2, Layers, Consts DEF CPUInv
  <2>2. CASE ExitKilled(run[c]) /\ pc[run[c]] = "user" /\ UNCHANGED plock
    BY <1>2, <2>1, <2>2, Layers DEF ThreadTypes, LockInv, LockOK, SelfHeld, ExitKilled
  <2>3. CASE /\ pc' = [pc EXCEPT ![run[c]] = "yield_sched"]
             /\ plock' = [plock EXCEPT ![run[c]] = c]
    BY <1>2, <2>1, <2>3, Layers DEF ThreadTypes, LockTypes, LockOK, SelfHeld
  <2> QED  BY <2>2, <2>3, TimerCases
<1> QED  BY <1>1, <1>2 DEF LockInv

(* Labels at which a thread does not hold its own p->lock. *)
LEMMA OutOfSelf ==
  \A l \in {"user", "trapret", "alloc", "fork_parent", "fork_run", "wait", "wait_scan", "wait_sleep",
            "exit", "reparent", "reparent_wake", "exit_wake", "exit_zombie", "kill", "ticks",
            "ticks_loop", "ticks_sleep", "ticks_relock", "panic"} : l \notin SelfHeld
BY DEF SelfHeld

(* A step inside the kernel that takes and drops no p->lock keeps them matched to the harts. *)
LEMMA LockMove ==
  ASSUME IInv, NEW c \in CPU, UNCHANGED <<plock, cproc, run>>,
         \A q \in Procs : pc'[q] = pc[q] \/ (pc[q] \notin SelfHeld /\ pc'[q] \notin SelfHeld)
  PROVE  LockInv'
<1> SUFFICES ASSUME NEW q \in Procs
             PROVE  LockOK(q)'
  BY DEF LockInv
<1>1. CASE pc'[q] = pc[q]
  BY <1>1, Layers, LockFrame DEF LockInv
<1>2. CASE pc[q] \notin SelfHeld /\ pc'[q] \notin SelfHeld
  BY <1>2, Layers DEF LockInv, LockOK
<1> QED  BY <1>1, <1>2

(* A step of the thread on hart c between two labels at which it does not hold its p->lock. *)
LEMMA LockGoto ==
  ASSUME IInv, NEW c \in CPU, NEW a, NEW b, At(c, a), UNCHANGED pc \/ Goto(run[c], b),
         UNCHANGED <<plock, cproc, run>>, a \notin SelfHeld, b \notin SelfHeld
  PROVE  LockInv'
<1>1. run[c] \in Procs
  BY Layers, RunProc
<1>2. \A q \in Procs : pc'[q] = pc[q] \/ (pc[q] = a /\ pc'[q] = b)
  BY <1>1, Layers DEF ThreadTypes
<1> QED  BY <1>2, LockMove

(* The process on hart c has c->proc, and no other hart has it. *)
LEMMA MyProc ==
  ASSUME IInv, NEW c \in CPU, run[c] # NULL
  PROVE  /\ run[c] \in Procs /\ cproc[c] = run[c]
         /\ \A d \in CPU : cproc[d] = run[c] => d = c
<1>1. run[c] \in Procs /\ cproc[c] = run[c]
  BY Layers, RunProc DEF CPUInv
<1> QED  BY <1>1, Layers, Consts DEF CPUInv

(* A thread that takes its own p->lock on the way to sched(). *)
LEMMA LockTake ==
  ASSUME IInv, NEW c \in CPU, run[c] # NULL, NEW b \in SelfHeld, Goto(run[c], b),
         plock' = [plock EXCEPT ![run[c]] = c], UNCHANGED <<cproc, run>>
  PROVE  LockInv'
<1>1. ASSUME NEW q \in Procs, q # run[c]
      PROVE  LockOK(q)'
  <2>1. pc'[q] = pc[q] /\ plock'[q] = plock[q]
    BY <1>1, Layers DEF ThreadTypes, LockTypes
  <2> QED  BY <2>1, Layers, LockFrame DEF LockInv
<1>2. ASSUME NEW q \in Procs, q = run[c]
      PROVE  LockOK(q)'
  <2>1. pc'[q] = b /\ plock'[q] = c
    BY <1>2, Layers DEF ThreadTypes, LockTypes
  <2> QED  BY <1>2, <2>1, MyProc DEF LockOK
<1> QED  BY <1>1, <1>2 DEF LockInv

(* A thread that is back from sched() and drops its own p->lock. *)
LEMMA LockDrop ==
  ASSUME IInv, NEW c \in CPU, run[c] # NULL, NEW b, b \notin SelfHeld, Goto(run[c], b),
         plock' = [plock EXCEPT ![run[c]] = NoCPU], UNCHANGED <<cproc, run>>
  PROVE  LockInv'
<1>1. ASSUME NEW q \in Procs, q # run[c]
      PROVE  LockOK(q)'
  <2>1. pc'[q] = pc[q] /\ plock'[q] = plock[q]
    BY <1>1, Layers DEF ThreadTypes, LockTypes
  <2> QED  BY <2>1, Layers, LockFrame DEF LockInv
<1>2. ASSUME NEW q \in Procs, q = run[c]
      PROVE  LockOK(q)'
  <2>1. pc'[q] = b /\ plock'[q] = NoCPU
    BY <1>2, Layers DEF ThreadTypes, LockTypes
  <2>2. \A d \in CPU : plock'[q] # d
    BY <2>1, Consts
  <2> QED  BY <1>2, <2>1, <2>2, MyProc, Layers, Consts DEF LockOK, CPUTypes
<1> QED  BY <1>1, <1>2 DEF LockInv

(* p->lock is held by the hart that switches to or from p. *)
LEMMA LockStep ==
  ASSUME IInv, Next
  PROVE  LockInv'
<1>1. ASSUME NEW c \in CPU, Scheduler(c)
      PROVE  LockInv'
  <2>1. CASE SchedRun(c)
    <3>1. ASSUME NEW q \in Procs, q # scan[c]
          PROVE  LockOK(q)'
      <4>1. plock'[q] = plock[q] /\ LockOK(q) /\ UNCHANGED pc
        BY <2>1, <3>1, Layers DEF LockTypes, LockInv, SchedRun
      <4>2. /\ cproc[c] # q /\ cproc'[c] # q
            /\ \A d \in CPU : d # c => cproc'[d] = cproc[d] /\ run'[d] = run[d]
        BY <2>1, <3>1, Layers, Consts DEF CPUTypes, SchedRun
      <4> QED  BY <4>1, <4>2 DEF LockOK
    <3>2. ASSUME NEW q \in Procs, q = scan[c]
          PROVE  LockOK(q)'
      <4>1. pc[q] \in SelfHeld /\ \A d \in CPU : cproc[d] # q
        BY <2>1, <3>2, AtRest DEF SchedRun
      <4> QED  BY <2>1, <3>2, <4>1, Layers, Consts DEF CPUTypes, LockTypes, LockOK, SchedRun
    <3> QED  BY <3>1, <3>2 DEF LockInv
  <2>2. CASE SchedSkip(c)
    BY <2>2, Layers, LockFrame DEF LockInv, SchedSkip
  <2>3. CASE SchedBack(c)
    <3>1. cproc[c] \in Procs /\ scan[c] = cproc[c] /\ run[c] = NULL
      BY <2>3, Layers DEF CPUTypes, CPUInv, SchedBack, InScheduler
    <3>2. \A d \in CPU : cproc[d] = cproc[c] => d = c
      BY <3>1, Layers, Consts DEF CPUInv
    <3>3. cproc'[c] = NULL /\ \A d \in CPU : d # c => cproc'[d] = cproc[d]
      BY <2>3, Layers DEF CPUTypes, SchedBack
    <3>4. ASSUME NEW q \in Procs, q # cproc[c]
          PROVE  LockOK(q)'
      <4>1. plock'[q] = plock[q]
        BY <2>3, <3>1, <3>4, Layers DEF LockTypes, SchedBack
      <4>2. LockOK(q) /\ UNCHANGED <<pc, run>>
        BY <2>3, Layers DEF LockInv, SchedBack
      <4> QED  BY <3>3, <3>4, <4>1, <4>2, Consts DEF LockOK
    <3>5. ASSUME NEW q \in Procs, q = cproc[c]
          PROVE  LockOK(q)'
      <4>1. plock'[q] = NoCPU
        BY <2>3, <3>1, <3>5, Layers DEF LockTypes, SchedBack
      <4> QED  BY <3>2, <3>3, <3>5, <4>1, Consts DEF LockOK
    <3> QED  BY <3>4, <3>5 DEF LockInv
  <2> QED  BY <1>1, <2>1, <2>2, <2>3 DEF Scheduler
<1>2. ASSUME NEW c \in CPU, SwitchStep(c)
      PROVE  LockInv'
  <2>1. CASE Sched(c)
    <3>1. run[c] # NULL /\ pc[run[c]] \in SelfHeld /\ UNCHANGED <<plock, cproc>>
      BY <2>1 DEF Sched, SchedPoints, SelfHeld
    <3>2. run'[c] = NULL /\ \A d \in CPU : d # c => run'[d] = run[d]
      BY <2>1, Layers DEF CPUTypes, Sched
    <3>3. ASSUME NEW q \in Procs, q # run[c]
          PROVE  LockOK(q)'
      <4>1. pc'[q] = pc[q] /\ LockOK(q) /\ cproc[c] # q
        BY <2>1, <3>1, <3>3, Layers, MyProc DEF ThreadTypes, LockInv, Sched
      <4> QED  BY <3>1, <3>2, <4>1 DEF LockOK
    <3>4. ASSUME NEW q \in Procs, q = run[c]
          PROVE  LockOK(q)'
      <4>1. pc[q] \in SelfHeld /\ \A d \in CPU : cproc[d] = q <=> d = c
        BY <3>1, <3>4, MyProc
      <4>2. LockOK(q)
        BY Layers DEF LockInv
      <4>3. \A d \in CPU : plock[q] = d <=> d = c
        BY <4>1, <4>2 DEF LockOK
      <4>4. \A d \in CPU : cproc'[d] = q /\ (run'[d] = NULL \/ pc'[q] \in SelfHeld) <=> d = c
        BY <3>1, <3>2, <4>1
      <4> QED  BY <3>1, <4>3, <4>4 DEF LockOK
    <3> QED  BY <3>3, <3>4 DEF LockInv
  <2>2. CASE ForkRet(c)
    BY <2>2, LockDrop, OutOfSelf DEF ForkRet
  <2>3. CASE YieldRet(c)
    <3>1. rpc[run[c]] \notin SelfHeld
      BY <2>3, Layers, RunProc DEF CursorInv, CursorOK, Unlocked, SelfHeld, YieldRet
    <3> QED  BY <2>3, <3>1, LockDrop DEF YieldRet
  <2>4. CASE SleepRet(c)
    <3>1. rpc[run[c]] \notin SelfHeld
      BY <2>4, Layers, RunProc DEF CursorInv, CursorOK, SelfHeld, SleepRet
    <3> QED  BY <2>4, <3>1, LockDrop DEF SleepRet
  <2> QED  BY <1>2, <2>1, <2>2, <2>3, <2>4 DEF SwitchStep
<1>3. ASSUME NEW c \in CPU, TrapRet(c)
      PROVE  LockInv'
  BY <1>3, LockGoto, OutOfSelf DEF TrapRet
<1>4. ASSUME NEW c \in CPU, TrapKilled(c)
      PROVE  LockInv'
  BY <1>4, LockGoto, OutOfSelf DEF TrapKilled, ExitKilled
<1>5. ASSUME NEW c \in CPU, ForkStep(c)
      PROVE  LockInv'
  <2>1. CASE AllocNext(c)
    BY <2>1, LockGoto, OutOfSelf DEF AllocNext, Return
  <2>2. CASE AllocFound(c)
    <3>1. run[c] \in Procs /\ cur[run[c]] \in Procs /\ run[c] # cur[run[c]]
      BY <2>2, Layers, RunProc, CursorHere, OffCPU, Consts DEF OnCPU, AllocFound
    <3>2. ASSUME NEW q \in Procs, q # run[c], q # cur[run[c]]
          PROVE  LockOK(q)'
      BY <2>2, <3>1, <3>2, Layers, LockFrame DEF ThreadTypes, LockInv, AllocFound
    <3>3. ASSUME NEW q \in Procs, q = cur[run[c]]
          PROVE  LockOK(q)'
      <4>1. pc[q] \in SelfHeld
        BY <2>2, <3>3, AtRest DEF AllocFound
      <4>2. pc'[q] \in SelfHeld /\ UNCHANGED <<plock, cproc, run>>
        BY <2>2, <3>1, <3>3, Layers DEF ThreadTypes, SelfHeld, AllocFound
      <4> QED  BY <4>1, <4>2, Layers DEF LockInv, LockOK
    <3>4. ASSUME NEW q \in Procs, q = run[c]
          PROVE  LockOK(q)'
      BY <2>2, <3>1, <3>4, Layers
         DEF ThreadTypes, LockInv, LockOK, SelfHeld, AllocFound
    <3> QED  BY <3>2, <3>3, <3>4 DEF LockInv
  <2>3. CASE AllocFail(c)
    BY <2>3, LockGoto, OutOfSelf DEF AllocFail, Return
  <2>4. CASE ForkParent(c)
    BY <2>4, LockGoto, OutOfSelf DEF ForkParent
  <2>5. CASE ForkRun(c)
    BY <2>5, LockGoto, OutOfSelf DEF ForkRun, Return
  <2> QED  BY <1>5, <2>1, <2>2, <2>3, <2>4, <2>5 DEF ForkStep
<1>6. ASSUME NEW c \in CPU, WaitStep(c)
      PROVE  LockInv'
  <2>1. CASE WaitLock(c)
    BY <2>1, LockGoto, OutOfSelf DEF WaitLock
  <2>2. CASE WaitNext(c)
    BY <2>2, LockGoto, OutOfSelf DEF WaitNext
  <2>3. CASE WaitReap(c)
    BY <2>3, LockGoto, OutOfSelf DEF WaitReap, Return
  <2>4. CASE WaitBadAddr(c)
    BY <2>4, LockGoto, OutOfSelf DEF WaitBadAddr, Return
  <2>5. CASE WaitGiveUp(c)
    BY <2>5, LockGoto, OutOfSelf DEF WaitGiveUp, Return
  <2>6. CASE WaitMore(c)
    BY <2>6, LockGoto, OutOfSelf DEF WaitMore
  <2>7. CASE WaitSleep(c)
    BY <2>7, LockTake DEF SelfHeld, WaitSleep, SleepOn
  <2> QED  BY <1>6, <2>1, <2>2, <2>3, <2>4, <2>5, <2>6, <2>7 DEF WaitStep
<1>7. ASSUME NEW c \in CPU, ExitStep(c)
      PROVE  LockInv'
  <2>1. CASE ExitPanic(c)
    BY <2>1, LockGoto, OutOfSelf DEF ExitPanic
  <2>2. CASE ExitLock(c)
    BY <2>2, LockGoto, OutOfSelf DEF ExitLock
  <2>3. CASE Reparent(c)
    BY <2>3, LockGoto, OutOfSelf DEF Reparent
  <2>4. CASE ReparentWake(c)
    BY <2>4, LockGoto, OutOfSelf DEF ReparentWake
  <2>5. CASE ExitWake(c)
    BY <2>5, LockGoto, OutOfSelf DEF ExitWake
  <2>6. CASE ExitZombie(c)
    BY <2>6, LockTake DEF SelfHeld, ExitZombie
  <2> QED  BY <1>7, <2>1, <2>2, <2>3, <2>4, <2>5, <2>6 DEF ExitStep
<1>8. ASSUME NEW c \in CPU, KillStep(c)
      PROVE  LockInv'
  <2>1. CASE KillNext(c)
    BY <2>1, LockGoto, OutOfSelf DEF KillNext, Return
  <2>2. CASE KillHit(c)
    BY <2>2, LockGoto, OutOfSelf DEF KillHit, Return
  <2> QED  BY <1>8, <2>1, <2>2 DEF KillStep
<1>9. ASSUME NEW c \in CPU, TicksStep(c)
      PROVE  LockInv'
  <2>1. CASE TicksEnter(c)
    BY <2>1, LockGoto, OutOfSelf DEF TicksEnter
  <2>2. CASE TicksReturn(c)
    BY <2>2, LockGoto, OutOfSelf DEF TicksReturn, Return
  <2>3. CASE TicksMore(c)
    BY <2>3, LockGoto, OutOfSelf DEF TicksMore
  <2>4. CASE TicksSleep(c)
    BY <2>4, LockTake DEF SelfHeld, TicksSleep, SleepOn
  <2>5. CASE TicksRelock(c)
    BY <2>5, LockGoto, OutOfSelf DEF TicksRelock
  <2> QED  BY <1>9, <2>1, <2>2, <2>3, <2>4, <2>5 DEF TicksStep
<1>10. ASSUME NEW c \in CPU, UserStep(c)
      PROVE  LockInv'
  <2>1. CASE SysFork(c)
    BY <2>1, LockGoto, OutOfSelf DEF SysFork, SysCall
  <2>2. CASE SysWait(c)
    BY <2>2, LockGoto, OutOfSelf DEF SysWait, SysCall
  <2>3. CASE SysExit(c)
    BY <2>3, LockGoto, OutOfSelf DEF SysExit, SysCall
  <2>4. CASE SysKill(c)
    BY <2>4, LockGoto, OutOfSelf DEF SysKill, SysCall
  <2>5. CASE SysSleep(c)
    BY <2>5, LockGoto, OutOfSelf DEF SysSleep, SysCall
  <2>6. CASE UserFault(c)
    BY <2>6, LockGoto, OutOfSelf DEF UserFault, ExitKilled
  <2> QED  BY <1>10, <2>1, <2>2, <2>3, <2>4, <2>5, <2>6 DEF UserStep
<1>11. ASSUME NEW c \in CPU, TimerIntr(c)
      PROVE  LockInv'
  BY <1>11, Layers, RunProc, TimerLock DEF TimerIntr
<1>12. ASSUME Clock
      PROVE  LockInv'
  <2>1. CASE ClockIntr
    BY <2>1, Layers, LockFrame DEF LockInv, ClockIntr
  <2>2. CASE ClockWake
    BY <2>2, Layers, LockFrame DEF LockInv, ClockWake
  <2>3. CASE ClockEnd
    <3>1. 0 \in CPU /\ (run[0] # NULL => run[0] \in Procs)
      BY <2>3, ClockEndHere
    <3>2. CASE run[0] = NULL
      BY <2>3, <3>2, Layers, LockFrame DEF LockInv, ClockEnd
    <3>3. CASE run[0] # NULL
      BY <2>3, <3>1, <3>3, TimerLock DEF ClockEnd
    <3> QED  BY <3>2, <3>3
  <2> QED  BY <1>12, <2>1, <2>2, <2>3 DEF Clock
<1> QED  BY <1>1, <1>2, <1>3, <1>4, <1>5, <1>6, <1>7, <1>8, <1>9, <1>10, <1>11, <1>12
            DEF Next, SysStep

-----------------------------------------------------------------------------
(* A step inside the kernel, which may also wake sleeping processes under   *)
(* their p->lock, keeps the states in step with the labels.                 *)
LEMMA StateMove ==
  ASSUME IInv, NEW c \in CPU, UNCHANGED run,
         \A q \in Procs : state'[q] = state[q] \/ (/\ state[q] = "SLEEPING" /\ plock[q] = NoCPU
                                                 /\ state'[q] = "RUNNABLE"),
         \A q \in Procs : pc'[q] = pc[q] \/ (/\ q = run[c] /\ pc[q] \notin SchedPoints
                                           /\ pc'[q] \notin SchedPoints /\ pc'[q] # "exit_ret")
  PROVE  StateInv'
<1> SUFFICES ASSUME NEW q \in Procs
             PROVE  StateOK(q)'
  BY DEF StateInv
<1>1. CASE state'[q] = state[q] /\ pc'[q] = pc[q]
  BY <1>1, Layers, StateFrame DEF StateInv
<1>2. CASE state'[q] = state[q] /\ pc'[q] # pc[q]
  <2>1. OnCPU(q) /\ OnCPU(q)' /\ pc'[q] \notin SchedPoints /\ pc'[q] # "exit_ret"
    BY <1>2 DEF OnCPU
  <2>2. state[q] = "RUNNING"
    BY <1>2, <2>1, Layers DEF StateInv, StateOK
  <2> QED  BY <1>2, <2>1, <2>2 DEF StateOK, SchedPoints
<1>3. CASE state[q] = "SLEEPING" /\ plock[q] = NoCPU /\ state'[q] = "RUNNABLE"
  <2>1. ~OnCPU(q)
    BY <1>3, Layers, OffCPU, Consts
  <2>2. pc'[q] = pc[q] /\ pc[q] = "sleep_ret" /\ ~OnCPU(q)'
    BY <1>3, <2>1, Layers DEF StateInv, StateOK, OnCPU
  <2> QED  BY <1>3, <2>2 DEF StateOK
<1> QED  BY <1>1, <1>2, <1>3

(* Labels at which a thread is not inside sched(). *)
LEMMA OutOfSched ==
  \A l \in {"user", "trapret", "alloc", "fork_parent", "fork_run", "wait", "wait_scan", "wait_sleep",
            "exit", "reparent", "reparent_wake", "exit_wake", "exit_zombie", "kill", "ticks",
            "ticks_loop", "ticks_sleep", "ticks_relock", "panic"} :
    l \notin SchedPoints /\ l # "exit_ret"
BY DEF SchedPoints

(* A step of the thread on hart c between two labels outside sched(). *)
LEMMA StateGoto ==
  ASSUME IInv, NEW c \in CPU, NEW a, NEW b, At(c, a), Goto(run[c], b), UNCHANGED <<run, state>>,
         a \notin SchedPoints, b \notin SchedPoints, b # "exit_ret"
  PROVE  StateInv'
<1>1. run[c] \in Procs
  BY Layers, RunProc
<1>2. \A q \in Procs : pc'[q] = pc[q] \/ (q = run[c] /\ pc[q] = a /\ pc'[q] = b)
  BY <1>1, Layers DEF ThreadTypes
<1> QED  BY <1>2, StateMove

(* A thread that sets its own state on the way to sched(). *)
LEMMA StatePark ==
  ASSUME IInv, NEW c \in CPU, run[c] # NULL, UNCHANGED run, NEW b, NEW s, Goto(run[c], b),
         state' = [state EXCEPT ![run[c]] = s],
         \/ b = "yield_sched" /\ s = "RUNNABLE"
         \/ b = "sleep_sched" /\ s = "SLEEPING"
         \/ b = "exit_sched" /\ s = "ZOMBIE"
  PROVE  StateInv'
<1>1. ASSUME NEW q \in Procs, q # run[c]
      PROVE  StateOK(q)'
  <2>1. pc'[q] = pc[q] /\ state'[q] = state[q]
    BY <1>1, Layers DEF ThreadTypes, ProcTypes
  <2> QED  BY <2>1, Layers, StateFrame DEF StateInv
<1>2. ASSUME NEW q \in Procs, q = run[c]
      PROVE  StateOK(q)'
  <2>1. pc'[q] = b /\ state'[q] = s /\ OnCPU(q)'
    BY <1>2, Layers DEF ThreadTypes, ProcTypes, OnCPU
  <2> QED  BY <2>1 DEF StateOK, SchedPoints
<1> QED  BY <1>1, <1>2 DEF StateInv

(* The end of a timer interrupt: in user space or in yield(). *)
LEMMA TimerState ==
  ASSUME IInv, NEW c \in CPU, run[c] \in Procs, TimerReturn(c), UNCHANGED run
  PROVE  StateInv'
<1>1. CASE ExitKilled(run[c]) /\ pc[run[c]] = "user" /\ UNCHANGED state
  BY <1>1, Layers, StateMove DEF ThreadTypes, SchedPoints, ExitKilled
<1>2. CASE /\ pc' = [pc EXCEPT ![run[c]] = "yield_sched"]
           /\ state' = [state EXCEPT ![run[c]] = "RUNNABLE"]
  BY <1>2, Consts, StatePark
<1> QED  BY <1>1, <1>2, TimerCases

(* The state of a process goes with the label of its thread. *)
LEMMA StateStep ==
  ASSUME IInv, Next
  PROVE  StateInv'
<1>1. ASSUME NEW c \in CPU, Scheduler(c)
      PROVE  StateInv'
  <2>1. CASE SchedRun(c)
    <3>1. run'[c] = scan[c] /\ \A d \in CPU : d # c => run'[d] = run[d]
      BY <2>1, Layers DEF CPUTypes, SchedRun
    <3>2. ASSUME NEW q \in Procs, q # scan[c]
          PROVE  StateOK(q)'
      <4>1. state'[q] = state[q] /\ pc'[q] = pc[q] /\ run[c] # q
        BY <2>1, <3>2, Layers, Consts DEF ProcTypes, SchedRun, InScheduler
      <4>2. OnCPU(q)' <=> OnCPU(q)
        BY <3>1, <3>2, <4>1 DEF OnCPU
      <4> QED  BY <4>1, <4>2, Layers DEF StateInv, StateOK
    <3>3. ASSUME NEW q \in Procs, q = scan[c]
          PROVE  StateOK(q)'
      <4>1. plock[q] = NoCPU /\ state[q] = "RUNNABLE" /\ pc'[q] = pc[q] /\ state'[q] = "RUNNING"
        BY <2>1, <3>3, Layers DEF ProcTypes, SchedRun
      <4>2. ~OnCPU(q) /\ OnCPU(q)'
        BY <3>1, <3>3, <4>1, Layers, OffCPU, Consts DEF OnCPU
      <4>3. pc[q] \in {"forkret", "yield_ret", "sleep_ret"}
        BY <4>1, <4>2, Layers DEF StateInv, StateOK
      <4> QED  BY <4>1, <4>2, <4>3 DEF StateOK, SchedPoints
    <3> QED  BY <3>2, <3>3 DEF StateInv
  <2>2. CASE SchedSkip(c)
    BY <2>2, Layers, StateFrame DEF StateInv, SchedSkip
  <2>3. CASE SchedBack(c)
    BY <2>3, Layers, StateFrame DEF StateInv, SchedBack
  <2> QED  BY <1>1, <2>1, <2>2, <2>3 DEF Scheduler
<1>2. ASSUME NEW c \in CPU, SwitchStep(c)
      PROVE  StateInv'
  <2>1. CASE Sched(c)
    <3>1. run'[c] = NULL /\ (\A d \in CPU : d # c => run'[d] = run[d]) /\ UNCHANGED state
      BY <2>1, Layers DEF CPUTypes, Sched
    <3>2. ASSUME NEW q \in Procs, q # run[c]
          PROVE  StateOK(q)'
      <4>1. pc'[q] = pc[q]
        BY <2>1, <3>2, Layers DEF ThreadTypes, Sched
      <4>2. OnCPU(q)' <=> OnCPU(q)
        BY <3>1, <3>2, Consts DEF OnCPU
      <4> QED  BY <3>1, <4>1, <4>2, Layers DEF StateInv, StateOK
    <3>3. ASSUME NEW q \in Procs, q = run[c]
          PROVE  StateOK(q)'
      <4>1. OnCPU(q) /\ pc[q] \in SchedPoints /\ pc'[q] = Resume(pc[q])
        BY <2>1, <3>3, Layers DEF ThreadTypes, OnCPU, Sched
      <4>2. ~OnCPU(q)'
        <5>1. \A d \in CPU : run[d] = q => d = c
          BY <3>3, MyProc, Layers, Consts DEF CPUInv
        <5> QED  BY <3>1, <5>1, Consts DEF OnCPU
      <4>3. \/ state[q] = "RUNNABLE" /\ pc'[q] = "yield_ret"
            \/ state[q] = "SLEEPING" /\ pc'[q] = "sleep_ret"
            \/ state[q] = "ZOMBIE" /\ pc'[q] = "exit_ret"
        BY <4>1, Layers DEF StateInv, StateOK, SchedPoints, Resume
      <4> QED  BY <3>1, <4>2, <4>3 DEF StateOK
    <3> QED  BY <3>2, <3>3 DEF StateInv
  <2>2. CASE ForkRet(c)
    BY <2>2, StateGoto, OutOfSched DEF ForkRet, SchedPoints
  <2>3. CASE YieldRet(c)
    <3>1. rpc[run[c]] \in Unlocked
      BY <2>3, Layers, RunProc DEF CursorInv, CursorOK, YieldRet
    <3>2. rpc[run[c]] \notin SchedPoints /\ rpc[run[c]] # "exit_ret"
      BY <3>1 DEF Unlocked, SchedPoints
    <3>3. "yield_ret" \notin SchedPoints
      BY DEF SchedPoints
    <3> QED  BY <2>3, <3>2, <3>3, StateGoto DEF YieldRet
  <2>4. CASE SleepRet(c)
    <3>1. rpc[run[c]] \in {"wait", "ticks_relock"}
      BY <2>4, Layers, RunProc DEF CursorInv, CursorOK, SleepRet
    <3>2. rpc[run[c]] \notin SchedPoints /\ rpc[run[c]] # "exit_ret"
      BY <3>1, OutOfSched
    <3>3. "sleep_ret" \notin SchedPoints
      BY DEF SchedPoints
    <3> QED  BY <2>4, <3>2, <3>3, StateGoto DEF SleepRet
  <2> QED  BY <1>2, <2>1, <2>2, <2>3, <2>4 DEF SwitchStep
<1>3. ASSUME NEW c \in CPU, TrapRet(c)
      PROVE  StateInv'
  BY <1>3, StateGoto, OutOfSched DEF TrapRet
<1>4. ASSUME NEW c \in CPU, TrapKilled(c)
      PROVE  StateInv'
  BY <1>4, StateGoto, OutOfSched DEF TrapKilled, ExitKilled
<1>5. ASSUME NEW c \in CPU, ForkStep(c)
      PROVE  StateInv'
  <2>1. CASE AllocNext(c)
    BY <2>1, Layers, StateMove, RunProc DEF ProcTypes, CPUTypes, ThreadTypes, SchedPoints,
       AllocNext, Return
  <2>2. CASE AllocFound(c)
    <3>1. run[c] \in Procs /\ cur[run[c]] \in Procs
      BY <2>2, Layers, RunProc, CursorHere DEF AllocFound
    <3>2. ~OnCPU(cur[run[c]])
      BY <2>2, <3>1, Layers, OffCPU, Consts DEF AllocFound
    <3>3. ASSUME NEW q \in Procs, q # run[c], q # cur[run[c]]
          PROVE  StateOK(q)'
      BY <2>2, <3>1, <3>3, Layers, StateFrame
         DEF ProcTypes, ThreadTypes, StateInv, AllocFound
    <3>4. ASSUME NEW q \in Procs, q = run[c]
          PROVE  StateOK(q)'
      BY <2>2, <3>1, <3>2, <3>4, Layers
         DEF ProcTypes, CPUTypes, ThreadTypes, SchedPoints,
         StateInv, StateOK, OnCPU, AllocFound
    <3>5. ASSUME NEW q \in Procs, q = cur[run[c]]
          PROVE  StateOK(q)'
      <4>1. q # run[c] /\ ~OnCPU(q)'
        BY <2>2, <3>2, <3>5 DEF OnCPU, AllocFound
      <4>2. state'[q] = "USED" /\ pc'[q] = "forkret"
        BY <2>2, <3>1, <3>5, <4>1, Layers DEF ProcTypes, ThreadTypes, AllocFound
      <4> QED  BY <4>1, <4>2 DEF StateOK
    <3> QED  BY <3>3, <3>4, <3>5 DEF StateInv
  <2>3. CASE AllocFail(c)
    <3>1. run[c] \in Procs /\ cur[run[c]] \in Procs
      BY <2>3, Layers, RunProc, CursorHere DEF AllocFail
    <3>2. ~OnCPU(cur[run[c]])
      BY <2>3, <3>1, Layers, OffCPU, Consts DEF AllocFail
    <3>3. ASSUME NEW q \in Procs, q # run[c], q # cur[run[c]]
          PROVE  StateOK(q)'
      BY <2>3, <3>1, <3>3, Layers, StateFrame
         DEF ProcTypes, ThreadTypes, StateInv, AllocFail,
         Return, FreeProc
    <3>4. ASSUME NEW q \in Procs, q = run[c]
          PROVE  StateOK(q)'
      BY <2>3, <3>1, <3>2, <3>4, Layers
         DEF ProcTypes, CPUTypes, ThreadTypes, SchedPoints,
         StateInv, StateOK, OnCPU, AllocFail, Return, FreeProc
    <3>5. ASSUME NEW q \in Procs, q = cur[run[c]]
          PROVE  StateOK(q)'
      <4>1. q # run[c] /\ ~OnCPU(q)'
        BY <2>3, <3>2, <3>5 DEF OnCPU, AllocFail
      <4>2. state'[q] = "UNUSED" /\ pc'[q] = pc[q]
        BY <2>3, <3>1, <3>5, <4>1, Layers DEF ProcTypes, ThreadTypes, AllocFail, Return, FreeProc
      <4>3. pc[q] \in {"forkret", "exit_ret"}
        BY <2>3, <3>1, <3>2, <3>5, Layers DEF StateInv, StateOK, AllocFail
      <4> QED  BY <4>1, <4>2, <4>3 DEF StateOK
    <3> QED  BY <3>3, <3>4, <3>5 DEF StateInv
  <2>4. CASE ForkParent(c)
    BY <2>4, StateGoto, OutOfSched DEF ForkParent
  <2>5. CASE ForkRun(c)
    <3>1. run[c] \in Procs /\ cur[run[c]] \in Procs /\ state[cur[run[c]]] = "USED"
      BY <2>5, Layers, RunProc, CursorHere, Consts DEF StateInv, StateOK, OnCPU,
         ForkInv, Forking, Point, Live, SchedPoints, ForkRun
    <3>2. ~OnCPU(cur[run[c]])
      BY <2>5, <3>1, Layers, OffCPU, Consts DEF ForkRun
    <3>3. ASSUME NEW q \in Procs, q # run[c], q # cur[run[c]]
          PROVE  StateOK(q)'
      BY <2>5, <3>1, <3>3, Layers, StateFrame DEF ProcTypes, ThreadTypes, StateInv, ForkRun,
         Return
    <3>4. ASSUME NEW q \in Procs, q = run[c]
          PROVE  StateOK(q)'
      BY <2>5, <3>1, <3>2, <3>4, Layers
         DEF ProcTypes, CPUTypes, ThreadTypes, SchedPoints,
         StateInv, StateOK, OnCPU, ForkRun, Return
    <3>5. ASSUME NEW q \in Procs, q = cur[run[c]]
          PROVE  StateOK(q)'
      <4>1. q # run[c] /\ ~OnCPU(q)'
        BY <2>5, <3>2, <3>5 DEF OnCPU, ForkRun
      <4>2. state'[q] = "RUNNABLE" /\ pc'[q] = pc[q]
        BY <2>5, <3>1, <3>5, <4>1, Layers DEF ProcTypes, ThreadTypes, ForkRun, Return
      <4>3. pc[q] \in {"forkret"}
        BY <2>5, <3>1, <3>2, <3>5, Layers DEF StateInv, StateOK, ForkRun
      <4> QED  BY <4>1, <4>2, <4>3 DEF StateOK
    <3> QED  BY <3>3, <3>4, <3>5 DEF StateInv
  <2> QED  BY <1>5, <2>1, <2>2, <2>3, <2>4, <2>5 DEF ForkStep
<1>6. ASSUME NEW c \in CPU, WaitStep(c)
      PROVE  StateInv'
  <2>1. CASE WaitLock(c)
    BY <2>1, StateGoto, OutOfSched DEF WaitLock
  <2>2. CASE WaitNext(c)
    BY <2>2, Layers, StateMove, RunProc DEF ProcTypes, CPUTypes, ThreadTypes, SchedPoints,
       WaitNext
  <2>3. CASE WaitReap(c)
    <3>1. run[c] \in Procs /\ cur[run[c]] \in Procs
      BY <2>3, Layers, RunProc DEF WaitReap
    <3>2. ~OnCPU(cur[run[c]])
      BY <2>3, <3>1, Layers, OffCPU, Consts DEF WaitReap
    <3>3. ASSUME NEW q \in Procs, q # run[c], q # cur[run[c]]
          PROVE  StateOK(q)'
      BY <2>3, <3>1, <3>3, Layers, StateFrame
         DEF ProcTypes, ThreadTypes, StateInv, WaitReap,
         Return, FreeProc
    <3>4. ASSUME NEW q \in Procs, q = run[c]
          PROVE  StateOK(q)'
      <4>1. q # cur[run[c]] /\ OnCPU(q) /\ OnCPU(q)' /\ pc[q] = "wait_scan"
        BY <2>3, <3>2, <3>4 DEF OnCPU, WaitReap
      <4>2. state'[q] = state[q] /\ pc'[q] = "trapret"
        BY <2>3, <3>1, <3>4, <4>1, Layers DEF ProcTypes, ThreadTypes, WaitReap, Return, FreeProc
      <4>3. state[q] = "RUNNING"
        BY <4>1, Layers DEF StateInv, StateOK, SchedPoints
      <4> QED  BY <4>1, <4>2, <4>3 DEF StateOK, SchedPoints
    <3>5. ASSUME NEW q \in Procs, q = cur[run[c]]
          PROVE  StateOK(q)'
      <4>1. q # run[c] /\ ~OnCPU(q)'
        BY <2>3, <3>2, <3>5 DEF OnCPU, WaitReap
      <4>2. state'[q] = "UNUSED" /\ pc'[q] = pc[q]
        BY <2>3, <3>1, <3>5, <4>1, Layers DEF ProcTypes, ThreadTypes, WaitReap, Return, FreeProc
      <4>3. pc[q] \in {"exit_ret"}
        BY <2>3, <3>1, <3>2, <3>5, Layers DEF StateInv, StateOK, WaitReap
      <4> QED  BY <4>1, <4>2, <4>3 DEF StateOK
    <3> QED  BY <3>3, <3>4, <3>5 DEF StateInv
  <2>4. CASE WaitBadAddr(c)
    BY <2>4, StateGoto, OutOfSched DEF WaitBadAddr, Return
  <2>5. CASE WaitGiveUp(c)
    BY <2>5, StateGoto, OutOfSched DEF WaitGiveUp, Return
  <2>6. CASE WaitMore(c)
    BY <2>6, StateGoto, OutOfSched DEF WaitMore
  <2>7. CASE WaitSleep(c)
    BY <2>7, StatePark DEF WaitSleep, SleepOn
  <2> QED  BY <1>6, <2>1, <2>2, <2>3, <2>4, <2>5, <2>6, <2>7 DEF WaitStep
<1>7. ASSUME NEW c \in CPU, ExitStep(c)
      PROVE  StateInv'
  <2>1. CASE ExitPanic(c)
    BY <2>1, StateGoto, OutOfSched DEF ExitPanic
  <2>2. CASE ExitLock(c)
    BY <2>2, StateGoto, OutOfSched DEF ExitLock
  <2>3. CASE Reparent(c)
    BY <2>3, Layers, StateMove, RunProc DEF ProcTypes, CPUTypes, ThreadTypes, SchedPoints,
       Reparent
  <2>4. CASE ReparentWake(c)
    <3>1. run[c] \in Procs /\ wcur[run[c]] \in Procs
      BY <2>4, Layers, RunProc DEF ThreadTypes, ReparentWake
    <3> QED
      BY <2>4, <3>1, Layers, StateMove, RunProc DEF ProcTypes, CPUTypes, ThreadTypes,
         SchedPoints, ReparentWake, WakeOne
  <2>5. CASE ExitWake(c)
    <3>1. run[c] \in Procs /\ wcur[run[c]] \in Procs
      BY <2>5, Layers, RunProc DEF ThreadTypes, ExitWake
    <3> QED
      BY <2>5, <3>1, Layers, StateMove, RunProc DEF ProcTypes, CPUTypes, ThreadTypes,
         SchedPoints, ExitWake, WakeOne
  <2>6. CASE ExitZombie(c)
    BY <2>6, StatePark DEF ExitZombie
  <2> QED  BY <1>7, <2>1, <2>2, <2>3, <2>4, <2>5, <2>6 DEF ExitStep
<1>8. ASSUME NEW c \in CPU, KillStep(c)
      PROVE  StateInv'
  <2>1. CASE KillNext(c)
    BY <2>1, Layers, StateMove, RunProc DEF ProcTypes, CPUTypes, ThreadTypes, SchedPoints,
       KillNext, Return
  <2>2. CASE KillHit(c)
    <3>1. run[c] \in Procs /\ cur[run[c]] \in Procs
      BY <2>2, Layers, RunProc, CursorHere DEF KillHit
    <3> QED
      BY <2>2, <3>1, Layers, StateMove, RunProc DEF ProcTypes, CPUTypes, ThreadTypes,
         SchedPoints, KillHit, Return
  <2> QED  BY <1>8, <2>1, <2>2 DEF KillStep
<1>9. ASSUME NEW c \in CPU, TicksStep(c)
      PROVE  StateInv'
  <2>1. CASE TicksEnter(c)
    BY <2>1, StateGoto, OutOfSched DEF TicksEnter
  <2>2. CASE TicksReturn(c)
    BY <2>2, StateGoto, OutOfSched DEF TicksReturn, Return
  <2>3. CASE TicksMore(c)
    BY <2>3, StateGoto, OutOfSched DEF TicksMore
  <2>4. CASE TicksSleep(c)
    BY <2>4, StatePark DEF TicksSleep, SleepOn
  <2>5. CASE TicksRelock(c)
    BY <2>5, StateGoto, OutOfSched DEF TicksRelock
  <2> QED  BY <1>9, <2>1, <2>2, <2>3, <2>4, <2>5 DEF TicksStep
<1>10. ASSUME NEW c \in CPU, UserStep(c)
      PROVE  StateInv'
  <2>1. CASE SysFork(c)
    BY <2>1, StateGoto, OutOfSched DEF SysFork, SysCall
  <2>2. CASE SysWait(c)
    BY <2>2, StateGoto, OutOfSched DEF SysWait, SysCall
  <2>3. CASE SysExit(c)
    BY <2>3, StateGoto, OutOfSched DEF SysExit, SysCall
  <2>4. CASE SysKill(c)
    BY <2>4, StateGoto, OutOfSched DEF SysKill, SysCall
  <2>5. CASE SysSleep(c)
    BY <2>5, StateGoto, OutOfSched DEF SysSleep, SysCall
  <2>6. CASE UserFault(c)
    BY <2>6, StateGoto, OutOfSched DEF UserFault, ExitKilled
  <2> QED  BY <1>10, <2>1, <2>2, <2>3, <2>4, <2>5, <2>6 DEF UserStep
<1>11. ASSUME NEW c \in CPU, TimerIntr(c)
      PROVE  StateInv'
  BY <1>11, Layers, RunProc, TimerState DEF TimerIntr
<1>12. ASSUME Clock
      PROVE  StateInv'
  <2>1. CASE ClockIntr
    BY <2>1, Layers, StateFrame DEF StateInv, ClockIntr
  <2>2. CASE ClockWake
    <3>1. 0 \in CPU
      BY <2>2, Layers, Consts DEF GlobalLockInv, ClockWake
    <3> QED
      BY <2>2, <3>1, Layers, StateMove DEF ProcTypes, ClockWake, WakeOne
  <2>3. CASE ClockEnd
    <3>1. 0 \in CPU /\ (run[0] # NULL => run[0] \in Procs)
      BY <2>3, ClockEndHere
    <3>2. CASE run[0] = NULL
      BY <2>3, <3>2, Layers, StateFrame DEF StateInv, ClockEnd
    <3>3. CASE run[0] # NULL
      BY <2>3, <3>1, <3>3, TimerState DEF ClockEnd
    <3> QED  BY <3>2, <3>3
  <2> QED  BY <1>12, <2>1, <2>2, <2>3 DEF Clock
<1> QED  BY <1>1, <1>2, <1>3, <1>4, <1>5, <1>6, <1>7, <1>8, <1>9, <1>10, <1>11, <1>12
            DEF Next, SysStep

-----------------------------------------------------------------------------
(* Layers 3 and 4: wait_lock and tickslock; pids. *)

(* A thread that is not about to switch is RUNNING. *)
LEMMA RunState ==
  ASSUME IInv, NEW c \in CPU, run[c] # NULL, pc[run[c]] \notin SchedPoints
  PROVE  run[c] \in Procs /\ state[run[c]] = "RUNNING"
BY Layers, RunProc DEF StateInv, StateOK, OnCPU

(* A step of the thread on hart c that takes or drops wait_lock and         *)
(* tickslock as its label says, or moves between labels of the same kind.   *)
LEMMA GlobalMove ==
  ASSUME IInv, NEW c \in CPU, run[c] \in Procs, ~InClock(c), UNCHANGED <<run, cproc, clk>>,
         \A d \in CPU : d # c /\ run[d] # NULL => pc'[run[d]] = pc[run[d]],
         \/ wait_lock' = wait_lock /\ (pc[run[c]] \in WaitHeld <=> pc'[run[c]] \in WaitHeld)
         \/ wait_lock = NoCPU /\ wait_lock' = c /\ pc'[run[c]] \in WaitHeld
         \/ pc[run[c]] \in WaitHeld /\ wait_lock' = NoCPU /\ pc'[run[c]] \notin WaitHeld,
         \/ tickslock' = tickslock /\ (pc[run[c]] \in TicksHeld <=> pc'[run[c]] \in TicksHeld)
         \/ tickslock = NoCPU /\ tickslock' = c /\ pc'[run[c]] \in TicksHeld
         \/ pc[run[c]] \in TicksHeld /\ tickslock' = NoCPU /\ pc'[run[c]] \notin TicksHeld
  PROVE  GlobalLockInv'
<1>1. ASSUME NEW d \in CPU
      PROVE  wait_lock' = d <=> run'[d] # NULL /\ pc'[run'[d]] \in WaitHeld
  BY <1>1, Layers, Consts, SMTT(30) DEF GlobalLockInv
<1>2. ASSUME NEW d \in CPU
      PROVE  tickslock' = d <=> InClock(d)' \/ (run'[d] # NULL /\ pc'[run'[d]] \in TicksHeld)
  BY <1>2, Layers, Consts, SMTT(30) DEF GlobalLockInv, InClock
<1>3. clk' # 0 => 0 \in CPU /\ cproc'[0] = run'[0] /\ (run'[0] # NULL => pc'[run'[0]] \in Unlocked)
  BY Layers DEF GlobalLockInv, InClock
<1> QED  BY <1>1, <1>2, <1>3 DEF GlobalLockInv

(* Two harts do not execute the same process. *)
LEMMA Alone ==
  ASSUME CPUInv, NEW c \in CPU, NEW d \in CPU, d # c, run[d] # NULL
  PROVE  run[d] # run[c]
BY DEF CPUInv

(* A step of the thread on hart c from label a to label b that takes or drops *)
(* wait_lock and tickslock as the labels say.                                 *)
LEMMA GlobalGoto ==
  ASSUME IInv, NEW c \in CPU, NEW a, NEW b, At(c, a), Goto(run[c], b), UNCHANGED <<run, cproc, clk>>,
         \/ wait_lock' = wait_lock /\ (a \in WaitHeld <=> b \in WaitHeld)
         \/ wait_lock = NoCPU /\ wait_lock' = c /\ b \in WaitHeld
         \/ a \in WaitHeld /\ wait_lock' = NoCPU /\ b \notin WaitHeld,
         \/ tickslock' = tickslock /\ (a \in TicksHeld <=> b \in TicksHeld)
         \/ tickslock = NoCPU /\ tickslock' = c /\ b \in TicksHeld
         \/ a \in TicksHeld /\ tickslock' = NoCPU /\ b \notin TicksHeld
  PROVE  GlobalLockInv'
<1>1. run[c] \in Procs /\ pc'[run[c]] = b
  BY Layers, RunProc DEF ThreadTypes
<1>2. \A d \in CPU : d # c /\ run[d] # NULL => run[d] \in Procs /\ run[d] # run[c]
  BY Layers, RunProc, Alone
<1>3. \A d \in CPU : d # c /\ run[d] # NULL => pc'[run[d]] = pc[run[d]]
  BY <1>2, Layers DEF ThreadTypes
<1> QED  BY <1>1, <1>3, GlobalMove

(* wait_lock and tickslock are held by the threads inside their critical sections. *)
LEMMA GlobalLockStep ==
  ASSUME IInv, Next
  PROVE  GlobalLockInv'
<1>1. ASSUME NEW c \in CPU, Scheduler(c)
      PROVE  GlobalLockInv'
  <2>1. CASE SchedRun(c)
    <3>1. pc[scan[c]] \notin WaitHeld /\ pc[scan[c]] \notin TicksHeld
      BY <2>1, Layers, AtRest DEF CPUTypes, SelfHeld, WaitHeld, TicksHeld, SchedRun
    <3> QED
      BY <2>1, <3>1, Layers, Consts DEF CPUTypes, GlobalLockInv, InClock, SchedRun,
         InScheduler
  <2>2. CASE SchedSkip(c)
    BY <2>2, Layers DEF CPUTypes, GlobalLockInv, InClock, SchedSkip, InScheduler
  <2>3. CASE SchedBack(c)
    BY <2>3, Layers DEF CPUTypes, GlobalLockInv, InClock, SchedBack, InScheduler
  <2> QED  BY <1>1, <2>1, <2>2, <2>3 DEF Scheduler
<1>2. ASSUME NEW c \in CPU, SwitchStep(c)
      PROVE  GlobalLockInv'
  <2>1. CASE Sched(c)
    <3>1. pc[run[c]] \notin WaitHeld /\ pc[run[c]] \notin TicksHeld
      BY <2>1 DEF SchedPoints, WaitHeld, TicksHeld, Sched
    <3>2. \A d \in CPU : d # c /\ run[d] # NULL => run'[d] = run[d] /\ pc'[run[d]] = pc[run[d]]
      BY <2>1, Layers, RunProc, Alone DEF CPUTypes, ThreadTypes, Sched
    <3>3. run'[c] = NULL /\ ~InClock(c) /\ \A d \in CPU : d # c => run'[d] = run[d]
      BY <2>1, Layers DEF CPUTypes, Sched
    <3> QED
      BY <2>1, <3>1, <3>2, <3>3, Layers, SMTT(30) DEF GlobalLockInv, InClock, Sched
  <2>2. CASE ForkRet(c)
    BY <2>2, GlobalGoto DEF WaitHeld, TicksHeld, ForkRet
  <2>3. CASE YieldRet(c)
    <3>1. run[c] \in Procs /\ rpc[run[c]] \notin WaitHeld /\ rpc[run[c]] \notin TicksHeld
      BY <2>3, Layers, RunProc DEF CursorInv, CursorOK, Unlocked, WaitHeld, TicksHeld,
         YieldRet
    <3> QED
      BY <2>3, <3>1, Layers, GlobalMove, Alone, SMTT(30)
         DEF ThreadTypes, WaitHeld, TicksHeld, YieldRet
  <2>4. CASE SleepRet(c)
    <3>1. run[c] \in Procs /\ rpc[run[c]] \notin WaitHeld /\ rpc[run[c]] \notin TicksHeld
      BY <2>4, Layers, RunProc DEF CursorInv, CursorOK, WaitHeld, TicksHeld, SleepRet
    <3> QED
      BY <2>4, <3>1, Layers, GlobalMove, Alone, SMTT(30)
         DEF ThreadTypes, WaitHeld, TicksHeld, SleepRet
  <2> QED  BY <1>2, <2>1, <2>2, <2>3, <2>4 DEF SwitchStep
<1>3. ASSUME NEW c \in CPU, TrapRet(c)
      PROVE  GlobalLockInv'
  BY <1>3, GlobalGoto DEF WaitHeld, TicksHeld, TrapRet
<1>4. ASSUME NEW c \in CPU, TrapKilled(c)
      PROVE  GlobalLockInv'
  BY <1>4, GlobalGoto DEF WaitHeld, TicksHeld, TrapKilled, ExitKilled
<1>5. ASSUME NEW c \in CPU, ForkStep(c)
      PROVE  GlobalLockInv'
  <2>1. CASE AllocNext(c)
    <3>1. CASE Return(run[c])
      BY <2>1, <3>1, GlobalGoto DEF WaitHeld, TicksHeld, AllocNext, Return
    <3>2. CASE UNCHANGED pc
      BY <2>1, <3>2, Layers, GlobalMove, RunProc DEF AllocNext
    <3> QED  BY <2>1, <3>1, <3>2 DEF AllocNext
  <2>2. CASE AllocFound(c)
    <3>1. run[c] \in Procs /\ cur[run[c]] \in Procs
      BY <2>2, Layers, RunProc, CursorHere DEF AllocFound
    <3>2. \A d \in CPU : run[d] # cur[run[c]]
      BY <2>2, <3>1, Layers, OffCPU, Consts DEF OnCPU, AllocFound
    <3>3. \A d \in CPU : d # c /\ run[d] # NULL => pc'[run[d]] = pc[run[d]]
      BY <2>2, <3>1, <3>2, Layers, Alone DEF CPUTypes, ThreadTypes, AllocFound
    <3> QED
      BY <2>2, <3>1, <3>2, <3>3, Layers, GlobalMove DEF ThreadTypes, WaitHeld,
         TicksHeld, AllocFound
  <2>3. CASE AllocFail(c)
    BY <2>3, GlobalGoto DEF WaitHeld, TicksHeld, AllocFail, Return, FreeProc
  <2>4. CASE ForkParent(c)
    BY <2>4, GlobalGoto DEF WaitHeld, TicksHeld, ForkParent
  <2>5. CASE ForkRun(c)
    BY <2>5, GlobalGoto DEF WaitHeld, TicksHeld, ForkRun, Return
  <2> QED  BY <1>5, <2>1, <2>2, <2>3, <2>4, <2>5 DEF ForkStep
<1>6. ASSUME NEW c \in CPU, WaitStep(c)
      PROVE  GlobalLockInv'
  <2>1. CASE WaitLock(c)
    BY <2>1, GlobalGoto DEF WaitHeld, TicksHeld, WaitLock
  <2>2. CASE WaitNext(c)
    BY <2>2, Layers, GlobalMove, RunProc, Alone, Consts DEF CPUTypes, ThreadTypes, WaitHeld,
       TicksHeld, WaitNext
  <2>3. CASE WaitReap(c)
    BY <2>3, GlobalGoto DEF WaitHeld, TicksHeld, WaitReap, Return, FreeProc
  <2>4. CASE WaitBadAddr(c)
    BY <2>4, GlobalGoto DEF WaitHeld, TicksHeld, WaitBadAddr, Return
  <2>5. CASE WaitGiveUp(c)
    BY <2>5, GlobalGoto DEF WaitHeld, TicksHeld, WaitGiveUp, Return
  <2>6. CASE WaitMore(c)
    BY <2>6, GlobalGoto DEF WaitHeld, TicksHeld, WaitMore
  <2>7. CASE WaitSleep(c)
    BY <2>7, GlobalGoto DEF WaitHeld, TicksHeld, WaitSleep, SleepOn
  <2> QED  BY <1>6, <2>1, <2>2, <2>3, <2>4, <2>5, <2>6, <2>7 DEF WaitStep
<1>7. ASSUME NEW c \in CPU, ExitStep(c)
      PROVE  GlobalLockInv'
  <2>1. CASE ExitPanic(c)
    BY <2>1, GlobalGoto DEF WaitHeld, TicksHeld, ExitPanic
  <2>2. CASE ExitLock(c)
    BY <2>2, GlobalGoto DEF WaitHeld, TicksHeld, ExitLock
  <2>3. CASE Reparent(c)
    <3>1. /\ At(c, "reparent") /\ run[c] \in Procs
          /\ UNCHANGED <<run, cproc, clk, wait_lock, tickslock>>
      BY <2>3, Layers, RunProc DEF Reparent
    <3>2. CASE pc' = pc
      BY <3>1, <3>2, GlobalMove
    <3>3. CASE Goto(run[c], "exit_wake") \/ Goto(run[c], "reparent_wake")
      BY <3>1, <3>3, GlobalGoto DEF WaitHeld, TicksHeld
    <3> QED  BY <2>3, <3>2, <3>3 DEF Reparent
  <2>4. CASE ReparentWake(c)
    <3>1. /\ run[c] \in Procs /\ pc[run[c]] \in WaitHeld /\ pc[run[c]] \notin TicksHeld
          /\ ~InClock(c) /\ UNCHANGED <<run, cproc, clk, wait_lock, tickslock>>
      BY <2>4, Layers, RunProc DEF WaitHeld, TicksHeld, ReparentWake
    <3>2. CASE pc' = pc
      BY <3>1, <3>2, GlobalMove
    <3>3. CASE pc' = [pc EXCEPT ![run[c]] = "reparent"]
      BY <3>1, <3>3, Layers, GlobalMove, Alone, SMTT(30) DEF ThreadTypes, WaitHeld, TicksHeld
    <3> QED  BY <2>4, <3>2, <3>3 DEF ReparentWake
  <2>5. CASE ExitWake(c)
    <3>1. /\ run[c] \in Procs /\ pc[run[c]] \in WaitHeld /\ pc[run[c]] \notin TicksHeld
          /\ ~InClock(c) /\ UNCHANGED <<run, cproc, clk, wait_lock, tickslock>>
      BY <2>5, Layers, RunProc DEF WaitHeld, TicksHeld, ExitWake
    <3>2. CASE pc' = pc
      BY <3>1, <3>2, GlobalMove
    <3>3. CASE pc' = [pc EXCEPT ![run[c]] = "exit_zombie"]
      BY <3>1, <3>3, Layers, GlobalMove, Alone, SMTT(30) DEF ThreadTypes, WaitHeld, TicksHeld
    <3> QED  BY <2>5, <3>2, <3>3 DEF ExitWake
  <2>6. CASE ExitZombie(c)
    BY <2>6, GlobalGoto DEF WaitHeld, TicksHeld, ExitZombie
  <2> QED  BY <1>7, <2>1, <2>2, <2>3, <2>4, <2>5, <2>6 DEF ExitStep
<1>8. ASSUME NEW c \in CPU, KillStep(c)
      PROVE  GlobalLockInv'
  <2>1. CASE KillNext(c)
    <3>1. CASE Return(run[c])
      BY <2>1, <3>1, GlobalGoto DEF WaitHeld, TicksHeld, KillNext, Return
    <3>2. CASE UNCHANGED pc
      BY <2>1, <3>2, Layers, GlobalMove, RunProc DEF KillNext
    <3> QED  BY <2>1, <3>1, <3>2 DEF KillNext
  <2>2. CASE KillHit(c)
    BY <2>2, GlobalGoto DEF WaitHeld, TicksHeld, KillHit, Return
  <2> QED  BY <1>8, <2>1, <2>2 DEF KillStep
<1>9. ASSUME NEW c \in CPU, TicksStep(c)
      PROVE  GlobalLockInv'
  <2>1. CASE TicksEnter(c)
    BY <2>1, GlobalGoto DEF WaitHeld, TicksHeld, TicksEnter
  <2>2. CASE TicksReturn(c)
    BY <2>2, GlobalGoto DEF WaitHeld, TicksHeld, TicksReturn, Return
  <2>3. CASE TicksMore(c)
    BY <2>3, GlobalGoto DEF WaitHeld, TicksHeld, TicksMore
  <2>4. CASE TicksSleep(c)
    BY <2>4, GlobalGoto DEF WaitHeld, TicksHeld, TicksSleep, SleepOn
  <2>5. CASE TicksRelock(c)
    BY <2>5, GlobalGoto DEF WaitHeld, TicksHeld, TicksRelock
  <2> QED  BY <1>9, <2>1, <2>2, <2>3, <2>4, <2>5 DEF TicksStep
<1>10. ASSUME NEW c \in CPU, UserStep(c)
      PROVE  GlobalLockInv'
  <2>1. CASE SysFork(c)
    BY <2>1, GlobalGoto DEF WaitHeld, TicksHeld, SysFork, SysCall
  <2>2. CASE SysWait(c)
    BY <2>2, GlobalGoto DEF WaitHeld, TicksHeld, SysWait, SysCall
  <2>3. CASE SysExit(c)
    BY <2>3, GlobalGoto DEF WaitHeld, TicksHeld, SysExit, SysCall
  <2>4. CASE SysKill(c)
    BY <2>4, GlobalGoto DEF WaitHeld, TicksHeld, SysKill, SysCall
  <2>5. CASE SysSleep(c)
    BY <2>5, GlobalGoto DEF WaitHeld, TicksHeld, SysSleep, SysCall
  <2>6. CASE UserFault(c)
    BY <2>6, GlobalGoto DEF WaitHeld, TicksHeld, UserFault, ExitKilled
  <2> QED  BY <1>10, <2>1, <2>2, <2>3, <2>4, <2>5, <2>6 DEF UserStep
<1>11. ASSUME NEW c \in CPU, TimerIntr(c)
      PROVE  GlobalLockInv'
  <2>1. run[c] \in Procs /\ pc[run[c]] \in Unlocked
    BY <1>11, Layers, RunProc, UnlockedHere DEF TimerIntr, IntrOn
  <2>2. pc' = [pc EXCEPT ![run[c]] = "exit"] \/ pc' = [pc EXCEPT ![run[c]] = "yield_sched"]
    BY <1>11, TimerCases DEF TimerIntr, ExitKilled
  <2>3. pc[run[c]] \notin WaitHeld /\ pc[run[c]] \notin TicksHeld
    BY <2>1 DEF WaitHeld, TicksHeld, Unlocked
  <2>4. ~InClock(c) /\ UNCHANGED <<run, cproc, clk, wait_lock, tickslock>>
    BY <1>11 DEF InClock, TimerIntr
  <2>5. /\ pc'[run[c]] \notin WaitHeld /\ pc'[run[c]] \notin TicksHeld
        /\ \A q \in Procs : q # run[c] => pc'[q] = pc[q]
    BY <2>1, <2>2, Layers DEF ThreadTypes, WaitHeld, TicksHeld
  <2> QED
    BY <2>1, <2>3, <2>4, <2>5, Layers, GlobalMove, RunProc, Alone
<1>12. ASSUME Clock
      PROVE  GlobalLockInv'
  <2>1. CASE ClockIntr
    <3>1. cproc[0] = run[0]
      BY <2>1, Layers, Consts DEF CPUTypes, CPUInv, LockInv, LockOK, ClockIntr, IntrOn
    <3>2. run[0] # NULL => pc[run[0]] \in Unlocked
      BY <2>1, Layers, RunProc, UnlockedHere DEF ClockIntr, IntrOn
    <3> QED
      BY <2>1, <3>1, <3>2, Layers, Consts DEF GlobalLockInv, InClock, TicksHeld, Unlocked,
         ClockIntr
  <2>2. CASE ClockWake
    <3>1. clk # 0 /\ clk' # 0
      BY <2>2, ProcAssumption, SMTT(30) DEF ClockWake, Procs
    <3> QED  BY <2>2, <3>1, Layers DEF GlobalLockInv, InClock, ClockWake
  <2>3. CASE ClockEnd
    <3>1. clk # 0 /\ 0 \in CPU
      BY <2>3, ClockEndHere
    <3>2. run[0] # NULL => run[0] \in Procs /\ pc[run[0]] \in Unlocked
      BY <2>3, ClockEndHere
    <3>3. clk' = 0 /\ tickslock = 0 /\ tickslock' = NoCPU /\ wait_lock' = wait_lock /\ UNCHANGED run
      BY <2>3, <3>1, Layers DEF GlobalLockInv, InClock, ClockEnd
    <3>4. \/ pc' = pc
          \/ /\ run[0] # NULL
             /\ \/ pc' = [pc EXCEPT ![run[0]] = "exit"]
                \/ pc' = [pc EXCEPT ![run[0]] = "yield_sched"]
      BY <2>3, <3>1, TimerCases DEF ClockEnd, ExitKilled
    <3>5. \A d \in CPU : run[d] # NULL =>
            /\ pc'[run[d]] \in WaitHeld <=> pc[run[d]] \in WaitHeld
            /\ pc'[run[d]] \in TicksHeld <=> pc[run[d]] \in TicksHeld
      <4>1. run[0] # NULL => /\ pc[run[0]] \notin WaitHeld /\ pc[run[0]] \notin TicksHeld
                             /\ pc'[run[0]] \notin WaitHeld /\ pc'[run[0]] \notin TicksHeld
        BY <3>2, <3>4, Layers DEF ThreadTypes, WaitHeld, TicksHeld, Unlocked
      <4>2. \A d \in CPU : d # 0 /\ run[d] # NULL => pc'[run[d]] = pc[run[d]]
        BY <3>1, <3>2, <3>4, Layers, Alone, RunProc, SMTT(30) DEF ThreadTypes
      <4> QED  BY <4>1, <4>2
    <3>6. run[0] # NULL => pc[run[0]] \notin TicksHeld
      BY <3>2 DEF TicksHeld, Unlocked
    <3> QED
      BY <3>1, <3>3, <3>5, <3>6, Layers, Consts DEF GlobalLockInv, InClock
  <2> QED  BY <1>12, <2>1, <2>2, <2>3 DEF Clock
<1> QED  BY <1>1, <1>2, <1>3, <1>4, <1>5, <1>6, <1>7, <1>8, <1>9, <1>10, <1>11, <1>12
            DEF Next, SysStep

(* Steps that free or allocate no slot leave the pids as they are. *)
LEMMA PidFrame ==
  ASSUME PidInv, UNCHANGED <<pid, nextpid>>,
         \A q \in Procs : state'[q] = "UNUSED" <=> state[q] = "UNUSED"
  PROVE  PidInv'
BY DEF PidInv

(* Pids depend on nothing else. *)
LEMMA PidSame ==
  ASSUME IInv, UNCHANGED <<state, pid, nextpid>>
  PROVE  PidInv'
BY Layers, PidFrame

(* A pid that was never given out is unique. *)
LEMMA PidNew ==
  ASSUME ProcTypes, PidInv, NEW q \in Procs, nextpid' = nextpid + 1,
         pid' = [pid EXCEPT ![q] = nextpid], state' = [state EXCEPT ![q] = "USED"]
  PROVE  PidInv'
<1>1. nextpid \in Nat /\ \A p \in Procs : pid[p] \in Nat /\ pid[p] < nextpid
  BY DEF ProcTypes, PidInv
<1>2. pid'[q] = nextpid /\ state'[q] = "USED" /\ nextpid # 0
  BY <1>1, SMTT(30) DEF ProcTypes
<1>3. \A p \in Procs \ {q} : pid'[p] = pid[p] /\ state'[p] = state[p]
  BY DEF ProcTypes
<1> QED  BY <1>1, <1>2, <1>3, SMTT(30) DEF PidInv

(* Giving up a slot frees its pid. *)
LEMMA PidFree ==
  ASSUME ProcTypes, PidInv, NEW q \in Procs, nextpid' \in {nextpid, nextpid + 1},
         pid' = [pid EXCEPT ![q] = 0], state' = [state EXCEPT ![q] = "UNUSED"]
  PROVE  PidInv'
<1>1. nextpid \in Nat /\ nextpid' \in Nat /\ nextpid <= nextpid'
      /\ \A p \in Procs : pid[p] \in Nat /\ pid[p] < nextpid
  BY SMTT(30) DEF ProcTypes, PidInv
<1>2. pid'[q] = 0 /\ state'[q] = "UNUSED" /\ 0 < nextpid'
  BY <1>1, SMTT(30) DEF ProcTypes
<1>3. \A p \in Procs \ {q} : pid'[p] = pid[p] /\ state'[p] = state[p] /\ pid[p] < nextpid'
  BY <1>1, SMTT(30) DEF ProcTypes
<1> QED  BY <1>1, <1>2, <1>3, SMTT(30) DEF PidInv

(* The process that a timer interrupt preempts is RUNNING, and stays in use. *)
LEMMA TimerInUse ==
  ASSUME IInv, NEW c \in CPU, run[c] \in Procs, pc[run[c]] \in Unlocked, TimerReturn(c),
         NEW q \in Procs
  PROVE  /\ state'[q] = "UNUSED" <=> state[q] = "UNUSED"
         /\ state'[q] = state[q] \/ (q = run[c] /\ state[q] = "RUNNING" /\ state'[q] = "RUNNABLE")
<1>1. state[run[c]] = "RUNNING"
  BY RunState, Consts DEF SchedPoints, Unlocked
<1> QED  BY <1>1, Layers, TimerCases DEF ProcTypes

(* Pids are unique and below nextpid. *)
LEMMA PidStep ==
  ASSUME IInv, Next
  PROVE  PidInv'
<1>1. ASSUME NEW c \in CPU, Scheduler(c)
      PROVE  PidInv'
  <2>1. CASE SchedRun(c)
    BY <2>1, Layers, PidFrame, RunProc DEF ProcTypes, CPUTypes, ThreadTypes, SchedRun,
       InScheduler
  <2>2. CASE SchedSkip(c)
    BY <2>2, PidSame DEF SchedSkip, InScheduler, Advance
  <2>3. CASE SchedBack(c)
    BY <2>3, PidSame DEF SchedBack, InScheduler, Advance
  <2> QED  BY <1>1, <2>1, <2>2, <2>3 DEF Scheduler
<1>2. ASSUME NEW c \in CPU, SwitchStep(c)
      PROVE  PidInv'
  <2>1. CASE Sched(c)
    BY <2>1, PidSame DEF Sched,
     Resume, SchedPoints
  <2>2. CASE ForkRet(c)
    BY <2>2, PidSame DEF ForkRet
  <2>3. CASE YieldRet(c)
    BY <2>3, PidSame DEF YieldRet
  <2>4. CASE SleepRet(c)
    BY <2>4, PidSame DEF SleepRet
  <2> QED  BY <1>2, <2>1, <2>2, <2>3, <2>4 DEF SwitchStep
<1>3. ASSUME NEW c \in CPU, TrapRet(c)
      PROVE  PidInv'
  BY <1>3, PidSame DEF TrapRet
<1>4. ASSUME NEW c \in CPU, TrapKilled(c)
      PROVE  PidInv'
  BY <1>4, PidSame DEF TrapKilled,
     ExitKilled
<1>5. ASSUME NEW c \in CPU, ForkStep(c)
      PROVE  PidInv'
  <2>1. CASE AllocNext(c)
    BY <2>1, PidSame DEF AllocNext, Return
  <2>2. CASE AllocFound(c)
    <3>1. cur[run[c]] \in Procs
      BY <2>2, Layers, CursorHere DEF AllocFound
    <3>2. nextpid' = nextpid + 1 /\ pid' = [pid EXCEPT ![cur[run[c]]] = nextpid]
          /\ state' = [state EXCEPT ![cur[run[c]]] = "USED"]
      BY <2>2 DEF AllocFound
    <3> QED  BY <3>1, <3>2, Layers, PidNew
  <2>3. CASE AllocFail(c)
    <3>1. cur[run[c]] \in Procs
      BY <2>3, Layers, CursorHere DEF AllocFail
    <3>2. nextpid' = nextpid + 1 /\ pid' = [pid EXCEPT ![cur[run[c]]] = 0]
          /\ state' = [state EXCEPT ![cur[run[c]]] = "UNUSED"]
      BY <2>3 DEF AllocFail, FreeProc
    <3> QED  BY <3>1, <3>2, Layers, PidFree
  <2>4. CASE ForkParent(c)
    BY <2>4, PidSame DEF ForkParent
  <2>5. CASE ForkRun(c)
    <3>1. cur[run[c]] \in Procs /\ state[cur[run[c]]] = "USED"
      BY <2>5, Layers, CursorHere, RunState DEF ForkInv, Forking, Point, Live, SchedPoints,
         ForkRun
    <3> QED  BY <2>5, <3>1, Layers, PidFrame DEF ProcTypes, ForkRun
  <2> QED  BY <1>5, <2>1, <2>2, <2>3, <2>4, <2>5 DEF ForkStep
<1>6. ASSUME NEW c \in CPU, WaitStep(c)
      PROVE  PidInv'
  <2>1. CASE WaitLock(c)
    BY <2>1, PidSame DEF WaitLock
  <2>2. CASE WaitNext(c)
    BY <2>2, PidSame DEF WaitNext
  <2>3. CASE WaitReap(c)
    <3>1. cur[run[c]] \in Procs /\ nextpid' = nextpid /\ pid' = [pid EXCEPT ![cur[run[c]]] = 0]
          /\ state' = [state EXCEPT ![cur[run[c]]] = "UNUSED"]
      BY <2>3 DEF WaitReap, FreeProc
    <3> QED  BY <3>1, Layers, PidFree
  <2>4. CASE WaitBadAddr(c)
    BY <2>4, PidSame DEF WaitBadAddr, Return
  <2>5. CASE WaitGiveUp(c)
    BY <2>5, PidSame DEF WaitGiveUp, Return
  <2>6. CASE WaitMore(c)
    BY <2>6, PidSame DEF WaitMore
  <2>7. CASE WaitSleep(c)
    <3>1. run[c] \in Procs /\ state[run[c]] = "RUNNING"
      BY <2>7, RunState DEF SchedPoints, WaitSleep
    <3> QED  BY <2>7, <3>1, Layers, PidFrame DEF ProcTypes, WaitSleep, SleepOn
  <2> QED  BY <1>6, <2>1, <2>2, <2>3, <2>4, <2>5, <2>6, <2>7 DEF WaitStep
<1>7. ASSUME NEW c \in CPU, ExitStep(c)
      PROVE  PidInv'
  <2>1. CASE ExitPanic(c)
    BY <2>1, PidSame DEF ExitPanic
  <2>2. CASE ExitLock(c)
    BY <2>2, PidSame DEF ExitLock
  <2>3. CASE Reparent(c)
    BY <2>3, PidSame DEF Reparent
  <2>4. CASE ReparentWake(c)
    BY <2>4, Layers, PidFrame, RunProc DEF ProcTypes, CPUTypes, ThreadTypes, ReparentWake,
       WakeOne
  <2>5. CASE ExitWake(c)
    BY <2>5, Layers, PidFrame, RunProc DEF ProcTypes, CPUTypes, ThreadTypes, ExitWake, WakeOne
  <2>6. CASE ExitZombie(c)
    <3>1. run[c] \in Procs /\ state[run[c]] = "RUNNING"
      BY <2>6, RunState DEF SchedPoints, ExitZombie
    <3> QED  BY <2>6, <3>1, Layers, PidFrame DEF ProcTypes, ExitZombie
  <2> QED  BY <1>7, <2>1, <2>2, <2>3, <2>4, <2>5, <2>6 DEF ExitStep
<1>8. ASSUME NEW c \in CPU, KillStep(c)
      PROVE  PidInv'
  <2>1. CASE KillNext(c)
    BY <2>1, PidSame DEF KillNext, Return
  <2>2. CASE KillHit(c)
    BY <2>2, Layers, PidFrame, RunProc DEF ProcTypes, CPUTypes, ThreadTypes, KillHit, Return
  <2> QED  BY <1>8, <2>1, <2>2 DEF KillStep
<1>9. ASSUME NEW c \in CPU, TicksStep(c)
      PROVE  PidInv'
  <2>1. CASE TicksEnter(c)
    BY <2>1, PidSame DEF TicksEnter
  <2>2. CASE TicksReturn(c)
    BY <2>2, PidSame DEF TicksReturn, Return
  <2>3. CASE TicksMore(c)
    BY <2>3, PidSame DEF TicksMore
  <2>4. CASE TicksSleep(c)
    <3>1. run[c] \in Procs /\ state[run[c]] = "RUNNING"
      BY <2>4, RunState DEF SchedPoints, TicksSleep
    <3> QED  BY <2>4, <3>1, Layers, PidFrame DEF ProcTypes, TicksSleep, SleepOn
  <2>5. CASE TicksRelock(c)
    BY <2>5, PidSame DEF TicksRelock
  <2> QED  BY <1>9, <2>1, <2>2, <2>3, <2>4, <2>5 DEF TicksStep
<1>10. ASSUME NEW c \in CPU, UserStep(c)
      PROVE  PidInv'
  <2>1. CASE SysFork(c)
    BY <2>1, PidSame DEF SysFork, SysCall
  <2>2. CASE SysWait(c)
    BY <2>2, PidSame DEF SysWait, SysCall
  <2>3. CASE SysExit(c)
    BY <2>3, PidSame DEF SysExit, SysCall
  <2>4. CASE SysKill(c)
    BY <2>4, PidSame DEF SysKill, SysCall
  <2>5. CASE SysSleep(c)
    BY <2>5, PidSame DEF SysSleep, SysCall
  <2>6. CASE UserFault(c)
    BY <2>6, PidSame DEF UserFault, ExitKilled
  <2> QED  BY <1>10, <2>1, <2>2, <2>3, <2>4, <2>5, <2>6 DEF UserStep
<1>11. ASSUME NEW c \in CPU, TimerIntr(c)
      PROVE  PidInv'
  <2>1. run[c] \in Procs /\ pc[run[c]] \in Unlocked
    BY <1>11, Layers, RunProc, UnlockedHere DEF TimerIntr, IntrOn
  <2> QED  BY <1>11, <2>1, Layers, TimerInUse, PidFrame DEF TimerIntr
<1>12. ASSUME Clock
      PROVE  PidInv'
  <2>1. CASE ClockIntr
    BY <2>1, PidSame DEF ClockIntr
  <2>2. CASE ClockWake
    BY <2>2, Layers, PidFrame, RunProc DEF ProcTypes, CPUTypes, ThreadTypes, ClockWake,
       WakeOne
  <2>3. CASE ClockEnd
    <3>1. 0 \in CPU
      BY <2>3, ClockEndHere
    <3>2. run[0] # NULL => run[0] \in Procs /\ pc[run[0]] \in Unlocked
      BY <2>3, ClockEndHere
    <3> QED  BY <2>3, <3>1, <3>2, Layers, TimerInUse, PidFrame DEF ClockEnd
  <2> QED  BY <1>12, <2>1, <2>2, <2>3 DEF Clock
<1> QED  BY <1>1, <1>2, <1>3, <1>4, <1>5, <1>6, <1>7, <1>8, <1>9, <1>10, <1>11, <1>12
            DEF Next, SysStep

-----------------------------------------------------------------------------
(* Most steps leave the process tree alone.  A step of a kernel thread is   *)
(* ordinary if no process comes, goes or falls asleep, no parent pointer    *)
(* moves, and the threads inside wait() and exit() stay where they are.     *)

(* Thread p stays where it is among the labels of wait_lock, or is not there. *)
SameWait(p) == pc[p] \in WaitHeld \/ pc'[p] \in WaitHeld => pc'[p] = pc[p] /\ cur'[p] = cur[p]

(* It stays where it is between allocproc() and the end of fork(), or leaves. *)
SameFork(p) == \/ Point(p)' = Point(p) /\ cur'[p] = cur[p]
               \/ Point(p)' \notin {"fork_parent", "fork_run"}

(* It does not fall asleep, and its state stays in Live or does not change. *)
SameLife(p) == /\ state'[p] = state[p] \/ {state[p], state'[p]} \subseteq Live
               /\ state'[p] = "SLEEPING" => /\ state[p] = "SLEEPING"
                                            /\ chan'[p] = chan[p] /\ rpc'[p] = rpc[p]
               /\ chan'[p] \in {chan[p], NULL}

Ordinary == /\ UNCHANGED <<parent, wcur>>
            /\ \A p \in Procs : SameWait(p) /\ SameFork(p) /\ SameLife(p)
            /\ \A c \in CPU : run[c] # NULL /\ pc[run[c]] \in WaitHeld => run'[c] = run[c]

(* A thread that a step does not touch stays as it is. *)
LEMMA SameFrame ==
  ASSUME NEW p, UNCHANGED <<pc[p], rpc[p], cur[p], state[p], chan[p]>>
  PROVE  SameWait(p) /\ SameFork(p) /\ SameLife(p)
BY DEF SameWait, SameFork, SameLife, Point

(* A step of the thread on hart c, which may also wake sleeping processes. *)
LEMMA OrdThread ==
  ASSUME NEW p \in Procs, UNCHANGED <<parent, run, wcur>>,
         \A q \in Procs : q # p =>
           /\ pc'[q] = pc[q] /\ rpc'[q] = rpc[q] /\ cur'[q] = cur[q] /\ chan'[q] = chan[q]
           /\ state'[q] = state[q] \/ (state[q] = "SLEEPING" /\ state'[q] = "RUNNABLE"),
         SameWait(p), SameFork(p), SameLife(p)
  PROVE  Ordinary
<1>1. ASSUME NEW q \in Procs, q # p
      PROVE  SameWait(q) /\ SameFork(q) /\ SameLife(q)
  BY <1>1 DEF SameWait, SameFork, SameLife, Point, Live
<1> QED  BY <1>1 DEF Ordinary

(* Such a step from a label outside fork(), wait() and exit() to another. *)
LEMMA OrdLabel ==
  ASSUME IInv, NEW c \in CPU, run[c] # NULL, pc[run[c]] \notin WaitHeld,
         pc'[run[c]] \notin WaitHeld, pc'[run[c]] \notin {"fork_parent", "fork_run"},
         pc'[run[c]] \notin {"yield_sched", "yield_ret", "sleep_sched", "sleep_ret"},
         UNCHANGED <<rpc, parent, run, chan, wcur>>,
         \A q \in Procs : q # run[c] => pc'[q] = pc[q] /\ cur'[q] = cur[q],
         \A q \in Procs : state'[q] = state[q] \/ (state[q] = "SLEEPING" /\ state'[q] = "RUNNABLE")
  PROVE  Ordinary
<1>1. run[c] \in Procs
  BY Layers, RunProc
<1>2. SameWait(run[c]) /\ SameFork(run[c]) /\ SameLife(run[c])
  BY <1>1 DEF SameWait, SameFork, SameLife, Point, Live
<1> QED  BY <1>1, <1>2, OrdThread

(* The end of a timer interrupt is ordinary: the thread is preempted where it is. *)
LEMMA OrdTimer ==
  ASSUME IInv, NEW c \in CPU, run[c] \in Procs, pc[run[c]] \in Unlocked, TimerReturn(c),
         UNCHANGED <<parent, run, chan>>
  PROVE  Ordinary
<1>1. pc[run[c]] \notin WaitHeld /\ state[run[c]] = "RUNNING"
  BY RunState, Consts DEF Unlocked, WaitHeld, SchedPoints
<1>2. CASE ExitKilled(run[c]) /\ UNCHANGED state
  BY <1>1, <1>2, Layers, OrdLabel, Consts DEF ThreadTypes, WaitHeld, ExitKilled
<1>3. CASE /\ state' = [state EXCEPT ![run[c]] = "RUNNABLE"]
           /\ pc' = [pc EXCEPT ![run[c]] = "yield_sched"]
           /\ rpc' = [rpc EXCEPT ![run[c]] = pc[run[c]]]
           /\ UNCHANGED <<cur, wcur, arg, ticks0>>
  <2>1. /\ pc'[run[c]] = "yield_sched" /\ rpc'[run[c]] = pc[run[c]]
        /\ state'[run[c]] = "RUNNABLE"
        /\ \A q \in Procs : q # run[c] => pc'[q] = pc[q] /\ rpc'[q] = rpc[q] /\ state'[q] = state[q]
    BY <1>3, Layers DEF ProcTypes, ThreadTypes
  <2>2. SameWait(run[c]) /\ SameFork(run[c])
    BY <1>1, <1>3, <2>1, SMTT(30) DEF SameWait, SameFork, Point, WaitHeld, Unlocked
  <2>3. SameLife(run[c])
    BY <1>1, <2>1 DEF SameLife, Live
  <2> QED  BY <1>3, <2>1, <2>2, <2>3, OrdThread
<1> QED  BY <1>2, <1>3, TimerCases

(* SchedRun is an ordinary step: it leaves the process tree, wait_lock and wakeup() alone. *)
LEMMA OrdSchedRun ==
  ASSUME IInv, NEW c \in CPU, SchedRun(c)
  PROVE  Ordinary
<1>1. scan[c] \in Procs /\ run[c] = NULL
  BY Layers DEF CPUTypes, SchedRun, InScheduler
<1>2. ASSUME NEW q \in Procs
      PROVE  SameWait(q) /\ SameFork(q) /\ SameLife(q)
  BY <1>1, Layers, SameFrame, SMTT(30) DEF ProcTypes, SameWait, SameFork, SameLife, Point, Live,
     SchedRun
<1> QED  BY <1>1, <1>2, Layers DEF CPUTypes, Ordinary, SchedRun

(* SchedSkip is an ordinary step: it leaves the process tree, wait_lock and wakeup() alone. *)
LEMMA OrdSchedSkip ==
  ASSUME IInv, NEW c \in CPU, SchedSkip(c)
  PROVE  Ordinary
BY SameFrame DEF Ordinary, SchedSkip

(* SchedBack is an ordinary step: it leaves the process tree, wait_lock and wakeup() alone. *)
LEMMA OrdSchedBack ==
  ASSUME IInv, NEW c \in CPU, SchedBack(c)
  PROVE  Ordinary
BY SameFrame DEF Ordinary, SchedBack

(* Sched is an ordinary step: it leaves the process tree, wait_lock and wakeup() alone. *)
LEMMA OrdSched ==
  ASSUME IInv, NEW c \in CPU, Sched(c)
  PROVE  Ordinary
<1>1. run[c] \in Procs /\ pc[run[c]] \in SchedPoints
  BY Layers, RunProc DEF Sched
<1>2. ASSUME NEW q \in Procs, q # run[c]
      PROVE  SameWait(q) /\ SameFork(q) /\ SameLife(q)
  BY <1>1, <1>2, Layers, SameFrame DEF ThreadTypes, Sched
<1>3. ASSUME NEW q \in Procs, q = run[c]
      PROVE  SameWait(q) /\ SameFork(q) /\ SameLife(q)
  BY <1>1, <1>3, Layers DEF ThreadTypes, SameWait, SameFork, SameLife, Point, SchedPoints,
     WaitHeld, Sched, Resume
<1>4. ASSUME NEW d \in CPU, run[d] # NULL, pc[run[d]] \in WaitHeld
      PROVE  run'[d] = run[d]
  BY <1>1, <1>4, Layers DEF CPUTypes, SchedPoints, WaitHeld, Sched
<1> QED  BY <1>2, <1>3, <1>4 DEF Ordinary, Sched

(* ForkRet is an ordinary step: it leaves the process tree, wait_lock and wakeup() alone. *)
LEMMA OrdForkRet ==
  ASSUME IInv, NEW c \in CPU, ForkRet(c)
  PROVE  Ordinary
BY Layers, OrdLabel, RunProc DEF ProcTypes, ThreadTypes, WaitHeld, ForkRet

(* YieldRet is an ordinary step: it leaves the process tree, wait_lock and wakeup() alone. *)
LEMMA OrdYieldRet ==
  ASSUME IInv, NEW c \in CPU, YieldRet(c)
  PROVE  Ordinary
<1>1. run[c] \in Procs /\ state[run[c]] = "RUNNING" /\ pc[run[c]] \notin WaitHeld
  BY RunState DEF SchedPoints, WaitHeld, YieldRet
<1>2. /\ rpc[run[c]] \notin WaitHeld
      /\ rpc[run[c]] \notin {"yield_sched", "yield_ret", "sleep_sched", "sleep_ret"}
  BY <1>1, Layers DEF CursorInv, CursorOK, Unlocked, WaitHeld, YieldRet
<1>3. pc'[run[c]] = rpc[run[c]] /\ cur'[run[c]] = cur[run[c]] /\ state'[run[c]] = "RUNNING"
  BY <1>1, Layers DEF ThreadTypes, YieldRet
<1>4. SameWait(run[c]) /\ SameFork(run[c])
  BY <1>1, <1>2, <1>3 DEF SameWait, SameFork, Point, YieldRet
<1>5. SameLife(run[c])
  BY <1>1, <1>3, Layers DEF ProcTypes, SameLife, Live, YieldRet
<1> QED  BY <1>1, <1>4, <1>5, Layers, OrdThread DEF ThreadTypes, ProcTypes, YieldRet

(* SleepRet is an ordinary step: it leaves the process tree, wait_lock and wakeup() alone. *)
LEMMA OrdSleepRet ==
  ASSUME IInv, NEW c \in CPU, SleepRet(c)
  PROVE  Ordinary
<1>1. run[c] \in Procs /\ state[run[c]] = "RUNNING" /\ pc[run[c]] \notin WaitHeld
  BY RunState DEF SchedPoints, WaitHeld, SleepRet
<1>2. /\ rpc[run[c]] \notin WaitHeld
      /\ rpc[run[c]] \notin {"yield_sched", "yield_ret", "sleep_sched", "sleep_ret"}
  BY <1>1, Layers DEF CursorInv, CursorOK, WaitHeld, SleepRet
<1>3. pc'[run[c]] = rpc[run[c]] /\ cur'[run[c]] = cur[run[c]] /\ state'[run[c]] = "RUNNING"
  BY <1>1, Layers DEF ThreadTypes, SleepRet
<1>4. SameWait(run[c]) /\ SameFork(run[c])
  BY <1>1, <1>2, <1>3 DEF SameWait, SameFork, Point, SleepRet
<1>5. SameLife(run[c])
  BY <1>1, <1>3, Layers DEF ProcTypes, SameLife, Live, SleepRet
<1> QED  BY <1>1, <1>4, <1>5, Layers, OrdThread DEF ThreadTypes, ProcTypes, SleepRet

(* TrapRet is an ordinary step: it leaves the process tree, wait_lock and wakeup() alone. *)
LEMMA OrdTrapRet ==
  ASSUME IInv, NEW c \in CPU, TrapRet(c)
  PROVE  Ordinary
BY Layers, OrdLabel, RunProc DEF ProcTypes, ThreadTypes, WaitHeld, TrapRet

(* TrapKilled is an ordinary step: it leaves the process tree, wait_lock and wakeup() alone. *)
LEMMA OrdTrapKilled ==
  ASSUME IInv, NEW c \in CPU, TrapKilled(c)
  PROVE  Ordinary
BY Layers, OrdLabel, RunProc DEF ProcTypes, ThreadTypes, WaitHeld, TrapKilled, ExitKilled

(* AllocNext is an ordinary step: it leaves the process tree, wait_lock and wakeup() alone. *)
LEMMA OrdAllocNext ==
  ASSUME IInv, NEW c \in CPU, AllocNext(c)
  PROVE  Ordinary
<1>1. run[c] \in Procs /\ pc[run[c]] = "alloc"
  BY Layers, RunProc DEF AllocNext
<1>2. CASE Return(run[c])
  BY <1>1, <1>2, Layers, OrdLabel, Consts DEF ThreadTypes, WaitHeld, AllocNext, Return
<1>3. CASE UNCHANGED pc
  <2>1. SameWait(run[c]) /\ SameFork(run[c]) /\ SameLife(run[c])
    BY <1>1, <1>3 DEF SameWait, SameFork, SameLife, Point, WaitHeld, AllocNext, Return
  <2> QED  BY <1>1, <1>3, <2>1, Layers, OrdThread DEF ThreadTypes, AllocNext, Return
<1> QED  BY <1>2, <1>3 DEF AllocNext

(* ExitPanic is an ordinary step: it leaves the process tree, wait_lock and wakeup() alone. *)
LEMMA OrdExitPanic ==
  ASSUME IInv, NEW c \in CPU, ExitPanic(c)
  PROVE  Ordinary
BY Layers, OrdLabel, RunProc DEF ProcTypes, ThreadTypes, WaitHeld, ExitPanic

(* KillNext is an ordinary step: it leaves the process tree, wait_lock and wakeup() alone. *)
LEMMA OrdKillNext ==
  ASSUME IInv, NEW c \in CPU, KillNext(c)
  PROVE  Ordinary
<1>1. run[c] \in Procs /\ pc[run[c]] = "kill"
  BY Layers, RunProc DEF KillNext
<1>2. CASE Return(run[c])
  BY <1>1, <1>2, Layers, OrdLabel, Consts DEF ThreadTypes, WaitHeld, KillNext, Return
<1>3. CASE UNCHANGED pc
  <2>1. SameWait(run[c]) /\ SameFork(run[c]) /\ SameLife(run[c])
    BY <1>1, <1>3 DEF SameWait, SameFork, SameLife, Point, WaitHeld, KillNext, Return
  <2> QED  BY <1>1, <1>3, <2>1, Layers, OrdThread DEF ThreadTypes, KillNext, Return
<1> QED  BY <1>2, <1>3 DEF KillNext

(* KillHit is an ordinary step: it leaves the process tree, wait_lock and wakeup() alone. *)
LEMMA OrdKillHit ==
  ASSUME IInv, NEW c \in CPU, KillHit(c)
  PROVE  Ordinary
<1>1. /\ pc[run[c]] = "kill" /\ run[c] # NULL /\ pc'[run[c]] = "trapret"
      /\ UNCHANGED <<rpc, parent, run, chan, wcur>>
      /\ \A q \in Procs : q # run[c] => cur'[q] = cur[q] /\ pc'[q] = pc[q]
      /\ \A q \in Procs : state'[q] = state[q] \/ (state[q] = "SLEEPING" /\ state'[q] = "RUNNABLE")
  BY Layers, RunProc DEF ProcTypes, ThreadTypes, KillHit, Return
<1> QED  BY <1>1, OrdLabel DEF WaitHeld

(* TicksEnter is an ordinary step: it leaves the process tree, wait_lock and wakeup() alone. *)
LEMMA OrdTicksEnter ==
  ASSUME IInv, NEW c \in CPU, TicksEnter(c)
  PROVE  Ordinary
BY Layers, OrdLabel, RunProc DEF ProcTypes, ThreadTypes, WaitHeld, TicksEnter

(* TicksReturn is an ordinary step: it leaves the process tree, wait_lock and wakeup() alone. *)
LEMMA OrdTicksReturn ==
  ASSUME IInv, NEW c \in CPU, TicksReturn(c)
  PROVE  Ordinary
BY Layers, OrdLabel, RunProc DEF ProcTypes, ThreadTypes, WaitHeld, TicksReturn, Return

(* TicksMore is an ordinary step: it leaves the process tree, wait_lock and wakeup() alone. *)
LEMMA OrdTicksMore ==
  ASSUME IInv, NEW c \in CPU, TicksMore(c)
  PROVE  Ordinary
BY Layers, OrdLabel, RunProc DEF ProcTypes, ThreadTypes, WaitHeld, TicksMore

(* TicksRelock is an ordinary step: it leaves the process tree, wait_lock and wakeup() alone. *)
LEMMA OrdTicksRelock ==
  ASSUME IInv, NEW c \in CPU, TicksRelock(c)
  PROVE  Ordinary
BY Layers, OrdLabel, RunProc DEF ProcTypes, ThreadTypes, WaitHeld, TicksRelock

(* SysFork is an ordinary step: it leaves the process tree, wait_lock and wakeup() alone. *)
LEMMA OrdSysFork ==
  ASSUME IInv, NEW c \in CPU, SysFork(c)
  PROVE  Ordinary
BY Layers, OrdLabel, RunProc DEF ProcTypes, ThreadTypes, WaitHeld, SysFork, SysCall

(* SysWait is an ordinary step: it leaves the process tree, wait_lock and wakeup() alone. *)
LEMMA OrdSysWait ==
  ASSUME IInv, NEW c \in CPU, SysWait(c)
  PROVE  Ordinary
BY Layers, OrdLabel, RunProc DEF ProcTypes, ThreadTypes, WaitHeld, SysWait, SysCall

(* SysExit is an ordinary step: it leaves the process tree, wait_lock and wakeup() alone. *)
LEMMA OrdSysExit ==
  ASSUME IInv, NEW c \in CPU, SysExit(c)
  PROVE  Ordinary
BY Layers, OrdLabel, RunProc, SMTT(30) DEF ProcTypes, ThreadTypes, WaitHeld, SysExit, SysCall

(* SysKill is an ordinary step: it leaves the process tree, wait_lock and wakeup() alone. *)
LEMMA OrdSysKill ==
  ASSUME IInv, NEW c \in CPU, SysKill(c)
  PROVE  Ordinary
BY Layers, OrdLabel, RunProc, SMTT(30) DEF ProcTypes, ThreadTypes, WaitHeld, SysKill, SysCall

(* SysSleep is an ordinary step: it leaves the process tree, wait_lock and wakeup() alone. *)
LEMMA OrdSysSleep ==
  ASSUME IInv, NEW c \in CPU, SysSleep(c)
  PROVE  Ordinary
BY Layers, OrdLabel, RunProc, SMTT(30) DEF ProcTypes, ThreadTypes, WaitHeld, SysSleep, SysCall

(* UserFault is an ordinary step: it leaves the process tree, wait_lock and wakeup() alone. *)
LEMMA OrdUserFault ==
  ASSUME IInv, NEW c \in CPU, UserFault(c)
  PROVE  Ordinary
BY Layers, OrdLabel, RunProc DEF ProcTypes, ThreadTypes, WaitHeld, UserFault, ExitKilled

(* TimerIntr is an ordinary step: it leaves the process tree, wait_lock and wakeup() alone. *)
LEMMA OrdTimerIntr ==
  ASSUME IInv, NEW c \in CPU, TimerIntr(c)
  PROVE  Ordinary
<1>1. run[c] \in Procs /\ pc[run[c]] \in Unlocked
  BY Layers, RunProc, UnlockedHere DEF TimerIntr, IntrOn
<1> QED  BY <1>1, OrdTimer DEF TimerIntr

(* ClockIntr is an ordinary step: it leaves the process tree, wait_lock and wakeup() alone. *)
LEMMA OrdClockIntr ==
  ASSUME IInv, ClockIntr
  PROVE  Ordinary
BY SameFrame DEF Ordinary, ClockIntr

(* ClockWake is an ordinary step: it leaves the process tree, wait_lock and wakeup() alone. *)
LEMMA OrdClockWake ==
  ASSUME IInv, ClockWake
  PROVE  Ordinary
<1>1. ASSUME NEW q \in Procs
      PROVE  SameWait(q) /\ SameFork(q) /\ SameLife(q)
  BY <1>1, Layers DEF ProcTypes, SameWait, SameFork, SameLife, Point, Live, ClockWake, WakeOne
<1> QED  BY <1>1 DEF Ordinary, ClockWake, WakeOne

(* ClockEnd is an ordinary step: it leaves the process tree, wait_lock and wakeup() alone. *)
LEMMA OrdClockEnd ==
  ASSUME IInv, ClockEnd
  PROVE  Ordinary
<1>1. CASE run[0] = NULL
  BY <1>1, SameFrame DEF Ordinary, ClockEnd
<1>2. CASE run[0] # NULL
  <2>1. 0 \in CPU /\ run[0] \in Procs /\ pc[run[0]] \in Unlocked
    BY <1>2, ClockEndHere
  <2> QED  BY <1>2, <2>1, OrdTimer DEF ClockEnd
<1> QED  BY <1>1, <1>2

(* The other steps: fork(), wait(), exit(), and falling asleep in sys_sleep(). *)
Special(c) ==
  \/ AllocFound(c) \/ AllocFail(c) \/ ForkParent(c) \/ ForkRun(c)
  \/ WaitLock(c) \/ WaitNext(c) \/ WaitReap(c) \/ WaitBadAddr(c) \/ WaitGiveUp(c)
  \/ WaitMore(c) \/ WaitSleep(c)
  \/ ExitLock(c) \/ Reparent(c) \/ ReparentWake(c) \/ ExitWake(c) \/ ExitZombie(c)
  \/ TicksSleep(c)

(* Every step is ordinary or special. *)
LEMMA OrdinaryStep ==
  ASSUME IInv, Next
  PROVE  Ordinary \/ \E c \in CPU : Special(c)
<1>1. ASSUME NEW c \in CPU, Scheduler(c)
      PROVE  Ordinary \/ \E d \in CPU : Special(d)
  BY <1>1, OrdSchedRun, OrdSchedSkip, OrdSchedBack DEF Scheduler
<1>2. ASSUME NEW c \in CPU, SwitchStep(c)
      PROVE  Ordinary \/ \E d \in CPU : Special(d)
  BY <1>2, OrdSched, OrdForkRet, OrdYieldRet, OrdSleepRet DEF SwitchStep
<1>3. ASSUME NEW c \in CPU, TrapRet(c)
      PROVE  Ordinary \/ \E d \in CPU : Special(d)
  BY <1>3, OrdTrapRet
<1>4. ASSUME NEW c \in CPU, TrapKilled(c)
      PROVE  Ordinary \/ \E d \in CPU : Special(d)
  BY <1>4, OrdTrapKilled
<1>5. ASSUME NEW c \in CPU, ForkStep(c)
      PROVE  Ordinary \/ \E d \in CPU : Special(d)
  BY <1>5, OrdAllocNext DEF ForkStep, Special
<1>6. ASSUME NEW c \in CPU, WaitStep(c)
      PROVE  Ordinary \/ \E d \in CPU : Special(d)
  BY <1>6 DEF WaitStep, Special
<1>7. ASSUME NEW c \in CPU, ExitStep(c)
      PROVE  Ordinary \/ \E d \in CPU : Special(d)
  BY <1>7, OrdExitPanic DEF ExitStep, Special
<1>8. ASSUME NEW c \in CPU, KillStep(c)
      PROVE  Ordinary \/ \E d \in CPU : Special(d)
  BY <1>8, OrdKillNext, OrdKillHit DEF KillStep
<1>9. ASSUME NEW c \in CPU, TicksStep(c)
      PROVE  Ordinary \/ \E d \in CPU : Special(d)
  BY <1>9, OrdTicksEnter, OrdTicksReturn, OrdTicksMore, OrdTicksRelock DEF TicksStep, Special
<1>10. ASSUME NEW c \in CPU, UserStep(c)
      PROVE  Ordinary \/ \E d \in CPU : Special(d)
  BY <1>10, OrdSysFork, OrdSysWait, OrdSysExit, OrdSysKill, OrdSysSleep, OrdUserFault DEF
     UserStep
<1>11. ASSUME NEW c \in CPU, TimerIntr(c)
      PROVE  Ordinary \/ \E d \in CPU : Special(d)
  BY <1>11, OrdTimerIntr
<1>12. CASE Clock
  BY <1>12, OrdClockIntr, OrdClockWake, OrdClockEnd DEF Clock
<1> QED  BY <1>1, <1>2, <1>3, <1>4, <1>5, <1>6, <1>7, <1>8, <1>9, <1>10, <1>11, <1>12
            DEF Next, SysStep

-----------------------------------------------------------------------------
(* Layer 5: the process tree. *)

(* Process p does not come or go, except that it may become a zombie. *)
SameUse(p) == /\ state'[p] = "USED" <=> state[p] = "USED"
              /\ state'[p] = "UNUSED" <=> state[p] = "UNUSED"
              /\ state'[p] \in Live => state[p] \in Live

(* A process whose life goes on does not enter or leave the set of slots in use. *)
LEMMA LifeUse ==
  ASSUME NEW p, SameLife(p)
  PROVE  SameUse(p)
BY DEF SameLife, SameUse, Live

(* The slot of a fork() in progress is in the table. *)
LEMMA ForkSlot ==
  ASSUME IInv, NEW p \in Procs, Point(p) \in {"fork_parent", "fork_run"}
  PROVE  cur[p] \in Procs
BY Layers DEF CursorInv, CursorOK

(* fork() in progress is not disturbed by a step that does not touch the tree. *)
LEMMA ForkFrame ==
  ASSUME IInv, UNCHANGED parent, \A p \in Procs : SameFork(p) /\ SameUse(p)
  PROVE  ForkInv'
<1>1. ASSUME NEW p \in Procs, Forking(p)'
      PROVE  Forking(p) /\ Point(p)' = Point(p) /\ cur'[p] = cur[p] /\ cur[p] \in Procs
  BY <1>1, ForkSlot DEF Forking, SameFork, SameUse
<1>2. \A q \in Procs : state'[q] = "UNUSED" => parent'[q] = NULL
  BY Layers DEF ForkInv, SameUse
<1>3. ASSUME NEW p \in Procs, Forking(p)'
      PROVE  /\ state'[cur'[p]] = "USED"
             /\ parent'[cur'[p]] = IF Point(p)' = "fork_run" THEN p ELSE NULL
  BY <1>1, <1>3, Layers, SMTT(30) DEF ForkInv, SameUse
<1>4. ASSUME NEW p \in Procs, NEW q \in Procs, Forking(p)', Forking(q)', cur'[p] = cur'[q]
      PROVE  p = q
  BY <1>1, <1>4, Layers DEF ForkInv
<1> QED  BY <1>2, <1>3, <1>4 DEF ForkInv

(* What a fork() in progress says of its slot. *)
LEMMA ForkHere ==
  ASSUME IInv, NEW c \in CPU, run[c] # NULL, pc[run[c]] \in {"fork_parent", "fork_run"}
  PROVE  /\ run[c] \in Procs /\ cur[run[c]] \in Procs /\ cur[run[c]] # run[c]
         /\ state[run[c]] = "RUNNING" /\ state[cur[run[c]]] = "USED"
         /\ Forking(run[c]) /\ Point(run[c]) = pc[run[c]]
         /\ pc[cur[run[c]]] = "forkret"
         /\ \A q \in Procs : q # run[c] /\ Forking(q) => cur[q] # cur[run[c]]
<1>1. run[c] \in Procs /\ state[run[c]] = "RUNNING" /\ Point(run[c]) = pc[run[c]]
  BY RunState DEF SchedPoints, Point
<1>2. Forking(run[c]) /\ cur[run[c]] \in Procs
  BY <1>1, ForkSlot DEF Forking, Live
<1>3. /\ state[cur[run[c]]] = "USED"
      /\ \A q \in Procs : q # run[c] /\ Forking(q) => cur[q] # cur[run[c]]
  BY <1>1, <1>2, Layers DEF ForkInv
<1>4. pc[cur[run[c]]] = "forkret"
  BY <1>2, <1>3, Layers DEF StateInv, StateOK, SchedPoints
<1> QED  BY <1>1, <1>2, <1>3, <1>4

(* The slots that fork() fills are USED, and distinct. *)
LEMMA ForkInvStep ==
  ASSUME IInv, Next
  PROVE  ForkInv'
<1>1. CASE Ordinary
  BY <1>1, ForkFrame, LifeUse DEF Ordinary
<1>2. ASSUME NEW c \in CPU, AllocFound(c)
      PROVE  ForkInv'
  <2>1. run[c] \in Procs /\ cur[run[c]] \in Procs /\ state[run[c]] = "RUNNING"
    BY <1>2, Layers, RunState, CursorHere DEF SchedPoints, AllocFound
  <2>2. /\ state[cur[run[c]]] = "UNUSED" /\ parent[cur[run[c]]] = NULL /\ run[c] # cur[run[c]]
        /\ UNCHANGED <<parent, cur, rpc>>
    BY <1>2, <2>1, Layers DEF ForkInv, AllocFound
  <2>3. /\ state' = [state EXCEPT ![cur[run[c]]] = "USED"]
        /\ pc' = [pc EXCEPT ![cur[run[c]]] = "forkret", ![run[c]] = "fork_parent"]
    BY <1>2 DEF AllocFound
  <2>4. ASSUME NEW p \in Procs, p # run[c], Forking(p)'
        PROVE  Forking(p) /\ Point(p)' = Point(p) /\ cur[p] \in Procs /\ cur[p] # cur[run[c]]
    <3>1. p # cur[run[c]]
      BY <2>1, <2>3, <2>4, Layers DEF ProcTypes, Forking, Live
    <3>2. pc'[p] = pc[p] /\ state'[p] = state[p]
      BY <2>1, <2>3, <2>4, <3>1, Layers DEF ProcTypes, ThreadTypes
    <3>3. Forking(p) /\ Point(p)' = Point(p)
      BY <2>2, <2>4, <3>2 DEF Forking, Point
    <3> QED  BY <2>2, <3>3, Layers, ForkSlot DEF ForkInv, Forking
  <2>5. Point(run[c])' = "fork_parent"
    BY <1>2, <2>1, <2>3, Layers DEF ThreadTypes, Point, AllocFound
  <2>6. state'[cur[run[c]]] = "USED" /\ \A q \in Procs : q # cur[run[c]] => state'[q] = state[q]
    BY <2>1, <2>3, Layers DEF ProcTypes
  <2>7. \A q \in Procs : state'[q] = "UNUSED" => parent'[q] = NULL
    BY <2>2, <2>6, Layers DEF ForkInv
  <2>8. ASSUME NEW p \in Procs, Forking(p)'
        PROVE  /\ state'[cur'[p]] = "USED"
               /\ parent'[cur'[p]] = IF Point(p)' = "fork_run" THEN p ELSE NULL
    <3>1. CASE p = run[c]
      BY <1>2, <2>2, <2>5, <2>6, <3>1 DEF AllocFound
    <3>2. CASE p # run[c]
      <4>1. /\ Forking(p) /\ Point(p)' = Point(p)
            /\ cur[p] \in Procs /\ cur[p] # cur[run[c]]
        BY <2>4, <2>8, <3>2
      <4>2. /\ state[cur[p]] = "USED"
            /\ parent[cur[p]] = IF Point(p) = "fork_run" THEN p ELSE NULL
        BY <4>1, Layers DEF ForkInv
      <4> QED  BY <2>2, <2>6, <4>1, <4>2
    <3> QED  BY <3>1, <3>2
  <2>9. ASSUME NEW p \in Procs, NEW q \in Procs, Forking(p)', Forking(q)', cur'[p] = cur'[q]
        PROVE  p = q
    BY <2>2, <2>4, <2>9, Layers DEF ForkInv
  <2> QED  BY <2>7, <2>8, <2>9 DEF ForkInv
<1>3. ASSUME NEW c \in CPU, AllocFail(c)
      PROVE  ForkInv'
  <2>1. run[c] \in Procs /\ cur[run[c]] \in Procs
    BY <1>3, Layers, RunProc, CursorHere DEF AllocFail
  <2>2. UNCHANGED <<state, parent>>
    BY <1>3, <2>1, Layers DEF ProcTypes, ForkInv, AllocFail, FreeProc
  <2>3. \A p \in Procs : SameFork(p)
    BY <1>3, <2>1, Layers DEF ThreadTypes, SameFork, Point, AllocFail, Return
  <2> QED  BY <2>2, <2>3, ForkFrame DEF SameUse
<1>4. ASSUME NEW c \in CPU, ForkParent(c)
      PROVE  ForkInv'
  <2>1. /\ run[c] \in Procs /\ cur[run[c]] \in Procs /\ cur[run[c]] # run[c]
        /\ state[cur[run[c]]] = "USED" /\ Forking(run[c]) /\ Point(run[c]) = "fork_parent"
        /\ \A q \in Procs : q # run[c] /\ Forking(q) => cur[q] # cur[run[c]]
    BY <1>4, ForkHere DEF ForkParent
  <2>2. /\ UNCHANGED <<state, cur, rpc>>
        /\ parent' = [parent EXCEPT ![cur[run[c]]] = run[c]]
        /\ pc' = [pc EXCEPT ![run[c]] = "fork_run"]
    BY <1>4 DEF ForkParent
  <2>3. Point(run[c])' = "fork_run"
    BY <1>4, <2>1, <2>2, Layers DEF ThreadTypes, Point, ForkParent
  <2>4. ASSUME NEW p \in Procs, p # run[c], Forking(p)'
        PROVE  Forking(p) /\ Point(p)' = Point(p) /\ cur[p] \in Procs
    <3>1. pc'[p] = pc[p]
      BY <2>1, <2>2, <2>4, Layers DEF ThreadTypes
    <3>2. Forking(p) /\ Point(p)' = Point(p)
      BY <2>2, <2>4, <3>1 DEF Forking, Point
    <3> QED  BY <3>2, ForkSlot DEF Forking
  <2>5. \A q \in Procs : parent'[q] = IF q = cur[run[c]] THEN run[c] ELSE parent[q]
    BY <2>1, <2>2, Layers DEF ProcTypes
  <2>7. \A q \in Procs : state'[q] = "UNUSED" => parent'[q] = NULL
    BY <2>1, <2>2, <2>5, Layers DEF ForkInv
  <2>8. ASSUME NEW p \in Procs, Forking(p)'
        PROVE  /\ state'[cur'[p]] = "USED"
               /\ parent'[cur'[p]] = IF Point(p)' = "fork_run" THEN p ELSE NULL
    <3>1. CASE p = run[c]
      BY <1>4, <2>1, <2>2, <2>3, <2>5, <3>1 DEF ForkParent
    <3>2. CASE p # run[c]
      BY <2>1, <2>2, <2>4, <2>5, <2>8, <3>2, Layers, SMTT(30) DEF ForkInv
    <3> QED  BY <3>1, <3>2
  <2>9. ASSUME NEW p \in Procs, NEW q \in Procs, Forking(p)', Forking(q)', cur'[p] = cur'[q]
        PROVE  p = q
    BY <2>1, <2>2, <2>4, <2>9, Layers DEF ForkInv
  <2> QED  BY <2>7, <2>8, <2>9 DEF ForkInv
<1>5. ASSUME NEW c \in CPU, ForkRun(c)
      PROVE  ForkInv'
  <2>1. /\ run[c] \in Procs /\ cur[run[c]] \in Procs /\ cur[run[c]] # run[c]
        /\ state[run[c]] = "RUNNING" /\ state[cur[run[c]]] = "USED"
        /\ pc[cur[run[c]]] = "forkret"
        /\ \A q \in Procs : q # run[c] /\ Forking(q) => cur[q] # cur[run[c]]
    BY <1>5, ForkHere DEF ForkRun
  <2>2. /\ state' = [state EXCEPT ![cur[run[c]]] = "RUNNABLE"] /\ UNCHANGED <<parent, rpc>>
        /\ pc' = [pc EXCEPT ![run[c]] = "trapret"] /\ cur' = [cur EXCEPT ![run[c]] = 1]
    BY <1>5 DEF ForkRun, Return
  <2>4. ASSUME NEW p \in Procs, Forking(p)'
        PROVE  /\ Forking(p) /\ Point(p)' = Point(p) /\ cur'[p] = cur[p]
               /\ cur[p] \in Procs /\ cur[p] # cur[run[c]]
    <3>1. p # run[c] /\ p # cur[run[c]]
      BY <2>1, <2>2, <2>4, Layers DEF ThreadTypes, Forking, Point
    <3>2. pc'[p] = pc[p] /\ state'[p] = state[p] /\ cur'[p] = cur[p]
      BY <2>1, <2>2, <2>4, <3>1, Layers DEF ProcTypes, ThreadTypes
    <3>3. Forking(p) /\ Point(p)' = Point(p)
      BY <2>2, <2>4, <3>2 DEF Forking, Point
    <3> QED  BY <2>1, <3>1, <3>2, <3>3, ForkSlot DEF Forking
  <2>6. \A q \in Procs : state'[q] = IF q = cur[run[c]] THEN "RUNNABLE" ELSE state[q]
    BY <2>1, <2>2, Layers DEF ProcTypes
  <2>7. \A q \in Procs : state'[q] = "UNUSED" => parent'[q] = NULL
    BY <2>2, <2>6, Layers, SMTT(30) DEF ForkInv
  <2>8. ASSUME NEW p \in Procs, Forking(p)'
        PROVE  /\ state'[cur'[p]] = "USED"
               /\ parent'[cur'[p]] = IF Point(p)' = "fork_run" THEN p ELSE NULL
    BY <2>2, <2>4, <2>6, <2>8, Layers, SMTT(30) DEF ForkInv
  <2>9. ASSUME NEW p \in Procs, NEW q \in Procs, Forking(p)', Forking(q)', cur'[p] = cur'[q]
        PROVE  p = q
    BY <2>4, <2>9, Layers DEF ForkInv
  <2> QED  BY <2>7, <2>8, <2>9 DEF ForkInv
<1>6. ASSUME NEW c \in CPU, WaitLock(c)
      PROVE  ForkInv'
  <2>1. run[c] \in Procs /\ state[run[c]] = "RUNNING"
    BY <1>6, RunState DEF SchedPoints, WaitLock
  <2>2. \A p \in Procs : SameFork(p)
    BY <1>6, <2>1, Layers DEF ThreadTypes, SameFork, Point, WaitLock
  <2>3. \A p \in Procs : SameUse(p)
    BY <1>6, <2>1, Layers DEF ProcTypes, SameUse, Live, WaitLock
  <2>4. UNCHANGED parent
    BY <1>6 DEF WaitLock
  <2> QED  BY <2>2, <2>3, <2>4, ForkFrame
<1>7. ASSUME NEW c \in CPU, WaitNext(c)
      PROVE  ForkInv'
  <2>1. run[c] \in Procs /\ state[run[c]] = "RUNNING"
    BY <1>7, RunState DEF SchedPoints, WaitNext
  <2>2. \A p \in Procs : SameFork(p)
    BY <1>7, <2>1, Layers DEF ThreadTypes, SameFork, Point, WaitNext
  <2>3. \A p \in Procs : SameUse(p)
    BY <1>7, <2>1, Layers DEF ProcTypes, SameUse, Live, WaitNext
  <2>4. UNCHANGED parent
    BY <1>7 DEF WaitNext
  <2> QED  BY <2>2, <2>3, <2>4, ForkFrame
<1>8. ASSUME NEW c \in CPU, WaitReap(c)
      PROVE  ForkInv'
  <2>1. run[c] \in Procs /\ cur[run[c]] \in Procs /\ state[cur[run[c]]] = "ZOMBIE"
    BY <1>8, Layers, RunProc DEF WaitReap
  <2>2. \A q \in Procs : /\ state'[q] = IF q = cur[run[c]] THEN "UNUSED" ELSE state[q]
                        /\ parent'[q] = IF q = cur[run[c]] THEN NULL ELSE parent[q]
    BY <1>8, <2>1, Layers DEF ProcTypes, WaitReap, FreeProc
  <2>3. \A p \in Procs : SameFork(p)
    BY <1>8, <2>1, Layers DEF ThreadTypes, SameFork, Point, WaitReap, Return
  <2>4. ASSUME NEW p \in Procs, Forking(p)'
        PROVE  /\ Forking(p) /\ Point(p)' = Point(p) /\ cur'[p] = cur[p]
               /\ cur[p] \in Procs /\ cur[p] # cur[run[c]]
    <3>1. Forking(p) /\ Point(p)' = Point(p) /\ cur'[p] = cur[p]
      BY <2>2, <2>3, <2>4 DEF Forking, SameFork, Live
    <3> QED  BY <2>1, <3>1, Layers, ForkSlot DEF ForkInv, Forking
  <2>7. \A q \in Procs : state'[q] = "UNUSED" => parent'[q] = NULL
    BY <2>2, Layers DEF ForkInv
  <2>8. ASSUME NEW p \in Procs, Forking(p)'
        PROVE  /\ state'[cur'[p]] = "USED"
               /\ parent'[cur'[p]] = IF Point(p)' = "fork_run" THEN p ELSE NULL
    BY <2>2, <2>4, <2>8, Layers, SMTT(30) DEF ForkInv
  <2>9. ASSUME NEW p \in Procs, NEW q \in Procs, Forking(p)', Forking(q)', cur'[p] = cur'[q]
        PROVE  p = q
    BY <2>4, <2>9, Layers DEF ForkInv
  <2> QED  BY <2>7, <2>8, <2>9 DEF ForkInv
<1>9. ASSUME NEW c \in CPU, WaitBadAddr(c)
      PROVE  ForkInv'
  <2>1. run[c] \in Procs /\ state[run[c]] = "RUNNING"
    BY <1>9, RunState DEF SchedPoints, WaitBadAddr
  <2>2. \A p \in Procs : SameFork(p)
    BY <1>9, <2>1, Layers DEF ThreadTypes, SameFork, Point, WaitBadAddr, Return
  <2>3. \A p \in Procs : SameUse(p)
    BY <1>9, <2>1, Layers DEF ProcTypes, SameUse, Live, WaitBadAddr, Return
  <2>4. UNCHANGED parent
    BY <1>9 DEF WaitBadAddr, Return
  <2> QED  BY <2>2, <2>3, <2>4, ForkFrame
<1>10. ASSUME NEW c \in CPU, WaitGiveUp(c)
      PROVE  ForkInv'
  <2>1. run[c] \in Procs /\ state[run[c]] = "RUNNING"
    BY <1>10, RunState DEF SchedPoints, WaitGiveUp
  <2>2. \A p \in Procs : SameFork(p)
    BY <1>10, <2>1, Layers DEF ThreadTypes, SameFork, Point, WaitGiveUp, Return
  <2>3. \A p \in Procs : SameUse(p)
    BY <1>10, <2>1, Layers DEF ProcTypes, SameUse, Live, WaitGiveUp, Return
  <2>4. UNCHANGED parent
    BY <1>10 DEF WaitGiveUp, Return
  <2> QED  BY <2>2, <2>3, <2>4, ForkFrame
<1>11. ASSUME NEW c \in CPU, WaitMore(c)
      PROVE  ForkInv'
  <2>1. run[c] \in Procs /\ state[run[c]] = "RUNNING"
    BY <1>11, RunState DEF SchedPoints, WaitMore
  <2>2. \A p \in Procs : SameFork(p)
    BY <1>11, <2>1, Layers DEF ThreadTypes, SameFork, Point, WaitMore
  <2>3. \A p \in Procs : SameUse(p)
    BY <1>11, <2>1, Layers DEF ProcTypes, SameUse, Live, WaitMore
  <2>4. UNCHANGED parent
    BY <1>11 DEF WaitMore
  <2> QED  BY <2>2, <2>3, <2>4, ForkFrame
<1>12. ASSUME NEW c \in CPU, WaitSleep(c)
      PROVE  ForkInv'
  <2>1. run[c] \in Procs /\ state[run[c]] = "RUNNING"
    BY <1>12, RunState DEF SchedPoints, WaitSleep
  <2>2. \A p \in Procs : SameFork(p)
    BY <1>12, <2>1, Layers DEF ThreadTypes, SameFork, Point, WaitSleep, SleepOn
  <2>3. \A p \in Procs : SameUse(p)
    BY <1>12, <2>1, Layers DEF ProcTypes, SameUse, Live, WaitSleep, SleepOn
  <2>4. UNCHANGED parent
    BY <1>12 DEF WaitSleep, SleepOn
  <2> QED  BY <2>2, <2>3, <2>4, ForkFrame
<1>13. ASSUME NEW c \in CPU, ExitLock(c)
      PROVE  ForkInv'
  <2>1. run[c] \in Procs /\ state[run[c]] = "RUNNING"
    BY <1>13, RunState DEF SchedPoints, ExitLock
  <2>2. \A p \in Procs : SameFork(p)
    BY <1>13, <2>1, Layers DEF ThreadTypes, SameFork, Point, ExitLock
  <2>3. \A p \in Procs : SameUse(p)
    BY <1>13, <2>1, Layers DEF ProcTypes, SameUse, Live, ExitLock
  <2>4. UNCHANGED parent
    BY <1>13 DEF ExitLock
  <2> QED  BY <2>2, <2>3, <2>4, ForkFrame
<1>14. ASSUME NEW c \in CPU, Reparent(c)
      PROVE  ForkInv'
  <2>1. run[c] \in Procs /\ ~Forking(run[c])
    BY <1>14, Layers, RunProc DEF Forking, Point, Reparent
  <2>2. UNCHANGED <<state, rpc>> /\ \A p \in Procs : SameFork(p)
    BY <1>14, <2>1, Layers DEF ThreadTypes, SameFork, Point, Reparent
  <2>3. CASE UNCHANGED parent
    BY <2>2, <2>3, ForkFrame DEF SameUse
  <2>4. CASE /\ parent[cur[run[c]]] = run[c] /\ cur[run[c]] # NPROC + 1
             /\ parent' = [parent EXCEPT ![cur[run[c]]] = initproc]
    <3>1. cur[run[c]] \in Procs
      BY <2>1, <2>4, Layers, Cursors DEF ThreadTypes
    <3>2. ASSUME NEW p \in Procs, Forking(p)'
          PROVE  /\ Forking(p) /\ Point(p)' = Point(p) /\ cur'[p] = cur[p]
                 /\ cur[p] \in Procs
      BY <2>2, <3>2, ForkSlot DEF Forking, SameFork
    <3>3. ASSUME NEW p \in Procs, Forking(p)
          PROVE  cur[p] # cur[run[c]]
      BY <2>1, <2>4, <3>3, Layers, Consts DEF ForkInv
    <3>4. \A q \in Procs : parent'[q] = IF q = cur[run[c]] THEN initproc ELSE parent[q]
      BY <2>4, <3>1, Layers DEF ProcTypes
    <3>5. \A q \in Procs : state'[q] = "UNUSED" => parent'[q] = NULL
      BY <2>1, <2>2, <2>4, <3>4, Layers, Consts, SMTT(30) DEF ForkInv
    <3>6. ASSUME NEW p \in Procs, Forking(p)'
          PROVE  /\ state'[cur'[p]] = "USED"
                 /\ parent'[cur'[p]] = IF Point(p)' = "fork_run" THEN p ELSE NULL
      BY <2>2, <3>2, <3>3, <3>4, <3>6, Layers, SMTT(30) DEF ForkInv
    <3>7. ASSUME NEW p \in Procs, NEW q \in Procs, Forking(p)', Forking(q)', cur'[p] = cur'[q]
          PROVE  p = q
      BY <3>2, <3>7, Layers DEF ForkInv
    <3> QED  BY <3>5, <3>6, <3>7 DEF ForkInv
  <2> QED  BY <1>14, <2>3, <2>4 DEF Reparent
<1>15. ASSUME NEW c \in CPU, ReparentWake(c)
      PROVE  ForkInv'
  <2>1. run[c] \in Procs /\ state[run[c]] = "RUNNING"
    BY <1>15, RunState DEF SchedPoints, ReparentWake
  <2>2. \A p \in Procs : SameFork(p)
    BY <1>15, <2>1, Layers DEF ThreadTypes, SameFork, Point, ReparentWake, WakeOne
  <2>3. \A p \in Procs : SameUse(p)
    BY <1>15, <2>1, Layers DEF ProcTypes, SameUse, Live, ReparentWake, WakeOne
  <2>4. UNCHANGED parent
    BY <1>15 DEF ReparentWake, WakeOne
  <2> QED  BY <2>2, <2>3, <2>4, ForkFrame
<1>16. ASSUME NEW c \in CPU, ExitWake(c)
      PROVE  ForkInv'
  <2>1. run[c] \in Procs /\ state[run[c]] = "RUNNING"
    BY <1>16, RunState DEF SchedPoints, ExitWake
  <2>2. \A p \in Procs : SameFork(p)
    BY <1>16, <2>1, Layers DEF ThreadTypes, SameFork, Point, ExitWake, WakeOne
  <2>3. \A p \in Procs : SameUse(p)
    BY <1>16, <2>1, Layers DEF ProcTypes, SameUse, Live, ExitWake, WakeOne
  <2>4. UNCHANGED parent
    BY <1>16 DEF ExitWake, WakeOne
  <2> QED  BY <2>2, <2>3, <2>4, ForkFrame
<1>17. ASSUME NEW c \in CPU, ExitZombie(c)
      PROVE  ForkInv'
  <2>1. run[c] \in Procs /\ state[run[c]] = "RUNNING"
    BY <1>17, RunState DEF SchedPoints, ExitZombie
  <2>2. \A p \in Procs : SameFork(p)
    BY <1>17, <2>1, Layers DEF ThreadTypes, SameFork, Point, ExitZombie
  <2>3. \A p \in Procs : SameUse(p)
    BY <1>17, <2>1, Layers DEF ProcTypes, SameUse, Live, ExitZombie
  <2>4. UNCHANGED parent
    BY <1>17 DEF ExitZombie
  <2> QED  BY <2>2, <2>3, <2>4, ForkFrame
<1>18. ASSUME NEW c \in CPU, TicksSleep(c)
      PROVE  ForkInv'
  <2>1. run[c] \in Procs /\ state[run[c]] = "RUNNING"
    BY <1>18, RunState DEF SchedPoints, TicksSleep
  <2>2. \A p \in Procs : SameFork(p)
    BY <1>18, <2>1, Layers DEF ThreadTypes, SameFork, Point, TicksSleep, SleepOn
  <2>3. \A p \in Procs : SameUse(p)
    BY <1>18, <2>1, Layers DEF ProcTypes, SameUse, Live, TicksSleep, SleepOn
  <2>4. UNCHANGED parent
    BY <1>18 DEF TicksSleep, SleepOn
  <2> QED  BY <2>2, <2>3, <2>4, ForkFrame
<1> QED  BY OrdinaryStep, <1>1, <1>2, <1>3, <1>4, <1>5, <1>6, <1>7, <1>8, <1>9, <1>10, <1>11,
     <1>12, <1>13, <1>14, <1>15, <1>16, <1>17, <1>18 DEF Special

(* Only one thread is inside wait() or exit(): the one that holds wait_lock. *)
LEMMA WaitMutex ==
  ASSUME IInv, NEW p \in Procs, NEW q \in Procs, pc[p] \in WaitHeld, pc[q] \in WaitHeld
  PROVE  p = q /\ wait_lock # NoCPU
<1>1. OnCPU(p) /\ OnCPU(q)
  BY Layers DEF StateInv, StateOK, WaitHeld
<1>2. PICK c \in CPU : run[c] = p
  BY <1>1 DEF OnCPU
<1>3. PICK d \in CPU : run[d] = q
  BY <1>1 DEF OnCPU
<1>4. wait_lock = c /\ wait_lock = d
  BY <1>2, <1>3, Layers, Consts DEF GlobalLockInv
<1> QED  BY <1>2, <1>3, <1>4, Consts

(* The tree is not disturbed by a step that moves no parent and ends no process. *)
LEMMA TreeFrame ==
  ASSUME IInv, UNCHANGED parent,
         \A p \in Procs : state'[p] = state[p] \/ {state[p], state'[p]} \subseteq Live,
         pc'[initproc] \notin {"reparent", "reparent_wake", "exit_wake", "exit_zombie"}
  PROVE  TreeInv'
<1>1. \A p \in Procs : /\ state[p] \in Live => state'[p] \in Live
                       /\ state'[p] \in Live \cup {"ZOMBIE"} => state[p] \in Live \cup {"ZOMBIE"}
  BY DEF Live
<1>2. \A q \in Procs : parent[q] \in Procs \cup {NULL}
  BY Layers DEF ProcTypes
<1> QED  BY <1>1, <1>2, Layers, Consts DEF TreeInv

(* Every process but init has a parent that is alive. *)
LEMMA TreeInvStep ==
  ASSUME IInv, Next
  PROVE  TreeInv'
<1>1. CASE Ordinary
  <2>1. pc'[initproc] \notin {"reparent", "reparent_wake", "exit_wake", "exit_zombie"}
    BY <1>1, Layers, Consts DEF TreeInv, Ordinary, SameWait, WaitHeld
  <2> QED  BY <1>1, <2>1, TreeFrame DEF Ordinary, SameLife
<1>2. ASSUME NEW c \in CPU, AllocFound(c)
      PROVE  TreeInv'
  BY <1>2, Layers, Consts, RunState DEF ProcTypes, ThreadTypes, TreeInv, Live, AllocFound
<1>3. ASSUME NEW c \in CPU, AllocFail(c)
      PROVE  TreeInv'
  BY <1>3, Layers, Consts, RunState
     DEF ProcTypes, ThreadTypes, TreeInv, Live, AllocFail,
     Return, FreeProc
<1>4. ASSUME NEW c \in CPU, ForkParent(c)
      PROVE  TreeInv'
  <2>1. /\ run[c] \in Procs /\ cur[run[c]] \in Procs /\ cur[run[c]] # run[c]
        /\ state[run[c]] = "RUNNING" /\ state[cur[run[c]]] = "USED"
    BY <1>4, ForkHere DEF ForkParent
  <2>2. \A q \in Procs : parent'[q] = IF q = cur[run[c]] THEN run[c] ELSE parent[q]
    BY <1>4, <2>1, Layers DEF ProcTypes, ForkParent
  <2>3. pc'[initproc] \notin {"reparent", "reparent_wake", "exit_wake", "exit_zombie"}
    BY <1>4, <2>1, Layers, Consts DEF ThreadTypes, TreeInv, ForkParent
  <2>4. UNCHANGED state
    BY <1>4 DEF ForkParent
  <2> QED  BY <2>1, <2>2, <2>3, <2>4, Layers, Consts DEF TreeInv, Live
<1>5. ASSUME NEW c \in CPU, ForkRun(c)
      PROVE  TreeInv'
  <2>1. /\ run[c] \in Procs /\ cur[run[c]] \in Procs /\ cur[run[c]] # run[c]
        /\ state[run[c]] = "RUNNING" /\ state[cur[run[c]]] = "USED"
        /\ Forking(run[c]) /\ Point(run[c]) = "fork_run"
    BY <1>5, ForkHere DEF ForkRun
  <2>2. parent[cur[run[c]]] = run[c] /\ UNCHANGED parent
    BY <1>5, <2>1, Layers DEF ForkInv, ForkRun
  <2>3. pc'[initproc] \notin {"reparent", "reparent_wake", "exit_wake", "exit_zombie"}
    BY <1>5, <2>1, Layers, Consts DEF ThreadTypes, TreeInv, ForkRun, Return
  <2>4. \A q \in Procs : state'[q] = IF q = cur[run[c]] THEN "RUNNABLE" ELSE state[q]
    BY <1>5, <2>1, Layers DEF ProcTypes, ForkRun
  <2>5. \A q \in Procs : parent[q] \in Procs \cup {NULL}
    BY Layers DEF ProcTypes
  <2>6. \A q \in Procs : /\ state[q] \in Live => state'[q] \in Live
                         /\ q # cur[run[c]] => state'[q] = state[q]
    BY <2>4 DEF Live
  <2>7. state'[initproc] \in Live /\ parent'[initproc] = NULL
    BY <2>2, <2>6, Layers, Consts DEF TreeInv
  <2>8. ASSUME NEW q \in Procs, parent'[q] # NULL
        PROVE  parent'[q] # q /\ state'[parent'[q]] \in Live
    BY <2>2, <2>5, <2>6, <2>8, Layers DEF TreeInv
  <2>9. ASSUME NEW q \in Procs \ {initproc}, state'[q] \in Live \cup {"ZOMBIE"}
        PROVE  parent'[q] # NULL
    BY <2>1, <2>2, <2>6, <2>9, Layers, Consts, SMTT(30) DEF TreeInv
  <2> QED  BY <2>3, <2>7, <2>8, <2>9 DEF TreeInv
<1>6. ASSUME NEW c \in CPU, WaitLock(c)
      PROVE  TreeInv'
  <2>1. run[c] \in Procs /\ state[run[c]] = "RUNNING"
    BY <1>6, RunState DEF SchedPoints, WaitLock
  <2>2. \A p \in Procs : state'[p] = state[p] \/ {state[p], state'[p]} \subseteq Live
    BY <1>6, <2>1, Layers DEF ProcTypes, Live, WaitLock
  <2>3. pc'[initproc] \notin {"reparent", "reparent_wake", "exit_wake", "exit_zombie"}
    BY <1>6, <2>1, Layers, Consts DEF ThreadTypes, TreeInv, WaitLock
  <2> QED  BY <1>6, <2>2, <2>3, TreeFrame DEF WaitLock
<1>7. ASSUME NEW c \in CPU, WaitNext(c)
      PROVE  TreeInv'
  <2>1. run[c] \in Procs /\ state[run[c]] = "RUNNING"
    BY <1>7, RunState DEF SchedPoints, WaitNext
  <2>2. \A p \in Procs : state'[p] = state[p] \/ {state[p], state'[p]} \subseteq Live
    BY <1>7, <2>1, Layers DEF ProcTypes, Live, WaitNext
  <2>3. pc'[initproc] \notin {"reparent", "reparent_wake", "exit_wake", "exit_zombie"}
    BY <1>7, <2>1, Layers, Consts DEF ThreadTypes, TreeInv, WaitNext
  <2> QED  BY <1>7, <2>2, <2>3, TreeFrame DEF WaitNext
<1>8. ASSUME NEW c \in CPU, WaitReap(c)
      PROVE  TreeInv'
  BY <1>8, Layers, Consts, RunState DEF ProcTypes, ThreadTypes, TreeInv, Live, WaitReap,
     Return, FreeProc
<1>9. ASSUME NEW c \in CPU, WaitBadAddr(c)
      PROVE  TreeInv'
  <2>1. run[c] \in Procs /\ state[run[c]] = "RUNNING"
    BY <1>9, RunState DEF SchedPoints, WaitBadAddr
  <2>2. \A p \in Procs : state'[p] = state[p] \/ {state[p], state'[p]} \subseteq Live
    BY <1>9, <2>1, Layers DEF ProcTypes, Live, WaitBadAddr, Return
  <2>3. pc'[initproc] \notin {"reparent", "reparent_wake", "exit_wake", "exit_zombie"}
    BY <1>9, <2>1, Layers, Consts DEF ThreadTypes, TreeInv, WaitBadAddr, Return
  <2> QED  BY <1>9, <2>2, <2>3, TreeFrame DEF WaitBadAddr, Return
<1>10. ASSUME NEW c \in CPU, WaitGiveUp(c)
      PROVE  TreeInv'
  <2>1. run[c] \in Procs /\ state[run[c]] = "RUNNING"
    BY <1>10, RunState DEF SchedPoints, WaitGiveUp
  <2>2. \A p \in Procs : state'[p] = state[p] \/ {state[p], state'[p]} \subseteq Live
    BY <1>10, <2>1, Layers DEF ProcTypes, Live, WaitGiveUp, Return
  <2>3. pc'[initproc] \notin {"reparent", "reparent_wake", "exit_wake", "exit_zombie"}
    BY <1>10, <2>1, Layers, Consts DEF ThreadTypes, TreeInv, WaitGiveUp, Return
  <2> QED  BY <1>10, <2>2, <2>3, TreeFrame DEF WaitGiveUp, Return
<1>11. ASSUME NEW c \in CPU, WaitMore(c)
      PROVE  TreeInv'
  <2>1. run[c] \in Procs /\ state[run[c]] = "RUNNING"
    BY <1>11, RunState DEF SchedPoints, WaitMore
  <2>2. \A p \in Procs : state'[p] = state[p] \/ {state[p], state'[p]} \subseteq Live
    BY <1>11, <2>1, Layers DEF ProcTypes, Live, WaitMore
  <2>3. pc'[initproc] \notin {"reparent", "reparent_wake", "exit_wake", "exit_zombie"}
    BY <1>11, <2>1, Layers, Consts DEF ThreadTypes, TreeInv, WaitMore
  <2> QED  BY <1>11, <2>2, <2>3, TreeFrame DEF WaitMore
<1>12. ASSUME NEW c \in CPU, WaitSleep(c)
      PROVE  TreeInv'
  <2>1. run[c] \in Procs /\ state[run[c]] = "RUNNING"
    BY <1>12, RunState DEF SchedPoints, WaitSleep
  <2>2. \A p \in Procs : state'[p] = state[p] \/ {state[p], state'[p]} \subseteq Live
    BY <1>12, <2>1, Layers DEF ProcTypes, Live, WaitSleep, SleepOn
  <2>3. pc'[initproc] \notin {"reparent", "reparent_wake", "exit_wake", "exit_zombie"}
    BY <1>12, <2>1, Layers, Consts DEF ThreadTypes, TreeInv, WaitSleep, SleepOn
  <2> QED  BY <1>12, <2>2, <2>3, TreeFrame DEF WaitSleep, SleepOn
<1>13. ASSUME NEW c \in CPU, ExitLock(c)
      PROVE  TreeInv'
  <2>1. run[c] \in Procs /\ state[run[c]] = "RUNNING"
    BY <1>13, RunState DEF SchedPoints, ExitLock
  <2>2. \A p \in Procs : state'[p] = state[p] \/ {state[p], state'[p]} \subseteq Live
    BY <1>13, <2>1, Layers DEF ProcTypes, Live, ExitLock
  <2>3. pc'[initproc] \notin {"reparent", "reparent_wake", "exit_wake", "exit_zombie"}
    BY <1>13, <2>1, Layers, Consts DEF ThreadTypes, TreeInv, ExitLock
  <2> QED  BY <1>13, <2>2, <2>3, TreeFrame DEF ExitLock
<1>14. ASSUME NEW c \in CPU, Reparent(c)
      PROVE  TreeInv'
  <2>1. run[c] \in Procs
    BY <1>14, RunState DEF SchedPoints, Reparent
  <2>2. pc[run[c]] = "reparent"
    BY <1>14 DEF Reparent
  <2>3. run[c] # initproc
    BY <2>2, Layers DEF TreeInv
  <2>4. pc'[initproc] = pc[initproc]
    BY <1>14, <2>1, <2>3, Layers, Consts DEF ThreadTypes, Reparent
  <2>5. \A q \in Procs : \/ parent'[q] = parent[q]
                         \/ parent[q] = run[c] /\ parent'[q] = initproc
    BY <1>14, <2>1, Layers DEF ProcTypes, ThreadTypes, Reparent
  <2>6. UNCHANGED state
    BY <1>14 DEF Reparent
  <2>7. parent[initproc] = NULL /\ run[c] # NULL /\ initproc # NULL /\ initproc \in Procs
    BY <2>1, Layers, Consts DEF TreeInv
  <2>8. parent'[initproc] = NULL
    BY <2>5, <2>7
  <2>9. \A q \in Procs : parent'[q] # NULL => parent'[q] # q /\ state[parent'[q]] \in Live
    BY <2>5, <2>7, Layers DEF TreeInv
  <2> QED  BY <2>4, <2>5, <2>6, <2>7, <2>8, <2>9, Layers DEF TreeInv
<1>15. ASSUME NEW c \in CPU, ReparentWake(c)
      PROVE  TreeInv'
  <2>1. run[c] \in Procs /\ state[run[c]] = "RUNNING"
    BY <1>15, RunState DEF SchedPoints, ReparentWake
  <2>2. \A p \in Procs : state'[p] = state[p] \/ {state[p], state'[p]} \subseteq Live
    BY <1>15, <2>1, Layers DEF ProcTypes, Live, ReparentWake, WakeOne
  <2>3. pc'[initproc] \notin {"reparent", "reparent_wake", "exit_wake", "exit_zombie"}
    BY <1>15, <2>1, Layers, Consts DEF ThreadTypes, TreeInv, ReparentWake, WakeOne
  <2> QED  BY <1>15, <2>2, <2>3, TreeFrame DEF ReparentWake, WakeOne
<1>16. ASSUME NEW c \in CPU, ExitWake(c)
      PROVE  TreeInv'
  <2>1. run[c] \in Procs /\ state[run[c]] = "RUNNING"
    BY <1>16, RunState DEF SchedPoints, ExitWake
  <2>2. \A p \in Procs : state'[p] = state[p] \/ {state[p], state'[p]} \subseteq Live
    BY <1>16, <2>1, Layers DEF ProcTypes, Live, ExitWake, WakeOne
  <2>3. pc'[initproc] \notin {"reparent", "reparent_wake", "exit_wake", "exit_zombie"}
    BY <1>16, <2>1, Layers, Consts DEF ThreadTypes, TreeInv, ExitWake, WakeOne
  <2> QED  BY <1>16, <2>2, <2>3, TreeFrame DEF ExitWake, WakeOne
<1>17. ASSUME NEW c \in CPU, ExitZombie(c)
      PROVE  TreeInv'
  <2>1. run[c] \in Procs /\ run[c] # initproc /\ \A q \in Procs : parent[q] # run[c]
    BY <1>17, Layers, RunProc DEF TreeInv, ReparentInv, ReparentOK, ExitZombie
  <2>2. \A q \in Procs : state'[q] = IF q = run[c] THEN "ZOMBIE" ELSE state[q]
    BY <1>17, <2>1, Layers DEF ProcTypes, ExitZombie
  <2>3. pc'[initproc] = pc[initproc] /\ UNCHANGED parent
    BY <1>17, <2>1, Layers, Consts DEF ThreadTypes, ExitZombie
  <2>4. state[run[c]] \in Live /\ \A q \in Procs : parent[q] \in Procs \cup {NULL}
    BY <1>17, <2>1, Layers, RunState DEF ProcTypes, Live, SchedPoints, ExitZombie
  <2> QED  BY <2>1, <2>2, <2>3, <2>4, Layers, Consts DEF TreeInv
<1>18. ASSUME NEW c \in CPU, TicksSleep(c)
      PROVE  TreeInv'
  <2>1. run[c] \in Procs /\ state[run[c]] = "RUNNING"
    BY <1>18, RunState DEF SchedPoints, TicksSleep
  <2>2. \A p \in Procs : state'[p] = state[p] \/ {state[p], state'[p]} \subseteq Live
    BY <1>18, <2>1, Layers DEF ProcTypes, Live, TicksSleep, SleepOn
  <2>3. pc'[initproc] \notin {"reparent", "reparent_wake", "exit_wake", "exit_zombie"}
    BY <1>18, <2>1, Layers, Consts DEF ThreadTypes, TreeInv, TicksSleep, SleepOn
  <2> QED  BY <1>18, <2>2, <2>3, TreeFrame DEF TicksSleep, SleepOn
<1> QED  BY OrdinaryStep, <1>1, <1>2, <1>3, <1>4, <1>5, <1>6, <1>7, <1>8, <1>9, <1>10, <1>11,
     <1>12, <1>13, <1>14, <1>15, <1>16, <1>17, <1>18 DEF Special

(* The order of the slots. *)
LEMMA SlotOrder ==
  /\ \A q \in Procs : ~(q < 1) /\ q < NPROC + 1 /\ (q <= 1 <=> q = 1)
  /\ \A q \in Procs, i \in Slots : (q < i + 1 <=> q <= i) /\ (q <= i <=> q < i \/ q = i)
  /\ \A i \in Procs : i = NPROC \/ i # NPROC
BY ProcAssumption, SMTT(30) DEF Procs, Slots

(* A thread is not disturbed if it keeps its place in reparent() and nobody becomes its child. *)
LEMMA ReparentFrame ==
  ASSUME NEW p, ReparentOK(p), pc'[p] = pc[p], cur'[p] = cur[p],
         \A q \in Procs : parent'[q] = p => parent[q] = p
  PROVE  ReparentOK(p)'
BY DEF ReparentOK

(* reparent() leaves no child behind. *)
LEMMA ReparentInvStep ==
  ASSUME IInv, Next
  PROVE  ReparentInv'
<1>1. CASE Ordinary
  BY <1>1, Layers DEF ReparentInv, ReparentOK, Ordinary, SameWait, WaitHeld
<1>2. ASSUME NEW c \in CPU, AllocFound(c)
      PROVE  ReparentInv'
  BY <1>2, Layers, Consts, RunProc DEF ProcTypes, ThreadTypes, ReparentInv, ReparentOK,
     AllocFound
<1>3. ASSUME NEW c \in CPU, AllocFail(c)
      PROVE  ReparentInv'
  BY <1>3, Layers, Consts, RunProc DEF ProcTypes, ThreadTypes, ReparentInv, ReparentOK,
     AllocFail, Return, FreeProc
<1>4. ASSUME NEW c \in CPU, ForkParent(c)
      PROVE  ReparentInv'
  BY <1>4, Layers, Consts, RunProc DEF ProcTypes, ThreadTypes, ReparentInv, ReparentOK,
     ForkParent
<1>5. ASSUME NEW c \in CPU, ForkRun(c)
      PROVE  ReparentInv'
  BY <1>5, Layers, Consts, RunProc DEF ProcTypes, ThreadTypes, ReparentInv, ReparentOK,
     ForkRun, Return
<1>6. ASSUME NEW c \in CPU, WaitLock(c)
      PROVE  ReparentInv'
  BY <1>6, Layers, Consts, RunProc DEF ProcTypes, ThreadTypes, ReparentInv, ReparentOK,
     WaitLock
<1>7. ASSUME NEW c \in CPU, WaitNext(c)
      PROVE  ReparentInv'
  BY <1>7, Layers, Consts, RunProc DEF ProcTypes, ThreadTypes, ReparentInv, ReparentOK,
     WaitNext
<1>8. ASSUME NEW c \in CPU, WaitReap(c)
      PROVE  ReparentInv'
  BY <1>8, Layers, Consts, RunProc DEF ProcTypes, ThreadTypes, ReparentInv, ReparentOK,
     WaitReap, Return, FreeProc
<1>9. ASSUME NEW c \in CPU, WaitBadAddr(c)
      PROVE  ReparentInv'
  BY <1>9, Layers, Consts, RunProc DEF ProcTypes, ThreadTypes, ReparentInv, ReparentOK,
     WaitBadAddr, Return
<1>10. ASSUME NEW c \in CPU, WaitGiveUp(c)
      PROVE  ReparentInv'
  BY <1>10, Layers, Consts, RunProc DEF ProcTypes, ThreadTypes, ReparentInv, ReparentOK,
     WaitGiveUp, Return
<1>11. ASSUME NEW c \in CPU, WaitMore(c)
      PROVE  ReparentInv'
  BY <1>11, Layers, Consts, RunProc DEF ProcTypes, ThreadTypes, ReparentInv, ReparentOK,
     WaitMore
<1>12. ASSUME NEW c \in CPU, WaitSleep(c)
      PROVE  ReparentInv'
  BY <1>12, Layers, Consts, RunProc DEF ProcTypes, ThreadTypes, ReparentInv, ReparentOK,
     WaitSleep, SleepOn
<1>13. ASSUME NEW c \in CPU, ExitLock(c)
      PROVE  ReparentInv'
  <2>1. run[c] \in Procs
    BY <1>13, Layers, RunProc DEF ExitLock
  <2>2. ASSUME NEW p \in Procs, p # run[c]
        PROVE  ReparentOK(p)'
    BY <1>13, <2>1, <2>2, Layers, ReparentFrame DEF ThreadTypes, ReparentInv, ExitLock
  <2>3. ASSUME NEW p \in Procs, p = run[c]
        PROVE  ReparentOK(p)'
    BY <1>13, <2>1, <2>3, Layers, SlotOrder DEF ThreadTypes, ReparentOK, ExitLock
  <2> QED  BY <2>2, <2>3 DEF ReparentInv
<1>14. ASSUME NEW c \in CPU, Reparent(c)
      PROVE  ReparentInv'
  <2>1. run[c] \in Procs /\ pc[run[c]] = "reparent" /\ cur[run[c]] \in Slots
    BY <1>14, Layers, RunProc DEF ThreadTypes, Reparent
  <2>2. \A q \in Procs : q < cur[run[c]] => parent[q] # run[c]
    BY <2>1, Layers DEF ReparentInv, ReparentOK
  <2>3. CASE cur[run[c]] = NPROC + 1
    <3>1. ASSUME NEW p \in Procs, p # run[c]
          PROVE  ReparentOK(p)'
      BY <1>14, <2>1, <2>3, <3>1, Layers, ReparentFrame DEF ThreadTypes, ReparentInv, Reparent
    <3>2. ASSUME NEW p \in Procs, p = run[c]
          PROVE  ReparentOK(p)'
      <4>1. pc'[run[c]] = "exit_wake" /\ UNCHANGED parent
        BY <1>14, <2>1, <2>3, Layers DEF ThreadTypes, Reparent
      <4>2. \A q \in Procs : q < cur[run[c]]
        BY <2>3, SlotOrder, SMTT(30)
      <4> QED  BY <2>2, <3>2, <4>1, <4>2 DEF ReparentOK
    <3> QED  BY <3>1, <3>2 DEF ReparentInv
  <2>4. CASE cur[run[c]] # NPROC + 1 /\ parent[cur[run[c]]] = run[c]
    <3>1. /\ cur[run[c]] \in Procs /\ UNCHANGED cur /\ run[c] # initproc
          /\ pc[initproc] \notin {"reparent", "reparent_wake", "exit_wake", "exit_zombie"}
      BY <1>14, <2>1, <2>4, Layers, Cursors DEF TreeInv, Reparent
    <3>2. \A q \in Procs : parent'[q] = IF q = cur[run[c]] THEN initproc ELSE parent[q]
      BY <1>14, <2>4, <3>1, Layers DEF ProcTypes, Reparent
    <3>3. pc'[run[c]] = "reparent_wake" /\ \A q \in Procs : q # run[c] => pc'[q] = pc[q]
      BY <1>14, <2>1, <2>4, Layers DEF ThreadTypes, Reparent
    <3>4. ASSUME NEW p \in Procs, p # run[c]
          PROVE  ReparentOK(p)'
      <4>1. CASE p = initproc
        BY <3>1, <3>3, <3>4, <4>1 DEF ReparentOK
      <4>2. CASE p # initproc
        BY <3>1, <3>2, <3>3, <3>4, <4>2, Layers, ReparentFrame DEF ReparentInv
      <4> QED  BY <4>1, <4>2
    <3>5. ASSUME NEW p \in Procs, p = run[c]
          PROVE  ReparentOK(p)'
      BY <2>1, <2>2, <3>1, <3>2, <3>3, <3>5, SlotOrder DEF ReparentOK
    <3> QED  BY <3>4, <3>5 DEF ReparentInv
  <2>5. CASE cur[run[c]] # NPROC + 1 /\ parent[cur[run[c]]] # run[c]
    <3>1. ASSUME NEW p \in Procs, p # run[c]
          PROVE  ReparentOK(p)'
      BY <1>14, <2>1, <2>5, <3>1, Layers, ReparentFrame DEF ThreadTypes, ReparentInv, Reparent
    <3>2. /\ pc'[run[c]] = "reparent" /\ cur'[run[c]] = cur[run[c]] + 1 /\ UNCHANGED parent
      BY <1>14, <2>1, <2>5, Layers DEF ThreadTypes, Reparent
    <3>3. ASSUME NEW p \in Procs, p = run[c]
          PROVE  ReparentOK(p)'
      <4>1. cur[run[c]] \in Slots
        BY <2>1, Layers DEF ThreadTypes
      <4>2. \A q \in Procs : q < cur'[run[c]] => q < cur[run[c]] \/ q = cur[run[c]]
        BY <3>2, <4>1, SlotOrder, SMTT(30)
      <4>3. \A q \in Procs : q < cur'[run[c]] => parent[q] # run[c]
        BY <2>2, <2>5, <4>2
      <4> QED  BY <3>2, <3>3, <4>3 DEF ReparentOK
    <3> QED  BY <3>1, <3>3 DEF ReparentInv
  <2> QED  BY <2>3, <2>4, <2>5
<1>15. ASSUME NEW c \in CPU, ReparentWake(c)
      PROVE  ReparentInv'
  <2>1. run[c] \in Procs
    BY <1>15, Layers, RunProc DEF ReparentWake
  <2>2. ASSUME NEW p \in Procs, p # run[c]
        PROVE  ReparentOK(p)'
    BY <1>15, <2>1, <2>2, Layers, ReparentFrame DEF ThreadTypes, ReparentInv, ReparentWake,
       WakeOne
  <2>3. ASSUME NEW p \in Procs, p = run[c]
        PROVE  ReparentOK(p)'
    <3>1. CASE UNCHANGED <<pc, cur>>
      BY <1>15, <2>3, <3>1, Layers, ReparentFrame DEF ReparentInv, ReparentWake, WakeOne
    <3>2. CASE pc' = [pc EXCEPT ![run[c]] = "reparent"] /\ cur' = [cur EXCEPT ![run[c]] = @ + 1]
      <4>1. /\ pc[p] = "reparent_wake" /\ pc'[p] = "reparent" /\ cur'[p] = cur[p] + 1
            /\ cur[p] \in Slots /\ UNCHANGED parent
        BY <1>15, <2>1, <2>3, <3>2, Layers DEF ThreadTypes, ReparentWake, WakeOne
      <4>2. \A q \in Procs : q <= cur[p] => parent[q] # p
        BY <4>1, Layers DEF ReparentInv, ReparentOK
      <4> QED  BY <4>1, <4>2, SlotOrder, SMTT(30) DEF ReparentOK
    <3> QED  BY <1>15, <3>1, <3>2 DEF ReparentWake
  <2> QED  BY <2>2, <2>3 DEF ReparentInv
<1>16. ASSUME NEW c \in CPU, ExitWake(c)
      PROVE  ReparentInv'
  <2>1. run[c] \in Procs /\ pc[run[c]] = "exit_wake" /\ UNCHANGED <<parent, cur>>
    BY <1>16, Layers, RunProc DEF ExitWake, WakeOne
  <2>2. /\ pc'[run[c]] \in {"exit_wake", "exit_zombie"}
        /\ \A p \in Procs : p # run[c] => pc'[p] = pc[p]
    BY <1>16, <2>1, Layers DEF ThreadTypes, ExitWake
  <2>3. ASSUME NEW p \in Procs, p # run[c]
        PROVE  ReparentOK(p)'
    BY <2>1, <2>2, <2>3, Layers, ReparentFrame DEF ReparentInv
  <2>4. ASSUME NEW p \in Procs, p = run[c]
        PROVE  ReparentOK(p)'
    BY <2>1, <2>2, <2>4, Layers DEF ReparentInv, ReparentOK
  <2> QED  BY <2>3, <2>4 DEF ReparentInv
<1>17. ASSUME NEW c \in CPU, ExitZombie(c)
      PROVE  ReparentInv'
  BY <1>17, Layers, Consts, RunProc DEF ProcTypes, ThreadTypes, ReparentInv, ReparentOK,
     ExitZombie
<1>18. ASSUME NEW c \in CPU, TicksSleep(c)
      PROVE  ReparentInv'
  BY <1>18, Layers, Consts, RunProc DEF ProcTypes, ThreadTypes, ReparentInv, ReparentOK,
     TicksSleep, SleepOn
<1> QED  BY OrdinaryStep, <1>1, <1>2, <1>3, <1>4, <1>5, <1>6, <1>7, <1>8, <1>9, <1>10, <1>11,
     <1>12, <1>13, <1>14, <1>15, <1>16, <1>17, <1>18 DEF Special
=============================================================================
