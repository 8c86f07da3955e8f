---------------------------- MODULE ProcTheorems ----------------------------
(***************************************************************************)
(* Proofs about Proc, continued: the hand-over between exit() and wait()   *)
(* in layer 6, sys_sleep() in layer 7, and what follows.  For every size   *)
(* of the process table, every number of harts, every width of the tick    *)
(* counter and every choice of system calls and arguments, IInv is         *)
(* inductive, and the safety properties of Proc follow from it.            *)
(***************************************************************************)
EXTENDS ProcProofs

USE ZenonT(60) DEF procVars, idVars, lockVars, cpuVars, clockVars, localVars, cursors,
                   At, Goto, Free

-----------------------------------------------------------------------------
(* allocproc() looks at a slot that no thread runs on. *)
LEMMA AllocHere ==
  ASSUME IInv, NEW c \in CPU, At(c, "alloc"), Free(plock[cur[run[c]]]),
         state[cur[run[c]]] = "UNUSED"
  PROVE  run[c] \in Procs /\ cur[run[c]] \in Procs /\ pc[cur[run[c]]] \in SelfHeld
<1>1. run[c] \in Procs /\ cur[run[c]] \in Procs
  BY Layers, RunProc, CursorHere
<1> QED  BY <1>1, AtRest

-----------------------------------------------------------------------------
(* Layer 6: the hand-over between exit() and wait(). *)

(* A sleeping process is in wait() or sys_sleep(). *)
LEMMA SleepInvStep ==
  ASSUME IInv, Next
  PROVE  SleepInv'
<1>1. CASE Ordinary
  BY <1>1, Layers DEF SleepInv, SleepOK, Ordinary, SameLife
<1>2. ASSUME NEW c \in CPU, AllocFound(c)
      PROVE  SleepInv'
  BY <1>2, Layers, Consts, RunState DEF ProcTypes, ThreadTypes, SleepInv, SleepOK, AllocFound
<1>3. ASSUME NEW c \in CPU, AllocFail(c)
      PROVE  SleepInv'
  BY <1>3, Layers, Consts, RunState DEF ProcTypes, ThreadTypes, SleepInv, SleepOK, AllocFail,
     Return, FreeProc
<1>4. ASSUME NEW c \in CPU, ForkParent(c)
      PROVE  SleepInv'
  BY <1>4, Layers, Consts, RunState DEF ProcTypes, ThreadTypes, SleepInv, SleepOK, ForkParent
<1>5. ASSUME NEW c \in CPU, ForkRun(c)
      PROVE  SleepInv'
  BY <1>5, Layers, Consts, RunState DEF ProcTypes, ThreadTypes, SleepInv, SleepOK, ForkRun,
     Return
<1>6. ASSUME NEW c \in CPU, WaitLock(c)
      PROVE  SleepInv'
  BY <1>6, Layers, Consts, RunState DEF ProcTypes, ThreadTypes, SleepInv, SleepOK, WaitLock
<1>7. ASSUME NEW c \in CPU, WaitNext(c)
      PROVE  SleepInv'
  BY <1>7, Layers, Consts, RunState DEF ProcTypes, ThreadTypes, SleepInv, SleepOK, WaitNext
<1>8. ASSUME NEW c \in CPU, WaitReap(c)
      PROVE  SleepInv'
  BY <1>8, Layers, Consts, RunState DEF ProcTypes, ThreadTypes, SleepInv, SleepOK, WaitReap,
     Return, FreeProc
<1>9. ASSUME NEW c \in CPU, WaitBadAddr(c)
      PROVE  SleepInv'
  BY <1>9, Layers, Consts, RunState DEF ProcTypes, ThreadTypes, SleepInv, SleepOK,
     WaitBadAddr, Return
<1>10. ASSUME NEW c \in CPU, WaitGiveUp(c)
      PROVE  SleepInv'
  BY <1>10, Layers, Consts, RunState DEF ProcTypes, ThreadTypes, SleepInv, SleepOK,
     WaitGiveUp, Return
<1>11. ASSUME NEW c \in CPU, WaitMore(c)
      PROVE  SleepInv'
  BY <1>11, Layers, Consts, RunState DEF ProcTypes, ThreadTypes, SleepInv, SleepOK, WaitMore
<1>12. ASSUME NEW c \in CPU, WaitSleep(c)
      PROVE  SleepInv'
  BY <1>12, Layers, Consts, RunState DEF ProcTypes, ThreadTypes, SleepInv, SleepOK, WaitSleep,
     SleepOn
<1>13. ASSUME NEW c \in CPU, ExitLock(c)
      PROVE  SleepInv'
  BY <1>13, Layers, Consts, RunState DEF ProcTypes, ThreadTypes, SleepInv, SleepOK, ExitLock
<1>14. ASSUME NEW c \in CPU, Reparent(c)
      PROVE  SleepInv'
  BY <1>14, Layers, Consts, RunState DEF ProcTypes, ThreadTypes, SleepInv, SleepOK, Reparent
<1>15. ASSUME NEW c \in CPU, ReparentWake(c)
      PROVE  SleepInv'
  BY <1>15, Layers, Consts, RunState DEF ProcTypes, ThreadTypes, SleepInv, SleepOK,
     ReparentWake, WakeOne
<1>16. ASSUME NEW c \in CPU, ExitWake(c)
      PROVE  SleepInv'
  BY <1>16, Layers, Consts, RunState DEF ProcTypes, ThreadTypes, SleepInv, SleepOK, ExitWake,
     WakeOne
<1>17. ASSUME NEW c \in CPU, ExitZombie(c)
      PROVE  SleepInv'
  BY <1>17, Layers, Consts, RunState DEF ProcTypes, ThreadTypes, SleepInv, SleepOK, ExitZombie
<1>18. ASSUME NEW c \in CPU, TicksSleep(c)
      PROVE  SleepInv'
  BY <1>18, Layers, Consts, RunState DEF ProcTypes, ThreadTypes, SleepInv, SleepOK,
     TicksSleep, SleepOn
<1> QED  BY OrdinaryStep, <1>1, <1>2, <1>3, <1>4, <1>5, <1>6, <1>7, <1>8, <1>9, <1>10, <1>11,
     <1>12, <1>13, <1>14, <1>15, <1>16, <1>17, <1>18 DEF Special

(* The loop of wakeup() starts at the first slot. *)
LEMMA WakeInvStep ==
  ASSUME IInv, Next
  PROVE  WakeInv'
<1>1. CASE Ordinary
  BY <1>1, Layers DEF WakeInv, Ordinary, SameWait, WaitHeld
<1>2. ASSUME NEW c \in CPU, AllocFound(c)
      PROVE  WakeInv'
  <2>1. run[c] \in Procs /\ cur[run[c]] \in Procs /\ pc[cur[run[c]]] \in SelfHeld
    BY <1>2, AllocHere DEF AllocFound
  <2> QED  BY <1>2, <2>1, Layers DEF ThreadTypes, WakeInv, SelfHeld, AllocFound
<1>3. ASSUME NEW c \in CPU, AllocFail(c)
      PROVE  WakeInv'
  BY <1>3, Layers, Consts, RunProc DEF ProcTypes, ThreadTypes, WakeInv, AllocFail, Return,
     FreeProc
<1>4. ASSUME NEW c \in CPU, ForkParent(c)
      PROVE  WakeInv'
  BY <1>4, Layers, Consts, RunProc DEF ProcTypes, ThreadTypes, WakeInv, ForkParent
<1>5. ASSUME NEW c \in CPU, ForkRun(c)
      PROVE  WakeInv'
  BY <1>5, Layers, Consts, RunProc DEF ProcTypes, ThreadTypes, WakeInv, ForkRun, Return
<1>6. ASSUME NEW c \in CPU, WaitLock(c)
      PROVE  WakeInv'
  BY <1>6, Layers, Consts, RunProc DEF ProcTypes, ThreadTypes, WakeInv, WaitLock
<1>7. ASSUME NEW c \in CPU, WaitNext(c)
      PROVE  WakeInv'
  BY <1>7, Layers, Consts, RunProc DEF ProcTypes, ThreadTypes, WakeInv, WaitNext
<1>8. ASSUME NEW c \in CPU, WaitReap(c)
      PROVE  WakeInv'
  BY <1>8, Layers, Consts, RunProc DEF ProcTypes, ThreadTypes, WakeInv, WaitReap, Return,
     FreeProc
<1>9. ASSUME NEW c \in CPU, WaitBadAddr(c)
      PROVE  WakeInv'
  BY <1>9, Layers, Consts, RunProc DEF ProcTypes, ThreadTypes, WakeInv, WaitBadAddr, Return
<1>10. ASSUME NEW c \in CPU, WaitGiveUp(c)
      PROVE  WakeInv'
  BY <1>10, Layers, Consts, RunProc DEF ProcTypes, ThreadTypes, WakeInv, WaitGiveUp, Return
<1>11. ASSUME NEW c \in CPU, WaitMore(c)
      PROVE  WakeInv'
  BY <1>11, Layers, Consts, RunProc DEF ProcTypes, ThreadTypes, WakeInv, WaitMore
<1>12. ASSUME NEW c \in CPU, WaitSleep(c)
      PROVE  WakeInv'
  BY <1>12, Layers, Consts, RunProc DEF ProcTypes, ThreadTypes, WakeInv, WaitSleep, SleepOn
<1>13. ASSUME NEW c \in CPU, ExitLock(c)
      PROVE  WakeInv'
  BY <1>13, Layers, Consts, RunProc DEF ProcTypes, ThreadTypes, WakeInv, ExitLock
<1>14. ASSUME NEW c \in CPU, Reparent(c)
      PROVE  WakeInv'
  BY <1>14, Layers, Consts, RunProc, SMTT(30) DEF ProcTypes, ThreadTypes, WakeInv, Reparent
<1>15. ASSUME NEW c \in CPU, ReparentWake(c)
      PROVE  WakeInv'
  BY <1>15, Layers, Consts, RunProc, SMTT(30)
     DEF ProcTypes, ThreadTypes, WakeInv, ReparentWake, WakeOne
<1>16. ASSUME NEW c \in CPU, ExitWake(c)
      PROVE  WakeInv'
  BY <1>16, Layers, Consts, RunProc, SMTT(30)
     DEF ProcTypes, ThreadTypes, WakeInv, ExitWake, WakeOne
<1>17. ASSUME NEW c \in CPU, ExitZombie(c)
      PROVE  WakeInv'
  BY <1>17, Layers, Consts, RunProc DEF ProcTypes, ThreadTypes, WakeInv, ExitZombie
<1>18. ASSUME NEW c \in CPU, TicksSleep(c)
      PROVE  WakeInv'
  BY <1>18, Layers, Consts, RunProc DEF ProcTypes, ThreadTypes, WakeInv, TicksSleep, SleepOn
<1> QED  BY OrdinaryStep, <1>1, <1>2, <1>3, <1>4, <1>5, <1>6, <1>7, <1>8, <1>9, <1>10, <1>11,
     <1>12, <1>13, <1>14, <1>15, <1>16, <1>17, <1>18 DEF Special

(* wait() passes no zombie child. *)
LEMMA ScanInvStep ==
  ASSUME IInv, Next
  PROVE  ScanInv'
<1>1. CASE Ordinary
  BY <1>1, Layers, SMTT(30) DEF ScanInv, Passed, Ordinary, SameLife, SameWait, Live, WaitHeld
<1>2. ASSUME NEW c \in CPU, AllocFound(c)
      PROVE  ScanInv'
  BY <1>2, Layers, Consts, RunState DEF ProcTypes, ThreadTypes, ScanInv, Passed, AllocFound
<1>3. ASSUME NEW c \in CPU, AllocFail(c)
      PROVE  ScanInv'
  BY <1>3, Layers, Consts, RunState DEF ProcTypes, ThreadTypes, ScanInv, Passed, AllocFail,
     Return, FreeProc
<1>4. ASSUME NEW c \in CPU, ForkParent(c)
      PROVE  ScanInv'
  BY <1>4, Layers, Consts, RunState DEF ProcTypes, ThreadTypes, ScanInv, Passed, ForkParent
<1>5. ASSUME NEW c \in CPU, ForkRun(c)
      PROVE  ScanInv'
  BY <1>5, Layers, Consts, RunState DEF ProcTypes, ThreadTypes, ScanInv, Passed, ForkRun,
     Return
<1>6. ASSUME NEW c \in CPU, WaitLock(c)
      PROVE  ScanInv'
  <2>1. run[c] \in Procs /\ cur'[run[c]] = 1 /\ pc'[run[c]] = "wait_scan"
    BY <1>6, Layers, RunProc DEF ThreadTypes, WaitLock
  <2>2. ASSUME NEW p \in Procs, NEW q \in Procs, Passed(p, q)', parent'[q] = p
        PROVE  state'[q] # "ZOMBIE"
    <3>1. p # run[c]
      BY <2>1, <2>2, SlotOrder DEF Passed
    <3>2. Passed(p, q)
      BY <1>6, <2>1, <2>2, <3>1, Layers DEF ThreadTypes, Passed, WaitLock
    <3> QED  BY <1>6, <2>2, <3>2, Layers DEF ScanInv, WaitLock
  <2> QED  BY <2>2 DEF ScanInv
<1>7. ASSUME NEW c \in CPU, WaitNext(c)
      PROVE  ScanInv'
  <2>1. /\ run[c] \in Procs /\ cur[run[c]] \in Procs /\ cur[run[c]] \in Slots
        /\ cur'[run[c]] = cur[run[c]] + 1 /\ pc[run[c]] = "wait_scan"
    BY <1>7, Layers, RunProc DEF ThreadTypes, WaitNext
  <2>2. ASSUME NEW p \in Procs, NEW q \in Procs, Passed(p, q)', parent'[q] = p
        PROVE  state'[q] # "ZOMBIE"
    <3>1. Passed(p, q) \/ (p = run[c] /\ q = cur[run[c]])
      BY <1>7, <2>1, <2>2, Layers, SlotOrder DEF ThreadTypes, Passed, WaitNext
    <3> QED  BY <1>7, <2>2, <3>1, Layers DEF ScanInv, WaitNext
  <2> QED  BY <2>2 DEF ScanInv
<1>8. ASSUME NEW c \in CPU, WaitReap(c)
      PROVE  ScanInv'
  BY <1>8, Layers, Consts, RunState DEF ProcTypes, ThreadTypes, ScanInv, Passed, WaitReap,
     Return, FreeProc
<1>9. ASSUME NEW c \in CPU, WaitBadAddr(c)
      PROVE  ScanInv'
  BY <1>9, Layers, Consts, RunState DEF ProcTypes, ThreadTypes, ScanInv, Passed, WaitBadAddr,
     Return
<1>10. ASSUME NEW c \in CPU, WaitGiveUp(c)
      PROVE  ScanInv'
  BY <1>10, Layers, Consts, RunState DEF ProcTypes, ThreadTypes, ScanInv, Passed, WaitGiveUp,
     Return
<1>11. ASSUME NEW c \in CPU, WaitMore(c)
      PROVE  ScanInv'
  <2>1. run[c] \in Procs /\ cur[run[c]] = NPROC + 1 /\ pc[run[c]] = "wait_scan"
    BY <1>11, Layers, RunProc DEF WaitMore
  <2>2. ASSUME NEW p \in Procs, NEW q \in Procs, Passed(p, q)', parent'[q] = p
        PROVE  state'[q] # "ZOMBIE"
    <3>1. Passed(p, q)
      BY <1>11, <2>1, <2>2, Layers, SlotOrder, SMTT(30) DEF ThreadTypes, Passed, WaitMore
    <3> QED  BY <1>11, <2>2, <3>1, Layers DEF ScanInv, WaitMore
  <2> QED  BY <2>2 DEF ScanInv
<1>12. ASSUME NEW c \in CPU, WaitSleep(c)
      PROVE  ScanInv'
  BY <1>12, Layers, Consts, RunState DEF ProcTypes, ThreadTypes, ScanInv, Passed, WaitSleep,
     SleepOn
<1>13. ASSUME NEW c \in CPU, ExitLock(c)
      PROVE  ScanInv'
  BY <1>13, Layers, Consts, RunState DEF ProcTypes, ThreadTypes, ScanInv, Passed, ExitLock
<1>14. ASSUME NEW c \in CPU, Reparent(c)
      PROVE  ScanInv'
  <2>1. \A p \in Procs : pc[p] \in WaitHeld => p = run[c]
    BY <1>14, Layers, RunProc, WaitMutex DEF WaitHeld, Reparent
  <2>2. ASSUME NEW p \in Procs, NEW q \in Procs
        PROVE  ~Passed(p, q)'
    BY <1>14, <2>1, Layers DEF ThreadTypes, Passed, WaitHeld, Reparent
  <2> QED  BY <2>2 DEF ScanInv
<1>15. ASSUME NEW c \in CPU, ReparentWake(c)
      PROVE  ScanInv'
  BY <1>15, Layers, Consts, RunState, SMTT(30) DEF ProcTypes, ThreadTypes, ScanInv, Passed,
     ReparentWake, WakeOne
<1>16. ASSUME NEW c \in CPU, ExitWake(c)
      PROVE  ScanInv'
  BY <1>16, Layers, Consts, RunState, SMTT(30)
     DEF ProcTypes, ThreadTypes, ScanInv, Passed, ExitWake,
     WakeOne
<1>17. ASSUME NEW c \in CPU, ExitZombie(c)
      PROVE  ScanInv'
  <2>1. \A p \in Procs : pc[p] \in WaitHeld => p = run[c]
    BY <1>17, Layers, RunProc, WaitMutex DEF WaitHeld, ExitZombie
  <2>2. ASSUME NEW p \in Procs, NEW q \in Procs
        PROVE  ~Passed(p, q)'
    BY <1>17, <2>1, Layers DEF ThreadTypes, Passed, WaitHeld, ExitZombie
  <2> QED  BY <2>2 DEF ScanInv
<1>18. ASSUME NEW c \in CPU, TicksSleep(c)
      PROVE  ScanInv'
  BY <1>18, Layers, Consts, RunState DEF ProcTypes, ThreadTypes, ScanInv, Passed, TicksSleep,
     SleepOn
<1> QED  BY OrdinaryStep, <1>1, <1>2, <1>3, <1>4, <1>5, <1>6, <1>7, <1>8, <1>9, <1>10, <1>11,
     <1>12, <1>13, <1>14, <1>15, <1>16, <1>17, <1>18 DEF Special

(* What exit() has done is not disturbed while the parent stays awake. *)
LEMMA WokenFrame ==
  ASSUME IInv, \A p \in Procs : InWait(p)' => InWait(p),
         \A p \in Procs : ParentWoken(p)' => ParentWoken(p) /\ parent'[p] \in {parent[p], NULL}
  PROVE  WokenInv'
<1>1. \A p \in Procs : parent[p] \in Procs \cup {NULL}
  BY Layers DEF ProcTypes
<1> QED  BY <1>1, Layers DEF WokenInv

(* exit() has woken the parent that it passed. *)
LEMMA WokenInvStep ==
  ASSUME IInv, Next
  PROVE  WokenInv'
<1>1. CASE Ordinary
  <2>1. \A p \in Procs : InWait(p)' => InWait(p)
    BY <1>1, Consts DEF InWait, Ordinary, SameLife
  <2>2. \A p \in Procs : ParentWoken(p)' => ParentWoken(p) /\ parent'[p] = parent[p]
    BY <1>1 DEF ParentWoken, Ordinary, SameWait, WaitHeld
  <2> QED  BY <2>1, <2>2, WokenFrame
<1>2. ASSUME NEW c \in CPU, AllocFound(c)
      PROVE  WokenInv'
  BY <1>2, Layers, Consts, RunState DEF ProcTypes, ThreadTypes, WokenInv, ParentWoken, InWait,
     AllocFound
<1>3. ASSUME NEW c \in CPU, AllocFail(c)
      PROVE  WokenInv'
  <2>1. run[c] \in Procs /\ cur[run[c]] \in Procs /\ pc[cur[run[c]]] \in SelfHeld
    BY <1>3, AllocHere DEF AllocFail
  <2>2. \A p \in Procs : InWait(p)' => InWait(p)
    BY <1>3, <2>1, Layers DEF ProcTypes, InWait, AllocFail, FreeProc
  <2>3. \A p \in Procs : ParentWoken(p)' => ParentWoken(p) /\ parent'[p] = parent[p]
    BY <1>3, <2>1, Layers DEF ProcTypes, ThreadTypes, ParentWoken, SelfHeld, AllocFail,
       FreeProc, Return
  <2> QED  BY <2>2, <2>3, WokenFrame
<1>4. ASSUME NEW c \in CPU, ForkParent(c)
      PROVE  WokenInv'
  <2>1. run[c] \in Procs /\ cur[run[c]] \in Procs /\ pc[cur[run[c]]] = "forkret"
    BY <1>4, ForkHere DEF ForkParent
  <2>2. \A p \in Procs : InWait(p)' => InWait(p)
    BY <1>4 DEF InWait, ForkParent
  <2>3. \A p \in Procs : ParentWoken(p)' => ParentWoken(p) /\ parent'[p] = parent[p]
    BY <1>4, <2>1, Layers DEF ProcTypes, ThreadTypes, ParentWoken, ForkParent
  <2> QED  BY <2>2, <2>3, WokenFrame
<1>5. ASSUME NEW c \in CPU, ForkRun(c)
      PROVE  WokenInv'
  BY <1>5, Layers, Consts, RunState DEF ProcTypes, ThreadTypes, WokenInv, ParentWoken, InWait,
     ForkRun, Return
<1>6. ASSUME NEW c \in CPU, WaitLock(c)
      PROVE  WokenInv'
  BY <1>6, Layers, Consts, RunState DEF ProcTypes, ThreadTypes, WokenInv, ParentWoken, InWait,
     WaitLock
<1>7. ASSUME NEW c \in CPU, WaitNext(c)
      PROVE  WokenInv'
  BY <1>7, Layers, Consts, RunState DEF ProcTypes, ThreadTypes, WokenInv, ParentWoken, InWait,
     WaitNext
<1>8. ASSUME NEW c \in CPU, WaitReap(c)
      PROVE  WokenInv'
  BY <1>8, Layers, Consts, RunState, SMTT(30)
     DEF ProcTypes, ThreadTypes, WokenInv, ParentWoken, InWait,
     WaitReap, Return, FreeProc
<1>9. ASSUME NEW c \in CPU, WaitBadAddr(c)
      PROVE  WokenInv'
  BY <1>9, Layers, Consts, RunState DEF ProcTypes, ThreadTypes, WokenInv, ParentWoken, InWait,
     WaitBadAddr, Return
<1>10. ASSUME NEW c \in CPU, WaitGiveUp(c)
      PROVE  WokenInv'
  BY <1>10, Layers, Consts, RunState DEF ProcTypes, ThreadTypes, WokenInv, ParentWoken,
     InWait, WaitGiveUp, Return
<1>11. ASSUME NEW c \in CPU, WaitMore(c)
      PROVE  WokenInv'
  BY <1>11, Layers, Consts, RunState DEF ProcTypes, ThreadTypes, WokenInv, ParentWoken,
     InWait, WaitMore
<1>12. ASSUME NEW c \in CPU, WaitSleep(c)
      PROVE  WokenInv'
  <2>1. \A p \in Procs : pc[p] \in WaitHeld => p = run[c]
    BY <1>12, Layers, RunProc, WaitMutex DEF WaitHeld, WaitSleep
  <2>2. ASSUME NEW p \in Procs
        PROVE  ~ParentWoken(p)'
    BY <1>12, <2>1, Layers, RunProc DEF ThreadTypes, ParentWoken, WaitHeld, WaitSleep, SleepOn
  <2> QED  BY <2>2 DEF WokenInv
<1>13. ASSUME NEW c \in CPU, ExitLock(c)
      PROVE  WokenInv'
  BY <1>13, Layers, Consts, RunState DEF ProcTypes, ThreadTypes, WokenInv, ParentWoken,
     InWait, ExitLock
<1>14. ASSUME NEW c \in CPU, Reparent(c)
      PROVE  WokenInv'
  <2>1. \A p \in Procs : pc[p] \in WaitHeld => p = run[c]
    BY <1>14, Layers, RunProc, WaitMutex DEF WaitHeld, Reparent
  <2>2. run[c] \in Procs /\ wcur'[run[c]] = 1
    BY <1>14, Layers, RunProc DEF WakeInv, Reparent
  <2>3. ASSUME NEW p \in Procs, parent'[p] # NULL
        PROVE  ~ParentWoken(p)'
    <3>1. p # run[c] => pc'[p] \notin {"exit_wake", "exit_zombie"}
      BY <1>14, <2>1, <2>2, Layers DEF ThreadTypes, WaitHeld, Reparent
    <3>2. pc'[run[c]] # "exit_zombie"
      BY <1>14, <2>2, Layers DEF ThreadTypes, Reparent
    <3>3. parent'[p] \in Procs
      <4>1. parent'[p] = initproc \/ parent'[p] = parent[p]
        BY <1>14, Layers DEF ProcTypes, Reparent
      <4> QED  BY <2>3, <4>1, Layers, Consts DEF ProcTypes
    <3> QED  BY <2>2, <3>1, <3>2, <3>3, SlotOrder DEF ParentWoken
  <2> QED  BY <2>3 DEF WokenInv
<1>15. ASSUME NEW c \in CPU, ReparentWake(c)
      PROVE  WokenInv'
  BY <1>15, Layers, Consts, RunState, SMTT(30) DEF ProcTypes, ThreadTypes, WokenInv, ParentWoken,
     InWait, ReparentWake, WakeOne
<1>16. ASSUME NEW c \in CPU, ExitWake(c)
      PROVE  WokenInv'
  <2>1. \A p \in Procs : pc[p] \in WaitHeld => p = run[c]
    BY <1>16, Layers, RunProc, WaitMutex DEF WaitHeld, ExitWake
  <2>2. /\ run[c] \in Procs /\ wcur[run[c]] \in Procs /\ pc[run[c]] = "exit_wake"
        /\ parent[run[c]] # run[c] /\ parent[run[c]] \in Procs \cup {NULL}
        /\ UNCHANGED <<parent, run>>
    BY <1>16, Layers, RunProc DEF ProcTypes, ThreadTypes, TreeInv, ExitWake, WakeOne
  <2>3. ASSUME NEW p \in Procs, p # run[c]
        PROVE  ~ParentWoken(p)'
    BY <1>16, <2>1, <2>2, <2>3, Layers DEF ThreadTypes, ParentWoken, WaitHeld, ExitWake
  <2>4. ASSUME NEW r \in Procs, r = run[c], ParentWoken(r)', NEW p \in Procs, p = parent[r]
        PROVE  ~InWait(p)'
    <3>1. p < wcur[run[c]] + 1
      <4>1. CASE wcur[run[c]] = NPROC
        BY <2>4, <4>1, SlotOrder
      <4>2. CASE wcur[run[c]] # NPROC
        <5>1. pc'[run[c]] = "exit_wake" /\ wcur'[run[c]] = wcur[run[c]] + 1
          BY <1>16, <2>2, <4>2, Layers DEF ThreadTypes, ExitWake
        <5> QED  BY <1>16, <2>2, <2>4, <5>1 DEF ParentWoken, ExitWake
      <4> QED  BY <4>1, <4>2
    <3>2. p < wcur[run[c]] \/ p = wcur[run[c]]
      BY <2>2, <2>4, <3>1, Cursors, SlotOrder
    <3>3. CASE p < wcur[run[c]]
      <4>1. ~InWait(p)
        BY <2>2, <2>4, <3>3, Layers, Consts DEF WokenInv, ParentWoken
      <4> QED  BY <1>16, <2>4, <4>1, Layers DEF ProcTypes, InWait, ExitWake, WakeOne
    <3>4. CASE p = wcur[run[c]]
      BY <1>16, <2>2, <2>4, <3>4, Layers DEF ProcTypes, InWait, ExitWake, WakeOne
    <3> QED  BY <3>2, <3>3, <3>4
  <2>5. ASSUME NEW r \in Procs, ParentWoken(r)', NEW p \in Procs, p = parent'[r]
        PROVE  ~InWait(p)'
    BY <2>2, <2>3, <2>4, <2>5
  <2>6. \A r \in Procs : parent'[r] \in Procs \cup {NULL}
    BY <2>2, Layers DEF ProcTypes
  <2> QED  BY <2>5, <2>6 DEF WokenInv, InWait
<1>17. ASSUME NEW c \in CPU, ExitZombie(c)
      PROVE  WokenInv'
  BY <1>17, Layers, Consts, RunState DEF ProcTypes, ThreadTypes, WokenInv, ParentWoken,
     InWait, ExitZombie
<1>18. ASSUME NEW c \in CPU, TicksSleep(c)
      PROVE  WokenInv'
  BY <1>18, Layers, Consts, RunState DEF ProcTypes, ThreadTypes, WokenInv, ParentWoken,
     InWait, TicksSleep, SleepOn
<1> QED  BY OrdinaryStep, <1>1, <1>2, <1>3, <1>4, <1>5, <1>6, <1>7, <1>8, <1>9, <1>10, <1>11,
     <1>12, <1>13, <1>14, <1>15, <1>16, <1>17, <1>18 DEF Special

(* A zombie and its sleeping parent are not disturbed by a step that makes neither. *)
LEMMA ZombieFrame ==
  ASSUME IInv, \A p \in Procs : InWait(p)' => InWait(p),
         \A q \in Procs : state'[q] = "ZOMBIE" => state[q] = "ZOMBIE" /\ parent'[q] = parent[q],
         \A d \in CPU : Waker(d) => Waker(d)'
  PROVE  ZombieInv'
BY Layers DEF ZombieInv

(* Whoever holds wait_lock sees no zombie with a sleeping parent, except in *)
(* reparent(), before it gets to wake init.                                 *)
LEMMA NoZombie ==
  ASSUME IInv, NEW c \in CPU, run[c] # NULL, pc[run[c]] \in WaitHeld, ~Waker(c)
  PROVE  \A p, q \in Procs : ~(InWait(p) /\ parent[q] = p /\ state[q] = "ZOMBIE")
<1>1. ASSUME NEW d \in CPU, Waker(d)
      PROVE  FALSE
  <2>1. run[d] \in Procs /\ run[c] \in Procs /\ pc[run[d]] \in WaitHeld
    BY <1>1, Layers, RunProc DEF Waker, WaitHeld
  <2>2. run[d] = run[c]
    BY <2>1, WaitMutex
  <2> QED  BY <1>1, <2>2 DEF Waker
<1> QED  BY <1>1, Layers DEF ZombieInv

(* A step of a thread outside reparent()'s wakeup that changes no process's state, *)
(* channel or parent disturbs no zombie either.                                   *)
LEMMA ZombieSame ==
  ASSUME IInv, NEW c \in CPU, run[c] \in Procs, pc[run[c]] # "reparent_wake",
         UNCHANGED <<state, chan, parent, run>>,
         \A q \in Procs \ {run[c]} : pc'[q] = pc[q] /\ wcur'[q] = wcur[q]
  PROVE  ZombieInv'
<1>1. \A p \in Procs : InWait(p)' => InWait(p)
  BY DEF InWait
<1>2. ASSUME NEW d \in CPU, Waker(d)
      PROVE  Waker(d)'
  <2>1. run[d] \in Procs \ {run[c]} /\ run'[d] = run[d]
    BY <1>2, Layers, RunProc DEF Waker
  <2> QED  BY <1>2, <2>1 DEF Waker
<1> QED  BY <1>1, <1>2, ZombieFrame

(* No sleeping parent has a zombie, unless its wakeup is on the way. *)
LEMMA ZombieInvStep ==
  ASSUME IInv, Next
  PROVE  ZombieInv'
<1>1. CASE Ordinary
  <2>1. \A p \in Procs : InWait(p)' => InWait(p)
    BY <1>1, Consts DEF InWait, Ordinary, SameLife
  <2>2. \A q \in Procs : state'[q] = "ZOMBIE" => state[q] = "ZOMBIE" /\ parent'[q] = parent[q]
    BY <1>1 DEF Ordinary, SameLife, Live
  <2>3. \A d \in CPU : Waker(d) => Waker(d)'
    BY <1>1, Layers, RunProc DEF Waker, Ordinary, SameWait, WaitHeld
  <2> QED  BY <2>1, <2>2, <2>3, ZombieFrame
<1>2. ASSUME NEW c \in CPU, AllocFound(c)
      PROVE  ZombieInv'
  <2>1. run[c] \in Procs /\ cur[run[c]] \in Procs /\ pc[cur[run[c]]] \in SelfHeld
    BY <1>2, AllocHere DEF AllocFound
  <2>2. \A p \in Procs : InWait(p)' => InWait(p)
    BY <1>2, <2>1, Layers DEF ProcTypes, InWait, AllocFound
  <2>3. \A q \in Procs : state'[q] = "ZOMBIE" => state[q] = "ZOMBIE" /\ parent'[q] = parent[q]
    BY <1>2, <2>1, Layers DEF ProcTypes, AllocFound
  <2>4. \A d \in CPU : Waker(d) => Waker(d)'
    BY <1>2, <2>1, Layers, RunProc DEF ThreadTypes, Waker, SelfHeld, AllocFound
  <2> QED  BY <2>2, <2>3, <2>4, ZombieFrame
<1>3. ASSUME NEW c \in CPU, AllocFail(c)
      PROVE  ZombieInv'
  <2>1. run[c] \in Procs /\ cur[run[c]] \in Procs /\ pc[cur[run[c]]] \in SelfHeld
    BY <1>3, AllocHere DEF AllocFail
  <2>2. \A p \in Procs : InWait(p)' => InWait(p)
    BY <1>3, <2>1, Layers DEF ProcTypes, InWait, AllocFail, Return, FreeProc
  <2>3. \A q \in Procs : state'[q] = "ZOMBIE" => state[q] = "ZOMBIE" /\ parent'[q] = parent[q]
    BY <1>3, <2>1, Layers DEF ProcTypes, AllocFail, Return, FreeProc
  <2>4. \A d \in CPU : Waker(d) => Waker(d)'
    BY <1>3, <2>1, Layers, RunProc DEF ThreadTypes, Waker, SelfHeld, AllocFail, Return,
       FreeProc
  <2> QED  BY <2>2, <2>3, <2>4, ZombieFrame
<1>4. ASSUME NEW c \in CPU, ForkParent(c)
      PROVE  ZombieInv'
  <2>1. /\ run[c] \in Procs /\ cur[run[c]] \in Procs /\ state[cur[run[c]]] = "USED"
        /\ pc[cur[run[c]]] = "forkret"
    BY <1>4, ForkHere DEF ForkParent
  <2>2. \A p \in Procs : InWait(p)' => InWait(p)
    BY <1>4, <2>1, Layers DEF ProcTypes, InWait, ForkParent
  <2>3. \A q \in Procs : state'[q] = "ZOMBIE" => state[q] = "ZOMBIE" /\ parent'[q] = parent[q]
    BY <1>4, <2>1, Layers DEF ProcTypes, ForkParent
  <2>4. \A d \in CPU : Waker(d) => Waker(d)'
    BY <1>4, <2>1, Layers, RunProc DEF ThreadTypes, Waker, SelfHeld, ForkParent
  <2> QED  BY <2>2, <2>3, <2>4, ZombieFrame
<1>5. ASSUME NEW c \in CPU, ForkRun(c)
      PROVE  ZombieInv'
  <2>1. /\ run[c] \in Procs /\ cur[run[c]] \in Procs /\ state[cur[run[c]]] = "USED"
        /\ pc[cur[run[c]]] = "forkret"
    BY <1>5, ForkHere DEF ForkRun
  <2>2. \A p \in Procs : InWait(p)' => InWait(p)
    BY <1>5, <2>1, Layers DEF ProcTypes, InWait, ForkRun, Return
  <2>3. \A q \in Procs : state'[q] = "ZOMBIE" => state[q] = "ZOMBIE" /\ parent'[q] = parent[q]
    BY <1>5, <2>1, Layers DEF ProcTypes, ForkRun, Return
  <2>4. \A d \in CPU : Waker(d) => Waker(d)'
    BY <1>5, <2>1, Layers, RunProc DEF ThreadTypes, Waker, SelfHeld, ForkRun, Return
  <2> QED  BY <2>2, <2>3, <2>4, ZombieFrame
<1>6. ASSUME NEW c \in CPU, WaitLock(c)
      PROVE  ZombieInv'
  <2>1. run[c] \in Procs /\ pc[run[c]] # "reparent_wake"
    BY <1>6, Layers, RunProc DEF WaitLock
  <2>2. UNCHANGED <<state, chan, parent, run>>
    BY <1>6 DEF WaitLock
  <2>3. \A q \in Procs \ {run[c]} : pc'[q] = pc[q] /\ wcur'[q] = wcur[q]
    BY <1>6, Layers DEF ThreadTypes, WaitLock
  <2> QED  BY <2>1, <2>2, <2>3, ZombieSame
<1>7. ASSUME NEW c \in CPU, WaitNext(c)
      PROVE  ZombieInv'
  <2>1. run[c] \in Procs /\ pc[run[c]] # "reparent_wake"
    BY <1>7, Layers, RunProc DEF WaitNext
  <2>2. UNCHANGED <<state, chan, parent, run>>
    BY <1>7 DEF WaitNext
  <2>3. \A q \in Procs \ {run[c]} : pc'[q] = pc[q] /\ wcur'[q] = wcur[q]
    BY <1>7, Layers DEF ThreadTypes, WaitNext
  <2> QED  BY <2>1, <2>2, <2>3, ZombieSame
<1>8. ASSUME NEW c \in CPU, WaitReap(c)
      PROVE  ZombieInv'
  <2>1. run[c] \in Procs /\ \A p, q \in Procs : ~(InWait(p) /\ parent[q] = p /\ state[q] = "ZOMBIE")
    BY <1>8, Layers, RunProc, NoZombie DEF Waker, WaitHeld, WaitReap
  <2>2. \A p \in Procs : InWait(p)' => InWait(p)
    BY <1>8, Layers DEF ProcTypes, InWait, WaitReap, FreeProc
  <2>3. \A q \in Procs : state'[q] = "ZOMBIE" => state[q] = "ZOMBIE" /\ parent'[q] = parent[q]
    BY <1>8, Layers DEF ProcTypes, WaitReap, FreeProc
  <2> QED  BY <2>1, <2>2, <2>3 DEF ZombieInv
<1>9. ASSUME NEW c \in CPU, WaitBadAddr(c)
      PROVE  ZombieInv'
  <2>1. run[c] \in Procs /\ pc[run[c]] # "reparent_wake"
    BY <1>9, Layers, RunProc DEF WaitBadAddr
  <2>2. UNCHANGED <<state, chan, parent, run>>
    BY <1>9 DEF WaitBadAddr, Return
  <2>3. \A q \in Procs \ {run[c]} : pc'[q] = pc[q] /\ wcur'[q] = wcur[q]
    BY <1>9, Layers DEF ThreadTypes, WaitBadAddr, Return
  <2> QED  BY <2>1, <2>2, <2>3, ZombieSame
<1>10. ASSUME NEW c \in CPU, WaitGiveUp(c)
      PROVE  ZombieInv'
  <2>1. run[c] \in Procs /\ pc[run[c]] # "reparent_wake"
    BY <1>10, Layers, RunProc DEF WaitGiveUp
  <2>2. UNCHANGED <<state, chan, parent, run>>
    BY <1>10 DEF WaitGiveUp, Return
  <2>3. \A q \in Procs \ {run[c]} : pc'[q] = pc[q] /\ wcur'[q] = wcur[q]
    BY <1>10, Layers DEF ThreadTypes, WaitGiveUp, Return
  <2> QED  BY <2>1, <2>2, <2>3, ZombieSame
<1>11. ASSUME NEW c \in CPU, WaitMore(c)
      PROVE  ZombieInv'
  <2>1. run[c] \in Procs /\ pc[run[c]] # "reparent_wake"
    BY <1>11, Layers, RunProc DEF WaitMore
  <2>2. UNCHANGED <<state, chan, parent, run>>
    BY <1>11 DEF WaitMore
  <2>3. \A q \in Procs \ {run[c]} : pc'[q] = pc[q] /\ wcur'[q] = wcur[q]
    BY <1>11, Layers DEF ThreadTypes, WaitMore
  <2> QED  BY <2>1, <2>2, <2>3, ZombieSame
<1>12. ASSUME NEW c \in CPU, WaitSleep(c)
      PROVE  ZombieInv'
  <2>1. run[c] \in Procs /\ \A p, q \in Procs : ~(InWait(p) /\ parent[q] = p /\ state[q] = "ZOMBIE")
    BY <1>12, Layers, RunProc, NoZombie DEF Waker, WaitHeld, WaitSleep
  <2>2. \A p \in Procs : InWait(p)' => InWait(p) \/ p = run[c]
    BY <1>12, <2>1, Layers DEF ProcTypes, InWait, WaitSleep, SleepOn
  <2>3. \A q \in Procs : state'[q] = "ZOMBIE" => state[q] = "ZOMBIE"
    BY <1>12, <2>1, Layers DEF ProcTypes, WaitSleep, SleepOn
  <2>4. UNCHANGED parent /\ \A q \in Procs : Passed(run[c], q)
    BY <1>12 DEF WaitSleep, SleepOn, Passed
  <2> QED  BY <2>1, <2>2, <2>3, <2>4, Layers DEF ScanInv, ZombieInv
<1>13. ASSUME NEW c \in CPU, ExitLock(c)
      PROVE  ZombieInv'
  <2>1. run[c] \in Procs /\ pc[run[c]] # "reparent_wake"
    BY <1>13, Layers, RunProc DEF ExitLock
  <2>2. UNCHANGED <<state, chan, parent, run>>
    BY <1>13 DEF ExitLock
  <2>3. \A q \in Procs \ {run[c]} : pc'[q] = pc[q] /\ wcur'[q] = wcur[q]
    BY <1>13, Layers DEF ThreadTypes, ExitLock
  <2> QED  BY <2>1, <2>2, <2>3, ZombieSame
<1>14. ASSUME NEW c \in CPU, Reparent(c)
      PROVE  ZombieInv'
  <2>1. run[c] \in Procs /\ \A p, q \in Procs : ~(InWait(p) /\ parent[q] = p /\ state[q] = "ZOMBIE")
    BY <1>14, Layers, RunProc, NoZombie DEF Waker, WaitHeld, Reparent
  <2>2. UNCHANGED <<state, chan, run, wcur>>
    BY <1>14 DEF Reparent
  <2>3. CASE UNCHANGED parent
    BY <2>1, <2>2, <2>3 DEF ZombieInv, InWait
  <2>4. CASE /\ cur[run[c]] # NPROC + 1
             /\ parent' = [parent EXCEPT ![cur[run[c]]] = initproc]
             /\ pc' = [pc EXCEPT ![run[c]] = "reparent_wake"]
    <3>1. wcur[run[c]] = initproc /\ pc'[run[c]] = "reparent_wake"
      BY <1>14, <2>1, <2>4, Layers, Consts DEF ThreadTypes, WakeInv, Reparent
    <3>2. Waker(c)'
      BY <1>14, <2>2, <3>1 DEF Waker, Reparent
    <3>3. \A q \in Procs : parent'[q] \in {parent[q], initproc}
      BY <2>4, Layers DEF ProcTypes
    <3> QED  BY <2>1, <2>2, <3>2, <3>3 DEF ZombieInv, InWait
  <2> QED  BY <1>14, <2>3, <2>4 DEF Reparent
<1>15. ASSUME NEW c \in CPU, ReparentWake(c)
      PROVE  ZombieInv'
  <2>1. /\ run[c] \in Procs /\ run[c] # initproc /\ UNCHANGED <<parent, chan>>
        /\ pc[run[c]] \in WaitHeld
    BY <1>15, Layers, RunProc DEF TreeInv, WaitHeld, ReparentWake, WakeOne
  <2>2. /\ \A p \in Procs : InWait(p)' => InWait(p)
        /\ \A q \in Procs : state'[q] = "ZOMBIE" => state[q] = "ZOMBIE"
    BY <1>15, Layers DEF ProcTypes, InWait, ReparentWake, WakeOne
  <2>3. CASE wcur[run[c]] = initproc
    <3>1. ~InWait(initproc)'
      BY <1>15, <2>1, <2>3, Layers, Consts DEF ProcTypes, InWait, ReparentWake, WakeOne
    <3>2. \A p, q \in Procs : ~(InWait(p)' /\ parent'[q] = p /\ state'[q] = "ZOMBIE")
      BY <2>1, <2>2, <3>1, Layers DEF ZombieInv
    <3> QED  BY <3>2 DEF ZombieInv
  <2>4. CASE wcur[run[c]] # initproc
    <3>1. \A p, q \in Procs : ~(InWait(p) /\ parent[q] = p /\ state[q] = "ZOMBIE")
      BY <1>15, <2>1, <2>4, NoZombie DEF Waker, ReparentWake
    <3> QED  BY <2>1, <2>2, <3>1 DEF ZombieInv
  <2> QED  BY <2>3, <2>4
<1>16. ASSUME NEW c \in CPU, ExitWake(c)
      PROVE  ZombieInv'
  <2>1. run[c] \in Procs /\ \A p, q \in Procs : ~(InWait(p) /\ parent[q] = p /\ state[q] = "ZOMBIE")
    BY <1>16, Layers, RunProc, NoZombie DEF Waker, WaitHeld, ExitWake
  <2>2. /\ \A p \in Procs : InWait(p)' => InWait(p)
        /\ \A q \in Procs : state'[q] = "ZOMBIE" => state[q] = "ZOMBIE"
        /\ UNCHANGED parent
    BY <1>16, Layers DEF ProcTypes, InWait, ExitWake, WakeOne
  <2> QED  BY <2>1, <2>2 DEF ZombieInv
<1>17. ASSUME NEW c \in CPU, ExitZombie(c)
      PROVE  ZombieInv'
  <2>1. run[c] \in Procs /\ \A p, q \in Procs : ~(InWait(p) /\ parent[q] = p /\ state[q] = "ZOMBIE")
    BY <1>17, Layers, RunProc, NoZombie DEF Waker, WaitHeld, ExitZombie
  <2>2. /\ \A p \in Procs : InWait(p)' => InWait(p)
        /\ \A q \in Procs : state'[q] = "ZOMBIE" => state[q] = "ZOMBIE" \/ q = run[c]
        /\ UNCHANGED parent
    BY <1>17, Layers DEF ProcTypes, InWait, ExitZombie
  <2>3. \A p \in Procs : parent[run[c]] = p => ~InWait(p)
    BY <1>17, <2>1, Layers, Consts DEF WokenInv, ParentWoken, ExitZombie
  <2> QED  BY <2>1, <2>2, <2>3 DEF ZombieInv
<1>18. ASSUME NEW c \in CPU, TicksSleep(c)
      PROVE  ZombieInv'
  <2>1. run[c] \in Procs /\ pc[run[c]] # "reparent_wake"
    BY <1>18, Layers, RunProc DEF TicksSleep
  <2>2. /\ state' = [state EXCEPT ![run[c]] = "SLEEPING"]
        /\ chan' = [chan EXCEPT ![run[c]] = TicksChan]
        /\ pc' = [pc EXCEPT ![run[c]] = "sleep_sched"]
        /\ UNCHANGED <<parent, run, wcur>>
    BY <1>18 DEF TicksSleep, SleepOn
  <2>3. TicksChan \notin Procs
    BY Consts
  <2>4. \A p \in Procs : InWait(p)' => InWait(p)
    BY <2>1, <2>2, <2>3, Layers DEF ProcTypes, InWait
  <2>5. \A q \in Procs : state'[q] = "ZOMBIE" => state[q] = "ZOMBIE" /\ parent'[q] = parent[q]
    BY <2>1, <2>2, Layers DEF ProcTypes
  <2>6. ASSUME NEW d \in CPU, Waker(d)
        PROVE  Waker(d)'
    <3>1. run[d] \in Procs /\ run[d] # run[c] /\ run'[d] = run[d]
      BY <2>1, <2>2, <2>6, Layers, RunProc DEF Waker
    <3>2. pc'[run[d]] = pc[run[d]]
      BY <2>2, <3>1, Layers DEF ThreadTypes
    <3> QED  BY <2>2, <2>6, <3>1, <3>2 DEF Waker
  <2> QED  BY <2>4, <2>5, <2>6, ZombieFrame
<1> QED  BY OrdinaryStep, <1>1, <1>2, <1>3, <1>4, <1>5, <1>6, <1>7, <1>8, <1>9, <1>10, <1>11,
     <1>12, <1>13, <1>14, <1>15, <1>16, <1>17, <1>18 DEF Special

-----------------------------------------------------------------------------
(* Layer 7: sys_sleep() and clockintr(). *)

(* A process is not disturbed if it keeps its deadline and does not fall asleep. *)
LEMMA TickFrame ==
  ASSUME NEW p, TickOK(p), UNCHANGED <<ticks, clk>>, arg'[p] = arg[p], ticks0'[p] = ticks0[p],
         pc'[p] = "ticks_sleep" => pc[p] = "ticks_sleep",
         state'[p] = "SLEEPING" => state[p] = "SLEEPING" /\ chan'[p] = chan[p]
  PROVE  TickOK(p)'
BY DEF TickOK, TicksLeft

(* A step of the thread on hart c that does not fall asleep and leaves the clock alone. *)
LEMMA TickMove ==
  ASSUME IInv, NEW c \in CPU, run[c] \in Procs, UNCHANGED <<ticks, clk>>,
         \A q \in Procs : q # run[c] =>
           /\ arg'[q] = arg[q] /\ ticks0'[q] = ticks0[q]
           /\ pc'[q] = "ticks_sleep" => pc[q] = "ticks_sleep"
           /\ state'[q] = "SLEEPING" => state[q] = "SLEEPING" /\ chan'[q] = chan[q],
         pc'[run[c]] # "ticks_sleep", state'[run[c]] # "SLEEPING"
  PROVE  TickInv'
<1>1. ASSUME NEW q \in Procs, q # run[c]
      PROVE  TickOK(q)'
  BY <1>1, Layers, TickFrame DEF TickInv
<1>2. ASSUME NEW q \in Procs, q = run[c]
      PROVE  TickOK(q)'
  BY <1>2 DEF TickOK
<1> QED  BY <1>1, <1>2 DEF TickInv

(* A running thread enters a system call. *)
LEMMA TickCall ==
  ASSUME IInv, NEW c \in CPU, NEW call, NEW l, NEW a, l # "ticks_sleep", SysCall(c, call, l, a)
  PROVE  TickInv'
<1>1. run[c] \in Procs /\ state[run[c]] = "RUNNING"
  BY Layers, RunState DEF SchedPoints, SysCall
<1>2. /\ pc' = [pc EXCEPT ![run[c]] = l] /\ arg' = [arg EXCEPT ![run[c]] = a]
      /\ UNCHANGED <<state, chan, ticks0, ticks, clk>>
  BY DEF SysCall
<1>3. \A q \in Procs : q # run[c] => pc'[q] = pc[q] /\ arg'[q] = arg[q]
  BY <1>1, <1>2, Layers DEF ThreadTypes
<1>4. pc'[run[c]] = l
  BY <1>1, <1>2, Layers DEF ThreadTypes
<1> QED  BY <1>1, <1>2, <1>3, <1>4, TickMove

(* A running thread goes on in a loop over the table, or returns from it. *)
LEMMA TickLoop ==
  ASSUME IInv, NEW c \in CPU, run[c] \in Procs, state[run[c]] = "RUNNING",
         pc[run[c]] # "ticks_sleep", UNCHANGED <<state, chan, ticks, clk>>,
         Return(run[c]) \/ UNCHANGED <<pc, arg, ticks0>>
  PROVE  TickInv'
<1>1. CASE UNCHANGED <<pc, arg, ticks0>>
  BY <1>1, TickMove
<1>2. CASE Return(run[c])
  <2>1. /\ pc' = [pc EXCEPT ![run[c]] = "trapret"] /\ arg' = [arg EXCEPT ![run[c]] = 0]
        /\ ticks0' = [ticks0 EXCEPT ![run[c]] = 0]
    BY <1>2 DEF Return
  <2>2. \A q \in Procs : q # run[c] => pc'[q] = pc[q] /\ arg'[q] = arg[q] /\ ticks0'[q] = ticks0[q]
    BY <2>1, Layers DEF ThreadTypes
  <2>3. pc'[run[c]] = "trapret"
    BY <2>1, Layers DEF ThreadTypes
  <2> QED  BY <2>2, <2>3, TickMove
<1> QED  BY <1>1, <1>2

(* Whoever is about to sleep on the clock holds tickslock. *)
LEMMA TicksAlone ==
  ASSUME IInv, NEW p \in Procs, pc[p] \in TicksHeld
  PROVE  tickslock # NoCPU
<1>1. OnCPU(p)
  BY Layers DEF StateInv, StateOK, TicksHeld
<1> QED  BY <1>1, Layers, Consts DEF GlobalLockInv, OnCPU

(* The end of a timer interrupt. *)
LEMMA TickTimer ==
  ASSUME IInv, NEW c \in CPU, run[c] \in Procs, pc[run[c]] \in Unlocked, TimerReturn(c)
  PROVE  /\ pc'[run[c]] # "ticks_sleep" /\ state'[run[c]] # "SLEEPING"
         /\ \A q \in Procs : q # run[c] =>
              /\ arg'[q] = arg[q] /\ ticks0'[q] = ticks0[q]
              /\ pc'[q] = pc[q] /\ state'[q] = state[q]
<1>1. state[run[c]] = "RUNNING"
  BY RunState, Consts DEF Unlocked, SchedPoints
<1>2. CASE ExitKilled(run[c]) /\ UNCHANGED state
  BY <1>1, <1>2, Layers DEF ThreadTypes, ExitKilled
<1>3. CASE /\ state' = [state EXCEPT ![run[c]] = "RUNNABLE"]
           /\ pc' = [pc EXCEPT ![run[c]] = "yield_sched"]
           /\ UNCHANGED <<arg, ticks0>>
  BY <1>3, Layers DEF ProcTypes, ThreadTypes
<1> QED  BY <1>2, <1>3, TimerCases

(* clockintr() passes the slots in order, and skips only the process it interrupts. *)
LEMMA ClockWakeTick ==
  ASSUME IInv, ClockWake, NEW p \in Procs
  PROVE  TickOK(p)'
<1>1. /\ clk \in Procs /\ clk # 0 /\ clk' = clk + 1 /\ clk' # 0
      /\ UNCHANGED <<ticks, ticks0, arg, pc, chan>>
  BY ProcAssumption, SMTT(30) DEF Procs, ClockWake, WakeOne
<1>2. TicksLeft(p)' = TicksLeft(p)
  BY <1>1 DEF TicksLeft
<1>3. pc'[p] = "ticks_sleep" => TicksLeft(p)'
  BY <1>1, <1>2, Layers DEF TickInv, TickOK
<1>4. 0 \in CPU /\ cproc[0] = run[0] /\ (run[0] # NULL => pc[run[0]] \in Unlocked)
  BY <1>1, Layers DEF GlobalLockInv
<1>5. CASE p = clk
  <2>1. CASE p = cproc[0]
    <3>1. state[p] = "RUNNING"
      BY <1>4, <2>1, RunState, Consts DEF Unlocked, SchedPoints
    <3>2. state'[p] # "SLEEPING"
      BY <1>5, <2>1, <3>1 DEF ClockWake, WakeOne
    <3> QED  BY <1>3, <3>2 DEF TickOK
  <2>2. CASE p # cproc[0]
    <3>1. state'[p] = "SLEEPING" => chan'[p] # TicksChan
      BY <1>1, <1>5, <2>2, Layers DEF ProcTypes, ClockWake, WakeOne
    <3> QED  BY <1>3, <3>1 DEF TickOK
  <2> QED  BY <2>1, <2>2
<1>6. CASE p # clk
  <2>1. state'[p] = state[p]
    BY <1>6, Layers DEF ProcTypes, ClockWake, WakeOne
  <2>2. clk <= p => clk + 1 <= p
    BY <1>1, <1>6, SMTT(30) DEF Procs
  <2> QED  BY <1>1, <1>2, <1>3, <2>1, <2>2, Layers DEF TickInv, TickOK
<1> QED  BY <1>5, <1>6

(* A process sleeps on the clock only while its time is not up, or its wakeup is due. *)
LEMMA TickInvStep ==
  ASSUME IInv, Next
  PROVE  TickInv'
<1>1. ASSUME NEW c \in CPU, Scheduler(c)
      PROVE  TickInv'
  <2>1. CASE SchedRun(c)
    <3>1. ASSUME NEW p \in Procs
          PROVE  TickOK(p)'
      BY <2>1, <3>1, Layers, TickFrame DEF ProcTypes, TickInv, SchedRun
    <3> QED  BY <3>1 DEF TickInv
  <2>2. CASE SchedSkip(c)
    <3>1. ASSUME NEW p \in Procs
          PROVE  TickOK(p)'
      BY <2>2, <3>1, Layers, TickFrame DEF ProcTypes, TickInv, SchedSkip
    <3> QED  BY <3>1 DEF TickInv
  <2>3. CASE SchedBack(c)
    <3>1. ASSUME NEW p \in Procs
          PROVE  TickOK(p)'
      BY <2>3, <3>1, Layers, TickFrame DEF ProcTypes, TickInv, SchedBack
    <3> QED  BY <3>1 DEF TickInv
  <2> QED  BY <1>1, <2>1, <2>2, <2>3 DEF Scheduler
<1>2. ASSUME NEW c \in CPU, SwitchStep(c)
      PROVE  TickInv'
  <2>1. CASE Sched(c)
    <3>1. run[c] \in Procs
      BY <2>1, Layers, RunProc DEF Sched
    <3>2. ASSUME NEW p \in Procs, p # run[c]
          PROVE  TickOK(p)'
      BY <2>1, <3>1, <3>2, Layers, TickFrame DEF ProcTypes, ThreadTypes, TickInv, Sched,
         Resume, SchedPoints
    <3>3. ASSUME NEW p \in Procs, p = run[c]
          PROVE  TickOK(p)'
      BY <2>1, <3>1, <3>3, Layers, TickFrame DEF ThreadTypes, SchedPoints, TickInv, Sched,
         Resume
    <3> QED  BY <3>2, <3>3 DEF TickInv
  <2>2. CASE ForkRet(c)
    BY <2>2, Layers, TickMove, RunState DEF ProcTypes, ThreadTypes, SchedPoints, ForkRet
  <2>3. CASE YieldRet(c)
    <3>1. run[c] \in Procs /\ state[run[c]] = "RUNNING" /\ rpc[run[c]] # "ticks_sleep"
      BY <2>3, Layers, RunState DEF CursorInv, CursorOK, SchedPoints, Unlocked, YieldRet
    <3> QED  BY <2>3, <3>1, Layers, TickMove DEF ProcTypes, ThreadTypes, YieldRet
  <2>4. CASE SleepRet(c)
    <3>1. run[c] \in Procs /\ state[run[c]] = "RUNNING" /\ rpc[run[c]] # "ticks_sleep"
      BY <2>4, Layers, RunState DEF CursorInv, CursorOK, SchedPoints, SleepRet
    <3> QED  BY <2>4, <3>1, Layers, TickMove DEF ProcTypes, ThreadTypes, SleepRet
  <2> QED  BY <1>2, <2>1, <2>2, <2>3, <2>4 DEF SwitchStep
<1>3. ASSUME NEW c \in CPU, TrapRet(c)
      PROVE  TickInv'
  <2>1. CASE TrapRet(c)
    BY <2>1, Layers, TickMove, RunState DEF ProcTypes, ThreadTypes, SchedPoints, TrapRet
  <2> QED  BY <1>3, <2>1
<1>4. ASSUME NEW c \in CPU, TrapKilled(c)
      PROVE  TickInv'
  <2>1. CASE TrapKilled(c)
    BY <2>1, Layers, TickMove, RunState DEF ProcTypes, ThreadTypes, SchedPoints, TrapKilled,
       ExitKilled
  <2> QED  BY <1>4, <2>1
<1>5. ASSUME NEW c \in CPU, ForkStep(c)
      PROVE  TickInv'
  <2>1. CASE AllocNext(c)
    <3>1. run[c] \in Procs /\ cur[run[c]] \in Procs /\ state[run[c]] = "RUNNING"
      BY <2>1, Layers, RunState, CursorHere DEF SchedPoints, AllocNext
    <3>2. /\ pc[run[c]] # "ticks_sleep" /\ UNCHANGED <<state, chan, ticks, clk>>
          /\ Return(run[c]) \/ UNCHANGED <<pc, arg, ticks0>>
      BY <2>1 DEF AllocNext
    <3> QED  BY <3>1, <3>2, TickLoop
  <2>2. CASE AllocFound(c)
    <3>1. run[c] \in Procs /\ cur[run[c]] \in Procs /\ state[run[c]] = "RUNNING"
      BY <2>2, Layers, RunState, CursorHere DEF SchedPoints, AllocFound
    <3> QED  BY <2>2, <3>1, Layers, TickMove DEF ProcTypes, ThreadTypes, AllocFound
  <2>3. CASE AllocFail(c)
    <3>1. run[c] \in Procs /\ cur[run[c]] \in Procs /\ state[run[c]] = "RUNNING"
      BY <2>3, Layers, RunState, CursorHere DEF SchedPoints, AllocFail
    <3> QED  BY <2>3, <3>1, Layers, TickMove DEF ProcTypes, ThreadTypes, AllocFail, Return,
                FreeProc
  <2>4. CASE ForkParent(c)
    <3>1. run[c] \in Procs /\ cur[run[c]] \in Procs /\ state[run[c]] = "RUNNING"
      BY <2>4, Layers, RunState, CursorHere DEF SchedPoints, ForkParent
    <3> QED  BY <2>4, <3>1, Layers, TickMove DEF ProcTypes, ThreadTypes, ForkParent
  <2>5. CASE ForkRun(c)
    <3>1. run[c] \in Procs /\ cur[run[c]] \in Procs /\ state[run[c]] = "RUNNING"
      BY <2>5, Layers, RunState, CursorHere DEF SchedPoints, ForkRun
    <3> QED  BY <2>5, <3>1, Layers, TickMove DEF ProcTypes, ThreadTypes, ForkRun, Return
  <2> QED  BY <1>5, <2>1, <2>2, <2>3, <2>4, <2>5 DEF ForkStep
<1>6. ASSUME NEW c \in CPU, WaitStep(c)
      PROVE  TickInv'
  <2>1. CASE WaitLock(c)
    BY <2>1, Layers, TickMove, RunState DEF ProcTypes, ThreadTypes, SchedPoints, WaitLock
  <2>2. CASE WaitNext(c)
    BY <2>2, Layers, TickMove, RunState DEF ProcTypes, ThreadTypes, SchedPoints, WaitNext
  <2>3. CASE WaitReap(c)
    BY <2>3, Layers, TickMove, RunState DEF ProcTypes, ThreadTypes, SchedPoints, WaitReap,
       Return, FreeProc
  <2>4. CASE WaitBadAddr(c)
    BY <2>4, Layers, TickMove, RunState DEF ProcTypes, ThreadTypes, SchedPoints,
       WaitBadAddr, Return
  <2>5. CASE WaitGiveUp(c)
    BY <2>5, Layers, TickMove, RunState DEF ProcTypes, ThreadTypes, SchedPoints, WaitGiveUp,
       Return
  <2>6. CASE WaitMore(c)
    BY <2>6, Layers, TickMove, RunState DEF ProcTypes, ThreadTypes, SchedPoints, WaitMore
  <2>7. CASE WaitSleep(c)
    <3>1. run[c] \in Procs
      BY <2>7, Layers, RunProc DEF WaitSleep
    <3>2. ASSUME NEW p \in Procs, p # run[c]
          PROVE  TickOK(p)'
      BY <2>7, <3>1, <3>2, Layers, TickFrame DEF ProcTypes, ThreadTypes, TickInv, WaitSleep,
         SleepOn
    <3>3. ASSUME NEW p \in Procs, p = run[c]
          PROVE  TickOK(p)'
      <4>1. chan'[p] # TicksChan /\ pc'[p] = "sleep_sched"
        BY <2>7, <3>1, <3>3, Layers, Consts DEF ProcTypes, ThreadTypes, WaitSleep, SleepOn
      <4> QED  BY <4>1 DEF TickOK
    <3> QED  BY <3>2, <3>3 DEF TickInv
  <2> QED  BY <1>6, <2>1, <2>2, <2>3, <2>4, <2>5, <2>6, <2>7 DEF WaitStep
<1>7. ASSUME NEW c \in CPU, ExitStep(c)
      PROVE  TickInv'
  <2>1. CASE ExitPanic(c)
    BY <2>1, Layers, TickMove, RunState DEF ProcTypes, ThreadTypes, SchedPoints, ExitPanic
  <2>2. CASE ExitLock(c)
    BY <2>2, Layers, TickMove, RunState DEF ProcTypes, ThreadTypes, SchedPoints, ExitLock
  <2>3. CASE Reparent(c)
    BY <2>3, Layers, TickMove, RunState DEF ProcTypes, ThreadTypes, SchedPoints, Reparent
  <2>4. CASE ReparentWake(c)
    BY <2>4, Layers, TickMove, RunState DEF ProcTypes, ThreadTypes, SchedPoints,
       ReparentWake, WakeOne
  <2>5. CASE ExitWake(c)
    BY <2>5, Layers, TickMove, RunState DEF ProcTypes, ThreadTypes, SchedPoints, ExitWake,
       WakeOne
  <2>6. CASE ExitZombie(c)
    BY <2>6, Layers, TickMove, RunState DEF ProcTypes, ThreadTypes, SchedPoints, ExitZombie
  <2> QED  BY <1>7, <2>1, <2>2, <2>3, <2>4, <2>5, <2>6 DEF ExitStep
<1>8. ASSUME NEW c \in CPU, KillStep(c)
      PROVE  TickInv'
  <2>1. CASE KillNext(c)
    <3>1. run[c] \in Procs /\ cur[run[c]] \in Procs /\ state[run[c]] = "RUNNING"
      BY <2>1, Layers, RunState, CursorHere DEF SchedPoints, KillNext
    <3>2. pc[run[c]] # "ticks_sleep"
      BY <2>1 DEF KillNext
    <3>3. UNCHANGED <<state, chan, ticks, clk>>
      BY <2>1 DEF KillNext
    <3>4. Return(run[c]) \/ UNCHANGED <<pc, arg, ticks0>>
      BY <2>1 DEF KillNext
    <3> QED  BY <3>1, <3>2, <3>3, <3>4, TickLoop
  <2>2. CASE KillHit(c)
    <3>1. run[c] \in Procs /\ cur[run[c]] \in Procs /\ state[run[c]] = "RUNNING"
      BY <2>2, Layers, RunState, CursorHere DEF SchedPoints, KillHit
    <3> QED  BY <2>2, <3>1, Layers, TickMove DEF ProcTypes, ThreadTypes, KillHit, Return
  <2> QED  BY <1>8, <2>1, <2>2 DEF KillStep
<1>9. ASSUME NEW c \in CPU, TicksStep(c)
      PROVE  TickInv'
  <2>1. CASE TicksEnter(c)
    BY <2>1, Layers, TickMove, RunState DEF ProcTypes, ThreadTypes, SchedPoints, TicksEnter
  <2>2. CASE TicksReturn(c)
    BY <2>2, Layers, TickMove, RunState DEF ProcTypes, ThreadTypes, SchedPoints, TicksReturn,
       Return
  <2>3. CASE TicksMore(c)
    <3>1. run[c] \in Procs
      BY <2>3, Layers, RunProc DEF TicksMore
    <3>2. ASSUME NEW p \in Procs, p # run[c]
          PROVE  TickOK(p)'
      BY <2>3, <3>1, <3>2, Layers, TickFrame DEF ProcTypes, ThreadTypes, TickInv, TicksMore
    <3>3. ASSUME NEW p \in Procs, p = run[c]
          PROVE  TickOK(p)'
      <4>1. TicksLeft(p)' /\ state'[p] = "RUNNING"
        BY <2>3, <3>3, RunState DEF SchedPoints, TicksLeft, TicksMore
      <4> QED  BY <4>1 DEF TickOK
    <3> QED  BY <3>2, <3>3 DEF TickInv
  <2>4. CASE TicksSleep(c)
    <3>1. run[c] \in Procs
      BY <2>4, Layers, RunProc DEF TicksSleep
    <3>2. ASSUME NEW p \in Procs, p # run[c]
          PROVE  TickOK(p)'
      BY <2>4, <3>1, <3>2, Layers, TickFrame DEF ProcTypes, ThreadTypes, TickInv, TicksSleep,
         SleepOn
    <3>3. ASSUME NEW p \in Procs, p = run[c]
          PROVE  TickOK(p)'
      <4>1. TicksLeft(p)' /\ pc'[p] = "sleep_sched"
        BY <2>4, <3>1, <3>3, Layers DEF ThreadTypes, TickInv, TickOK, TicksLeft, TicksSleep,
           SleepOn
      <4> QED  BY <4>1 DEF TickOK
    <3> QED  BY <3>2, <3>3 DEF TickInv
  <2>5. CASE TicksRelock(c)
    BY <2>5, Layers, TickMove, RunState DEF ProcTypes, ThreadTypes, SchedPoints, TicksRelock
  <2> QED  BY <1>9, <2>1, <2>2, <2>3, <2>4, <2>5 DEF TicksStep
<1>10. ASSUME NEW c \in CPU, UserStep(c)
      PROVE  TickInv'
  <2>1. CASE SysFork(c)
    BY <2>1, TickCall DEF SysFork
  <2>2. CASE SysWait(c)
    BY <2>2, TickCall DEF SysWait
  <2>3. CASE SysExit(c)
    BY <2>3, TickCall DEF SysExit
  <2>4. CASE SysKill(c)
    BY <2>4, TickCall DEF SysKill
  <2>5. CASE SysSleep(c)
    BY <2>5, TickCall DEF SysSleep
  <2>6. CASE UserFault(c)
    BY <2>6, Layers, TickMove, RunState DEF ProcTypes, ThreadTypes, SchedPoints, UserFault,
       ExitKilled
  <2> QED  BY <1>10, <2>1, <2>2, <2>3, <2>4, <2>5, <2>6 DEF UserStep
<1>11. ASSUME NEW c \in CPU, TimerIntr(c)
      PROVE  TickInv'
  <2>1. CASE TimerIntr(c)
    <3>1. run[c] \in Procs /\ pc[run[c]] \in Unlocked
      BY <2>1, Layers, UnlockedHere, RunProc DEF IntrOn, TimerIntr
    <3>2. TimerReturn(c) /\ UNCHANGED <<chan, ticks, clk>>
      BY <2>1 DEF TimerIntr
    <3>3. /\ pc'[run[c]] # "ticks_sleep" /\ state'[run[c]] # "SLEEPING"
          /\ \A q \in Procs : q # run[c] =>
               /\ arg'[q] = arg[q] /\ ticks0'[q] = ticks0[q]
               /\ pc'[q] = pc[q] /\ state'[q] = state[q]
      BY <3>1, <3>2, TickTimer
    <3> QED  BY <3>1, <3>2, <3>3, TickMove
  <2> QED  BY <1>11, <2>1
<1>12. CASE Clock
  <2>1. CASE ClockIntr
    <3>1. \A p \in Procs : pc[p] # "ticks_sleep"
      BY <2>1, TicksAlone DEF TicksHeld, ClockIntr
    <3>2. clk' = 1 /\ UNCHANGED <<pc, state, chan>> /\ \A p \in Procs : 1 <= p
      BY <2>1, SMTT(30) DEF Procs, ClockIntr
    <3> QED  BY <3>1, <3>2, SMTT(30) DEF TickInv, TickOK
  <2>2. CASE ClockWake
    BY <2>2, ClockWakeTick DEF TickInv
  <2>3. CASE ClockEnd
    <3>1. UNCHANGED <<chan, ticks>> /\ \A p \in Procs : ~(clk <= p)
      BY <2>3, ProcAssumption, SMTT(30) DEF Procs, ClockEnd
    <3>2. CASE run[0] = NULL
      BY <2>3, <3>1, <3>2, Layers DEF TickInv, TickOK, TicksLeft, ClockEnd
    <3>3. CASE run[0] # NULL
      <4>1. 0 \in CPU /\ run[0] \in Procs /\ pc[run[0]] \in Unlocked /\ TimerReturn(0)
        BY <2>3, <3>3, ClockEndHere DEF ClockEnd
      <4>2. /\ pc'[run[0]] # "ticks_sleep" /\ state'[run[0]] # "SLEEPING"
            /\ \A q \in Procs : q # run[0] =>
                 /\ arg'[q] = arg[q] /\ ticks0'[q] = ticks0[q]
                 /\ pc'[q] = pc[q] /\ state'[q] = state[q]
        BY <4>1, TickTimer
      <4>3. ASSUME NEW p \in Procs, p # run[0]
            PROVE  TickOK(p)'
        BY <3>1, <4>2, <4>3, Layers DEF TickInv, TickOK, TicksLeft
      <4>4. ASSUME NEW p \in Procs, p = run[0]
            PROVE  TickOK(p)'
        BY <4>2, <4>4 DEF TickOK
      <4> QED  BY <4>3, <4>4 DEF TickInv
    <3> QED  BY <3>2, <3>3
  <2> QED  BY <1>12, <2>1, <2>2, <2>3 DEF Clock
<1> QED  BY <1>1, <1>2, <1>3, <1>4, <1>5, <1>6, <1>7, <1>8, <1>9, <1>10, <1>11, <1>12
            DEF Next, SysStep

-----------------------------------------------------------------------------
(* The invariant *)

(* The state that main() and userinit() leave behind satisfies the invariant. *)
LEMMA InitIInv ==
  ASSUME Init
  PROVE  IInv
<1>1. 1 \in Slots /\ 0 \in Ticks /\ 1 \in Procs
  BY ProcAssumption, SMTT(30) DEF Slots, Ticks, Procs
<1>2. TypeOK
  <2>1. ProcTypes
    BY <1>1, SMTT(30) DEF Init, ProcTypes, States, Chans
  <2>2. LockTypes /\ CPUTypes /\ ClockTypes
    BY <1>1 DEF Init, LockTypes, CPUTypes, ClockTypes
  <2>3. ThreadTypes
    BY <1>1, SMTT(30) DEF Init, ThreadTypes, Labels
  <2> QED  BY <2>1, <2>2, <2>3 DEF TypeOK
<1>3. \A p \in Procs : ~OnCPU(p) /\ plock[p] = NoCPU /\ Point(p) = "forkret"
  BY Consts DEF Init, OnCPU, Point
<1>4. CursorInv
  BY <1>1, <1>3 DEF Init, CursorInv, CursorOK
<1>5. CPUInv /\ LockInv
  BY <1>3, Consts DEF Init, CPUInv, LockInv, LockOK
<1>6. StateInv
  BY <1>3 DEF Init, StateInv, StateOK
<1>7. GlobalLockInv
  BY Consts DEF Init, GlobalLockInv, InClock
<1>8. PidInv
  BY SMTT(30) DEF Init, PidInv
<1>9. ForkInv
  BY <1>3 DEF Init, ForkInv, Forking
<1>10. TreeInv /\ ReparentInv
  BY Consts DEF Init, TreeInv, ReparentInv, ReparentOK, Live
<1>11. SleepInv /\ WakeInv /\ ScanInv /\ WokenInv /\ ZombieInv /\ TickInv
  BY DEF Init, SleepInv, SleepOK, WakeInv, ScanInv, Passed, WokenInv, ParentWoken, ZombieInv,
         InWait, TickInv, TickOK
<1> QED
  BY <1>2, <1>4, <1>5, <1>6, <1>7, <1>8, <1>9, <1>10, <1>11 DEF IInv

(* A step that changes no variable preserves the invariant. *)
LEMMA StutterIInv ==
  ASSUME IInv, UNCHANGED vars
  PROVE  IInv'
<1>1. TypeOK' /\ CursorInv'
  BY DEF IInv, vars, TypeOK, ProcTypes, LockTypes, CPUTypes, ClockTypes, ThreadTypes,
         CursorInv, CursorOK, Point
<1>2. CPUInv' /\ LockInv' /\ StateInv' /\ GlobalLockInv' /\ PidInv'
  BY SMTT(30)
     DEF IInv, vars, CPUInv, LockInv, LockOK, StateInv, StateOK, OnCPU, GlobalLockInv, InClock,
         PidInv
<1>3. ForkInv' /\ TreeInv' /\ ReparentInv'
  BY DEF IInv, vars, ForkInv, Forking, Point, TreeInv, ReparentInv, ReparentOK
<1>4. SleepInv' /\ WakeInv' /\ ScanInv' /\ WokenInv' /\ ZombieInv' /\ TickInv'
  BY DEF IInv, vars, SleepInv, SleepOK, WakeInv, ScanInv, Passed, WokenInv, ParentWoken,
         ZombieInv, InWait, Waker, TickInv, TickOK, TicksLeft
<1> QED  BY <1>1, <1>2, <1>3, <1>4 DEF IInv

(* Every step of the kernel preserves the invariant. *)
LEMMA StepIInv ==
  ASSUME IInv, [Next]_vars
  PROVE  IInv'
<1>1. CASE Next
  <2>1. TypeOK'
    BY <1>1, ProcTypesStep, LockTypesStep, CPUTypesStep, ClockTypesStep, ThreadTypesStep
       DEF TypeOK
  <2>2. CursorInv' /\ CPUInv' /\ LockInv' /\ StateInv' /\ GlobalLockInv' /\ PidInv'
    BY <1>1, CursorStep, CPUStep, LockStep, StateStep, GlobalLockStep, PidStep
  <2>3. ForkInv' /\ TreeInv' /\ ReparentInv'
    BY <1>1, ForkInvStep, TreeInvStep, ReparentInvStep
  <2>4. SleepInv' /\ WakeInv' /\ ScanInv' /\ WokenInv' /\ ZombieInv' /\ TickInv'
    BY <1>1, SleepInvStep, WakeInvStep, ScanInvStep, WokenInvStep, ZombieInvStep, TickInvStep
  <2> QED  BY <2>1, <2>2, <2>3, <2>4 DEF IInv
<1>2. CASE UNCHANGED vars
  BY <1>2, StutterIInv
<1> QED  BY <1>1, <1>2

(* IInv is an invariant of the process table. *)
THEOREM Invariance == Spec => []IInv
<1>1. Init => IInv
  BY InitIInv
<1>2. IInv /\ [Next]_vars => IInv'
  BY StepIInv
<1> QED  BY <1>1, <1>2, PTL DEF Spec

-----------------------------------------------------------------------------
(* What the invariant says of a single state. *)

(* IInv gives StackOwned: the hart that leaves a kernel stack holds p->lock. *)
LEMMA StackOwnedHolds ==
  ASSUME IInv
  PROVE  StackOwned
<1> SUFFICES ASSUME NEW c \in CPU, run[c] # NULL
             PROVE  /\ cproc[c] = run[c]
                    /\ \A d \in CPU : run[d] = run[c] => d = c
                    /\ state[run[c]] = "RUNNING" \/ plock[run[c]] = c
  BY DEF StackOwned
<1>1. run[c] \in Procs
  BY RunProc, Layers
<1>2. cproc[c] = run[c] /\ \A d \in CPU : run[d] = run[c] => d = c
  BY DEF IInv, CPUInv
<1>3. state[run[c]] = "RUNNING" \/ pc[run[c]] \in SchedPoints
  BY RunState
<1>4. pc[run[c]] \in SchedPoints => plock[run[c]] = c
  BY <1>1, <1>2, SMTT(30) DEF IInv, LockInv, LockOK, SchedPoints, SelfHeld
<1> QED  BY <1>2, <1>3, <1>4

(* A hart holds the p->lock of its c->proc or none. *)
LEMMA OwnLock ==
  ASSUME IInv, NEW c \in CPU, run[c] # NULL, NEW q \in Procs, plock[q] = c
  PROVE  q = run[c] /\ pc[q] \in SelfHeld
BY DEF IInv, CPUInv, LockInv, LockOK

(* IInv gives PanicFree: at swtch() exactly p->lock is held. *)
LEMMA PanicFreeHolds ==
  ASSUME IInv
  PROVE  PanicFree
<1> SUFFICES ASSUME NEW c \in CPU, run[c] # NULL, NEW p, p = run[c]
             PROVE  /\ pc[p] \in SchedPoints =>
                         /\ \A q \in Procs : plock[q] = c <=> q = p
                         /\ wait_lock # c /\ tickslock # c
                         /\ state[p] # "RUNNING"
                    /\ pc[p] \in {"forkret", "yield_ret", "sleep_ret"} => plock[p] = c
                    /\ pc[p] \in WaitHeld => wait_lock = c
                    /\ pc[p] \in {"ticks_loop", "ticks_sleep"} => tickslock = c
                    /\ pc[p] # "exit_ret"
  BY DEF PanicFree, WaitHeld
<1>1. p \in Procs /\ OnCPU(p) /\ cproc[c] = p
  BY RunProc, Layers DEF OnCPU, CPUInv
<1>2. pc[p] \in SelfHeld => plock[p] = c
  BY <1>1 DEF IInv, LockInv, LockOK
<1>3. pc[p] # "exit_ret" /\ (pc[p] \in SchedPoints => state[p] # "RUNNING")
  BY <1>1 DEF IInv, StateInv, StateOK, SchedPoints
<1>4. pc[p] \in SchedPoints => wait_lock # c /\ tickslock # c
  <2>1. pc[p] \in SchedPoints => ~InClock(c)
    BY DEF IInv, GlobalLockInv, InClock, SchedPoints, Unlocked
  <2> QED  BY <2>1 DEF IInv, GlobalLockInv, SchedPoints, WaitHeld, TicksHeld
<1>5. (pc[p] \in WaitHeld => wait_lock = c) /\ (pc[p] \in TicksHeld => tickslock = c)
  BY DEF IInv, GlobalLockInv
<1>6. pc[p] \in SchedPoints => \A q \in Procs : plock[q] = c <=> q = p
  BY <1>2, OwnLock DEF SchedPoints, SelfHeld
<1> QED  BY <1>2, <1>3, <1>4, <1>5, <1>6 DEF SelfHeld, TicksHeld

(* IInv gives LockOrder: no lock is held at the labels where wait_lock or tickslock is taken. *)
LEMMA LockOrderHolds ==
  ASSUME IInv
  PROVE  LockOrder
<1> SUFFICES ASSUME NEW c \in CPU, run[c] # NULL, ~InClock(c),
                    pc[run[c]] \in {"user", "trapret", "alloc", "fork_parent", "fork_run", "wait",
                                    "exit", "kill", "ticks", "ticks_relock"}
             PROVE  IntrOn(c)
  BY DEF LockOrder
<1>1. pc[run[c]] \notin WaitHeld /\ pc[run[c]] \notin TicksHeld /\ pc[run[c]] \notin SelfHeld
  BY DEF WaitHeld, TicksHeld, SelfHeld
<1>2. wait_lock # c /\ tickslock # c
  BY <1>1 DEF IInv, GlobalLockInv
<1>3. \A q \in Procs : plock[q] # c
  BY <1>1, OwnLock
<1> QED  BY <1>2, <1>3 DEF IntrOn

(* IInv gives ParentAlive and PidUnique: parents are alive and pids distinct. *)
LEMMA TreeHolds ==
  ASSUME IInv
  PROVE  ParentAlive /\ PidUnique
<1>1. \A q \in Procs : parent[q] \in Procs \cup {NULL}
  BY Layers DEF ProcTypes
<1>2. ParentAlive
  BY <1>1 DEF IInv, TreeInv, Live, ParentAlive
<1>3. PidUnique
  BY DEF IInv, PidInv, PidUnique
<1> QED  BY <1>2, <1>3

(* IInv gives NoLostExit and NoLostTick: no wakeup of wait() or sys_sleep() is lost. *)
LEMMA WakeupsHold ==
  ASSUME IInv
  PROVE  NoLostExit /\ NoLostTick
<1>1. NoLostExit
  <2> SUFFICES ASSUME wait_lock = NoCPU, NEW p \in Procs, NEW q \in Procs,
                      InWait(p), parent[q] = p, state[q] = "ZOMBIE"
               PROVE  FALSE
    BY DEF NoLostExit, InWait
  <2>1. PICK c \in CPU : Waker(c)
    BY DEF IInv, ZombieInv
  <2>2. wait_lock = c
    BY <2>1 DEF IInv, GlobalLockInv, Waker, WaitHeld
  <2> QED  BY <2>2, Consts
<1>2. NoLostTick
  <2> SUFFICES ASSUME tickslock = NoCPU, NEW p \in Procs, state[p] = "SLEEPING",
                      chan[p] = TicksChan
               PROVE  TicksLeft(p)
    BY DEF NoLostTick
  <2>1. clk = 0
    BY Consts DEF IInv, GlobalLockInv, InClock
  <2> QED  BY <2>1 DEF IInv, TickInv, TickOK
<1> QED  BY <1>1, <1>2

(* A slot is freed only by wait(), from a zombie that no hart executes. *)
LEMMA ReapStep ==
  ASSUME IInv, Next, NEW q \in Procs, state[q] # "UNUSED", state'[q] = "UNUSED"
  PROVE  state[q] = "ZOMBIE" /\ (\A c \in CPU : run[c] # q) /\ \A r \in Procs : parent[r] # q
<1>1. ~Ordinary
  BY DEF Ordinary, SameLife, Live
<1>2. PICK c \in CPU : Special(c)
  BY <1>1, OrdinaryStep
<1>3. CASE WaitReap(c)
  <2>1. q = cur[run[c]] /\ plock[q] = NoCPU /\ state[q] = "ZOMBIE"
    BY <1>3, Layers DEF ProcTypes, WaitReap, FreeProc
  <2>2. \A d \in CPU : run[d] # q
    BY <2>1, OffCPU, Consts, Layers DEF OnCPU
  <2>3. \A r \in Procs : parent[r] # q
    BY <2>1, Consts DEF IInv, TreeInv, Live
  <2> QED  BY <2>1, <2>2, <2>3
<1>4. CASE AllocFail(c)
  BY <1>4, Layers DEF ProcTypes, AllocFail, FreeProc
<1>5. CASE AllocFound(c) \/ ForkParent(c) \/ ForkRun(c)
  BY <1>5, Layers DEF ProcTypes, AllocFound, ForkParent, ForkRun
<1>6. CASE WaitLock(c) \/ WaitNext(c) \/ WaitBadAddr(c) \/ WaitGiveUp(c) \/ WaitMore(c)
  BY <1>6 DEF WaitLock, WaitNext, WaitBadAddr, WaitGiveUp, WaitMore
<1>7. CASE WaitSleep(c) \/ TicksSleep(c)
  BY <1>7, Layers DEF ProcTypes, WaitSleep, TicksSleep, SleepOn
<1>8. CASE ExitLock(c) \/ Reparent(c)
  BY <1>8 DEF ExitLock, Reparent
<1>9. CASE ReparentWake(c) \/ ExitWake(c) \/ ExitZombie(c)
  BY <1>9, Layers DEF ProcTypes, ReparentWake, ExitWake, ExitZombie, WakeOne
<1> QED  BY <1>2, <1>3, <1>4, <1>5, <1>6, <1>7, <1>8, <1>9 DEF Special

-----------------------------------------------------------------------------
(* sys_sleep() returns on time *)

(* What a step does to a process: its count of ticks stays right, and it does   *)
(* not leave sys_sleep() too early.                                             *)
OnTime(p) ==
  pc[p] = "ticks_loop" /\ pc'[p] = "trapret" /\ ~killed[p] => waited[p] >= arg[p] % TickMod

TimeKept == WaitedInv' /\ \A p \in Procs : OnTime(p)

(* Labels of sys_sleep(), and of yield() and sleep(), which it may be inside of. *)
SleepLabels == {"ticks_loop", "ticks_sleep", "ticks_relock",
                "yield_sched", "yield_ret", "sleep_sched", "sleep_ret"}

(* A process that does not enter sys_sleep(), and does not leave it by itself. *)
LEMMA WaitedFrame ==
  ASSUME NEW p, WaitedOK(p), UNCHANGED ticks, waited'[p] = waited[p],
         InSysSleep(p)' => InSysSleep(p) /\ ticks0'[p] = ticks0[p],
         pc[p] # "ticks_loop" \/ pc'[p] # "trapret"
  PROVE  WaitedOK(p)' /\ OnTime(p)
BY DEF WaitedOK, OnTime

(* A step of the thread p that is not about ticks. *)
LEMMA WaitedMove ==
  ASSUME WaitedInv, NEW p \in Procs, UNCHANGED <<ticks, waited>>,
         \A q \in Procs : q # p => pc'[q] = pc[q] /\ rpc'[q] = rpc[q] /\ ticks0'[q] = ticks0[q],
         InSysSleep(p)' => InSysSleep(p) /\ ticks0'[p] = ticks0[p],
         pc[p] # "ticks_loop" \/ pc'[p] # "trapret"
  PROVE  TimeKept
<1>1. ASSUME NEW q \in Procs, q # p
      PROVE  WaitedOK(q)' /\ OnTime(q)
  <2>1. InSysSleep(q)' <=> InSysSleep(q)
    BY <1>1 DEF InSysSleep
  <2>2. pc[q] # "ticks_loop" \/ pc'[q] # "trapret"
    BY <1>1
  <2> QED  BY <1>1, <2>1, <2>2, WaitedFrame DEF WaitedInv
<1>2. WaitedOK(p)' /\ OnTime(p)
  BY WaitedFrame DEF WaitedInv
<1> QED  BY <1>1, <1>2 DEF TimeKept, WaitedInv

(* The threads stay where they are. *)
LEMMA WaitedSame ==
  ASSUME WaitedInv, UNCHANGED <<pc, rpc, ticks0, ticks, waited>>
  PROVE  TimeKept
<1>1. ASSUME NEW p \in Procs
      PROVE  WaitedOK(p)' /\ OnTime(p)
  BY WaitedFrame DEF WaitedInv, InSysSleep
<1> QED  BY <1>1 DEF TimeKept, WaitedInv

(* A thread goes to a label outside sys_sleep(), yield() and sleep(). *)
LEMMA WaitedGoto ==
  ASSUME IInv, WaitedInv, NEW p \in Procs, pc[p] # "ticks_loop",
         NEW l, l \notin SleepLabels, pc' = [pc EXCEPT ![p] = l],
         UNCHANGED <<rpc, ticks0, ticks, waited>>
  PROVE  TimeKept
<1>1. pc'[p] = l /\ \A q \in Procs : q # p => pc'[q] = pc[q]
  BY Layers DEF ThreadTypes
<1>2. ~InSysSleep(p)'
  BY <1>1 DEF InSysSleep, SleepLabels
<1> QED  BY <1>1, <1>2, WaitedMove

(* A system call other than sleep() returns. *)
LEMMA WaitedReturn ==
  ASSUME IInv, WaitedInv, NEW p \in Procs, pc[p] # "ticks_loop",
         Return(p), UNCHANGED <<ticks, waited>>
  PROVE  TimeKept
<1>1. /\ pc'[p] = "trapret" /\ UNCHANGED rpc
      /\ \A q \in Procs : q # p => pc'[q] = pc[q] /\ ticks0'[q] = ticks0[q]
  BY Layers DEF ThreadTypes, Return
<1>2. ~InSysSleep(p)'
  BY <1>1 DEF InSysSleep
<1> QED  BY <1>1, <1>2, WaitedMove

(* The end of a timer interrupt: a thread of sys_sleep() is still in it. *)
LEMMA WaitedTimer ==
  ASSUME IInv, WaitedInv, NEW c \in CPU, run[c] \in Procs, pc[run[c]] \in Unlocked,
         TimerReturn(c), UNCHANGED <<ticks, waited>>
  PROVE  TimeKept
<1>0. PICK p \in Procs : p = run[c] /\ pc[p] # "ticks_loop"
  BY DEF Unlocked
<1>1. CASE pc[p] = "user" /\ killed[p]
  <2>1. pc' = [pc EXCEPT ![p] = "exit"] /\ UNCHANGED <<rpc, ticks0>>
    BY <1>0, <1>1 DEF TimerReturn, ExitKilled
  <2> QED  BY <1>0, <2>1, WaitedGoto DEF SleepLabels
<1>2. CASE ~(pc[p] = "user" /\ killed[p])
  <2>1. /\ pc' = [pc EXCEPT ![p] = "yield_sched"]
        /\ rpc' = [rpc EXCEPT ![p] = pc[p]] /\ UNCHANGED ticks0
    BY <1>0, <1>2 DEF TimerReturn
  <2>2. /\ pc'[p] = "yield_sched" /\ rpc'[p] = pc[p]
        /\ \A q \in Procs : q # p => pc'[q] = pc[q] /\ rpc'[q] = rpc[q]
    BY <2>1, Layers DEF ThreadTypes
  <2>3. InSysSleep(p)' => InSysSleep(p)
    BY <2>2 DEF InSysSleep
  <2> QED  BY <1>0, <2>1, <2>2, <2>3, WaitedMove
<1> QED  BY <1>1, <1>2

(* One tick more on the clock is one tick more since ticks0, or a whole turn. *)
LEMMA OneTick ==
  ASSUME NEW m \in Nat \ {0}, NEW t \in 0..(m - 1), NEW s \in 0..(m - 1)
  PROVE  LET w == (t - s) % m IN
         /\ w \in 0..(m - 1)
         /\ w + 1 = m \/ (((t + 1) % m) - s) % m = w + 1
<1>0. /\ \A x \in 0..(m - 1) : x % m = x
      /\ \A x \in (-m)..(-1) : x % m = x + m
  <2>1. ASSUME NEW x \in 0..(m - 1) PROVE x % m = x
    BY <2>1, SMTT(30)
  <2>2. ASSUME NEW x \in (-m)..(-1) PROVE x % m = x + m
    BY <2>2, SMTT(30)
  <2> QED  BY <2>1, <2>2
<1>1. (t + 1) % m = IF t + 1 = m THEN 0 ELSE t + 1
  BY <1>0, SMTT(30)
<1>2. (t - s) % m = IF t < s THEN t - s + m ELSE t - s
  BY <1>0, SMTT(30)
<1>3. CASE t + 1 = m
  BY <1>0, <1>1, <1>2, <1>3, SMTT(30)
<1>4. CASE t + 1 # m
  BY <1>0, <1>1, <1>2, <1>4, SMTT(30)
<1> QED  BY <1>3, <1>4

(* A running thread enters a system call. *)
LEMMA WaitedCall ==
  ASSUME IInv, WaitedInv, NEW c \in CPU, NEW k, NEW l, NEW n, l \notin SleepLabels,
         SysCall(c, k, l, n)
  PROVE  TimeKept
<1>1. PICK p \in Procs : p = run[c] /\ pc[p] # "ticks_loop"
  BY Layers, RunProc DEF SysCall
<1>2. pc' = [pc EXCEPT ![p] = l] /\ UNCHANGED <<rpc, ticks0, ticks, waited>>
  BY <1>1 DEF SysCall
<1> QED  BY <1>1, <1>2, WaitedGoto

(* The thread of a slot that is UNUSED has not begun, or is over. *)
LEMMA UnusedHere ==
  ASSUME IInv, NEW c \in CPU, run[c] \in Procs, state[run[c]] = "RUNNING", NEW q \in Procs,
         state[q] = "UNUSED"
  PROVE  q # run[c] /\ pc[q] \in {"forkret", "exit_ret"}
<1>1. q # run[c]
  OBVIOUS
<1> QED  BY <1>1, Layers DEF StateInv, StateOK, SchedPoints

(* No step gives a process of sys_sleep() a tick too many, or lets it go early. *)
LEMMA WaitedStep ==
  ASSUME IInv, WaitedInv, Next
  PROVE  TimeKept
<1>1. ASSUME NEW c \in CPU, Scheduler(c)
      PROVE  TimeKept
  <2>1. CASE SchedRun(c)
    BY <2>1, WaitedSame DEF SchedRun
  <2>2. CASE SchedSkip(c)
    BY <2>2, WaitedSame DEF SchedSkip
  <2>3. CASE SchedBack(c)
    BY <2>3, WaitedSame DEF SchedBack
  <2> QED  BY <1>1, <2>1, <2>2, <2>3 DEF Scheduler
<1>2. ASSUME NEW c \in CPU, SwitchStep(c)
      PROVE  TimeKept
  <2>1. CASE Sched(c)
    <3>1. PICK p \in Procs : p = run[c] /\ pc[p] \in SchedPoints
      BY <2>1, Layers, RunProc DEF Sched
    <3>2. /\ pc'[p] = Resume(pc[p]) /\ UNCHANGED <<rpc, ticks0, ticks, waited>>
          /\ \A q \in Procs : q # p => pc'[q] = pc[q]
      BY <2>1, <3>1, Layers DEF ThreadTypes, Sched
    <3>3. InSysSleep(p)' => InSysSleep(p)
      BY <3>1, <3>2 DEF InSysSleep, Resume, SchedPoints
    <3> QED  BY <3>1, <3>2, <3>3, WaitedMove DEF SchedPoints
  <2>2. CASE ForkRet(c)
    <3>1. PICK p \in Procs : p = run[c] /\ pc[p] # "ticks_loop"
      BY <2>2, Layers, RunProc DEF ForkRet
    <3>2. pc' = [pc EXCEPT ![p] = "user"] /\ UNCHANGED <<rpc, ticks0, ticks, waited>>
      BY <2>2, <3>1 DEF ForkRet
    <3> QED  BY <3>1, <3>2, WaitedGoto DEF SleepLabels
  <2>3. CASE YieldRet(c)
    <3>1. PICK p \in Procs : p = run[c] /\ pc[p] = "yield_ret"
      BY <2>3, Layers, RunProc DEF YieldRet
    <3>2. /\ pc'[p] = rpc[p] /\ rpc'[p] = "user" /\ UNCHANGED <<ticks0, ticks, waited>>
          /\ \A q \in Procs : q # p => pc'[q] = pc[q] /\ rpc'[q] = rpc[q]
      BY <2>3, <3>1, Layers DEF ThreadTypes, YieldRet
    <3>3. rpc[p] \notin {"ticks_loop", "ticks_sleep"}
      BY <3>1, Layers DEF CursorInv, CursorOK, Unlocked
    <3>4. InSysSleep(p)' => InSysSleep(p)
      BY <3>1, <3>2, <3>3 DEF InSysSleep
    <3> QED  BY <3>1, <3>2, <3>4, WaitedMove
  <2>4. CASE SleepRet(c)
    <3>1. PICK p \in Procs : p = run[c] /\ pc[p] = "sleep_ret"
      BY <2>4, Layers, RunProc DEF SleepRet
    <3>2. /\ pc'[p] = rpc[p] /\ rpc'[p] = "user" /\ UNCHANGED <<ticks0, ticks, waited>>
          /\ \A q \in Procs : q # p => pc'[q] = pc[q] /\ rpc'[q] = rpc[q]
      BY <2>4, <3>1, Layers DEF ThreadTypes, SleepRet
    <3>3. rpc[p] \notin {"ticks_loop", "ticks_sleep"}
      BY <3>1, Layers DEF CursorInv, CursorOK, Unlocked
    <3>4. InSysSleep(p)' => InSysSleep(p)
      BY <3>1, <3>2, <3>3 DEF InSysSleep
    <3> QED  BY <3>1, <3>2, <3>4, WaitedMove
  <2> QED  BY <1>2, <2>1, <2>2, <2>3, <2>4 DEF SwitchStep
<1>3. ASSUME NEW c \in CPU, TrapRet(c) \/ TrapKilled(c)
      PROVE  TimeKept
  <2>1. CASE TrapRet(c)
    <3>1. PICK p \in Procs : p = run[c] /\ pc[p] # "ticks_loop"
      BY <2>1, Layers, RunProc DEF TrapRet
    <3>2. pc' = [pc EXCEPT ![p] = "user"] /\ UNCHANGED <<rpc, ticks0, ticks, waited>>
      BY <2>1, <3>1 DEF TrapRet
    <3> QED  BY <3>1, <3>2, WaitedGoto DEF SleepLabels
  <2>2. CASE TrapKilled(c)
    <3>1. PICK p \in Procs : p = run[c] /\ pc[p] # "ticks_loop"
      BY <2>2, Layers, RunProc DEF TrapKilled, ExitKilled
    <3>2. pc' = [pc EXCEPT ![p] = "exit"] /\ UNCHANGED <<rpc, ticks0, ticks, waited>>
      BY <2>2, <3>1 DEF TrapKilled, ExitKilled
    <3> QED  BY <3>1, <3>2, WaitedGoto DEF SleepLabels
  <2> QED  BY <1>3, <2>1, <2>2
<1>4. ASSUME NEW c \in CPU, ForkStep(c)
      PROVE  TimeKept
  <2>1. CASE AllocNext(c)
    <3>1. PICK p \in Procs : p = run[c] /\ pc[p] # "ticks_loop"
      BY <2>1, Layers, RunProc DEF AllocNext
    <3>2. UNCHANGED <<ticks, waited>> /\ (Return(p) \/ UNCHANGED <<pc, rpc, ticks0>>)
      BY <2>1, <3>1 DEF AllocNext
    <3> QED  BY <3>1, <3>2, WaitedReturn, WaitedSame
  <2>2. CASE AllocFound(c)
    <3>1. PICK q \in Procs : q = cur[run[c]]
      BY <2>2, Layers, CursorHere DEF AllocFound
    <3>2. run[c] \in Procs /\ state[run[c]] = "RUNNING" /\ pc[run[c]] = "alloc"
      BY <2>2, Layers, RunState DEF SchedPoints, AllocFound
    <3>3. q # run[c] /\ pc[q] \in {"forkret", "exit_ret"}
      <4>1. state[q] = "UNUSED"
        BY <2>2, <3>1 DEF AllocFound
      <4> QED  BY <3>2, <4>1, Layers, UnusedHere
    <3>4. /\ pc' = [pc EXCEPT ![q] = "forkret", ![run[c]] = "fork_parent"]
          /\ UNCHANGED <<rpc, ticks0, ticks, waited>>
      BY <2>2, <3>1 DEF AllocFound
    <3>5. /\ pc'[q] = "forkret" /\ pc'[run[c]] = "fork_parent"
          /\ \A r \in Procs : r # q /\ r # run[c] => pc'[r] = pc[r]
      BY <3>2, <3>3, <3>4, Layers DEF ThreadTypes
    <3>6. ASSUME NEW r \in Procs
          PROVE  /\ InSysSleep(r)' => InSysSleep(r)
                 /\ pc[r] # "ticks_loop" \/ pc'[r] # "trapret"
      BY <3>4, <3>5 DEF InSysSleep
    <3>7. ASSUME NEW r \in Procs
          PROVE  WaitedOK(r)' /\ OnTime(r)
      BY <3>4, <3>6, WaitedFrame DEF WaitedInv
    <3> QED  BY <3>7 DEF TimeKept, WaitedInv
  <2>3. CASE AllocFail(c)
    <3>1. PICK p \in Procs : p = run[c] /\ pc[p] # "ticks_loop"
      BY <2>3, Layers, RunProc DEF AllocFail
    <3>2. Return(p) /\ UNCHANGED <<ticks, waited>>
      BY <2>3, <3>1 DEF AllocFail
    <3> QED  BY <3>1, <3>2, WaitedReturn
  <2>4. CASE ForkParent(c)
    <3>1. PICK p \in Procs : p = run[c] /\ pc[p] # "ticks_loop"
      BY <2>4, Layers, RunProc DEF ForkParent
    <3>2. pc' = [pc EXCEPT ![p] = "fork_run"] /\ UNCHANGED <<rpc, ticks0, ticks, waited>>
      BY <2>4, <3>1 DEF ForkParent
    <3> QED  BY <3>1, <3>2, WaitedGoto DEF SleepLabels
  <2>5. CASE ForkRun(c)
    <3>1. PICK p \in Procs : p = run[c] /\ pc[p] # "ticks_loop"
      BY <2>5, Layers, RunProc DEF ForkRun
    <3>2. Return(p) /\ UNCHANGED <<ticks, waited>>
      BY <2>5, <3>1 DEF ForkRun
    <3> QED  BY <3>1, <3>2, WaitedReturn
  <2> QED  BY <1>4, <2>1, <2>2, <2>3, <2>4, <2>5 DEF ForkStep
<1>5. ASSUME NEW c \in CPU, WaitStep(c)
      PROVE  TimeKept
  <2>1. CASE WaitLock(c)
    <3>1. PICK p \in Procs : p = run[c] /\ pc[p] # "ticks_loop"
      BY <2>1, Layers, RunProc DEF WaitLock
    <3>2. pc' = [pc EXCEPT ![p] = "wait_scan"] /\ UNCHANGED <<rpc, ticks0, ticks, waited>>
      BY <2>1, <3>1 DEF WaitLock
    <3> QED  BY <3>1, <3>2, WaitedGoto DEF SleepLabels
  <2>2. CASE WaitNext(c)
    BY <2>2, WaitedSame DEF WaitNext
  <2>3. CASE WaitReap(c)
    <3>1. PICK p \in Procs : p = run[c] /\ pc[p] # "ticks_loop"
      BY <2>3, Layers, RunProc DEF WaitReap
    <3>2. Return(p) /\ UNCHANGED <<ticks, waited>>
      BY <2>3, <3>1 DEF WaitReap
    <3> QED  BY <3>1, <3>2, WaitedReturn
  <2>4. CASE WaitBadAddr(c)
    <3>1. PICK p \in Procs : p = run[c] /\ pc[p] # "ticks_loop"
      BY <2>4, Layers, RunProc DEF WaitBadAddr
    <3>2. Return(p) /\ UNCHANGED <<ticks, waited>>
      BY <2>4, <3>1 DEF WaitBadAddr
    <3> QED  BY <3>1, <3>2, WaitedReturn
  <2>5. CASE WaitGiveUp(c)
    <3>1. PICK p \in Procs : p = run[c] /\ pc[p] # "ticks_loop"
      BY <2>5, Layers, RunProc DEF WaitGiveUp
    <3>2. Return(p) /\ UNCHANGED <<ticks, waited>>
      BY <2>5, <3>1 DEF WaitGiveUp
    <3> QED  BY <3>1, <3>2, WaitedReturn
  <2>6. CASE WaitMore(c)
    <3>1. PICK p \in Procs : p = run[c] /\ pc[p] # "ticks_loop"
      BY <2>6, Layers, RunProc DEF WaitMore
    <3>2. pc' = [pc EXCEPT ![p] = "wait_sleep"] /\ UNCHANGED <<rpc, ticks0, ticks, waited>>
      BY <2>6, <3>1 DEF WaitMore
    <3> QED  BY <3>1, <3>2, WaitedGoto DEF SleepLabels
  <2>7. CASE WaitSleep(c)
    <3>1. PICK p \in Procs : p = run[c] /\ pc[p] = "wait_sleep"
      BY <2>7, Layers, RunProc DEF WaitSleep
    <3>2. /\ pc'[p] = "sleep_sched" /\ rpc'[p] = "wait" /\ UNCHANGED <<ticks0, ticks, waited>>
          /\ \A q \in Procs : q # p => pc'[q] = pc[q] /\ rpc'[q] = rpc[q]
      BY <2>7, <3>1, Layers DEF ThreadTypes, WaitSleep, SleepOn
    <3>3. ~InSysSleep(p)'
      BY <3>2 DEF InSysSleep
    <3> QED  BY <3>1, <3>2, <3>3, WaitedMove
  <2> QED  BY <1>5, <2>1, <2>2, <2>3, <2>4, <2>5, <2>6, <2>7 DEF WaitStep
<1>6. ASSUME NEW c \in CPU, ExitStep(c)
      PROVE  TimeKept
  <2>1. CASE ExitPanic(c)
    <3>1. PICK p \in Procs : p = run[c] /\ pc[p] # "ticks_loop"
      BY <2>1, Layers, RunProc DEF ExitPanic
    <3>2. pc' = [pc EXCEPT ![p] = "panic"] /\ UNCHANGED <<rpc, ticks0, ticks, waited>>
      BY <2>1, <3>1 DEF ExitPanic
    <3> QED  BY <3>1, <3>2, WaitedGoto DEF SleepLabels
  <2>2. CASE ExitLock(c)
    <3>1. PICK p \in Procs : p = run[c] /\ pc[p] # "ticks_loop"
      BY <2>2, Layers, RunProc DEF ExitLock
    <3>2. pc' = [pc EXCEPT ![p] = "reparent"] /\ UNCHANGED <<rpc, ticks0, ticks, waited>>
      BY <2>2, <3>1 DEF ExitLock
    <3> QED  BY <3>1, <3>2, WaitedGoto DEF SleepLabels
  <2>3. CASE Reparent(c)
    <3>1. PICK p \in Procs : p = run[c] /\ pc[p] # "ticks_loop"
      BY <2>3, Layers, RunProc DEF Reparent
    <3>2. /\ UNCHANGED <<rpc, ticks0, ticks, waited>>
          /\ UNCHANGED pc \/ \E l \in {"exit_wake", "reparent_wake"} : pc' = [pc EXCEPT ![p] = l]
      BY <2>3, <3>1 DEF Reparent
    <3> QED  BY <3>1, <3>2, WaitedGoto, WaitedSame DEF SleepLabels
  <2>4. CASE ReparentWake(c)
    <3>1. PICK p \in Procs : p = run[c] /\ pc[p] # "ticks_loop"
      BY <2>4, Layers, RunProc DEF ReparentWake
    <3>2. /\ UNCHANGED <<rpc, ticks0, ticks, waited>>
          /\ UNCHANGED pc \/ \E l \in {"reparent"} : pc' = [pc EXCEPT ![p] = l]
      BY <2>4, <3>1 DEF ReparentWake
    <3> QED  BY <3>1, <3>2, WaitedGoto, WaitedSame DEF SleepLabels
  <2>5. CASE ExitWake(c)
    <3>1. PICK p \in Procs : p = run[c] /\ pc[p] # "ticks_loop"
      BY <2>5, Layers, RunProc DEF ExitWake
    <3>2. /\ UNCHANGED <<rpc, ticks0, ticks, waited>>
          /\ UNCHANGED pc \/ \E l \in {"exit_zombie"} : pc' = [pc EXCEPT ![p] = l]
      BY <2>5, <3>1 DEF ExitWake
    <3> QED  BY <3>1, <3>2, WaitedGoto, WaitedSame DEF SleepLabels
  <2>6. CASE ExitZombie(c)
    <3>1. PICK p \in Procs : p = run[c] /\ pc[p] # "ticks_loop"
      BY <2>6, Layers, RunProc DEF ExitZombie
    <3>2. pc' = [pc EXCEPT ![p] = "exit_sched"] /\ UNCHANGED <<rpc, ticks0, ticks, waited>>
      BY <2>6, <3>1 DEF ExitZombie
    <3> QED  BY <3>1, <3>2, WaitedGoto DEF SleepLabels
  <2> QED  BY <1>6, <2>1, <2>2, <2>3, <2>4, <2>5, <2>6 DEF ExitStep
<1>7. ASSUME NEW c \in CPU, KillStep(c)
      PROVE  TimeKept
  <2>1. CASE KillNext(c)
    <3>1. PICK p \in Procs : p = run[c] /\ pc[p] # "ticks_loop"
      BY <2>1, Layers, RunProc DEF KillNext
    <3>2. UNCHANGED <<ticks, waited>> /\ (Return(p) \/ UNCHANGED <<pc, rpc, ticks0>>)
      BY <2>1, <3>1 DEF KillNext
    <3> QED  BY <3>1, <3>2, WaitedReturn, WaitedSame
  <2>2. CASE KillHit(c)
    <3>1. PICK p \in Procs : p = run[c] /\ pc[p] # "ticks_loop"
      BY <2>2, Layers, RunProc DEF KillHit
    <3>2. Return(p) /\ UNCHANGED <<ticks, waited>>
      BY <2>2, <3>1 DEF KillHit
    <3> QED  BY <3>1, <3>2, WaitedReturn
  <2> QED  BY <1>7, <2>1, <2>2 DEF KillStep
<1>8. ASSUME NEW c \in CPU, TicksStep(c)
      PROVE  TimeKept
  <2>1. CASE TicksEnter(c)
    <3>1. PICK p \in Procs : p = run[c] /\ pc[p] = "ticks"
      BY <2>1, Layers, RunProc DEF TicksEnter
    <3>2. /\ pc'[p] = "ticks_loop" /\ ticks0'[p] = ticks /\ waited'[p] = 0
          /\ UNCHANGED <<rpc, ticks>>
          /\ \A q \in Procs : q # p => pc'[q] = pc[q] /\ ticks0'[q] = ticks0[q] /\ waited'[q] = waited[q]
      BY <2>1, <3>1, Layers DEF ThreadTypes, ClockTypes, TicksEnter
    <3>3. (ticks - ticks) % TickMod = 0
      BY Layers, ProcAssumption, SMTT(30) DEF ClockTypes, Ticks
    <3>4. WaitedOK(p)' /\ OnTime(p)
      BY <3>1, <3>2, <3>3 DEF WaitedOK, OnTime
    <3>5. ASSUME NEW q \in Procs, q # p
          PROVE  WaitedOK(q)' /\ OnTime(q)
      BY <3>2, <3>5, WaitedFrame DEF WaitedInv, InSysSleep
    <3> QED  BY <3>4, <3>5 DEF TimeKept, WaitedInv
  <2>2. CASE TicksReturn(c)
    <3>1. PICK p \in Procs : p = run[c] /\ pc[p] = "ticks_loop" /\ (TicksLeft(p) => killed[p])
      BY <2>2, Layers, RunProc DEF TicksReturn
    <3>2. /\ pc'[p] = "trapret" /\ UNCHANGED <<rpc, ticks>>
          /\ \A q \in Procs : q # p => pc'[q] = pc[q] /\ ticks0'[q] = ticks0[q] /\ waited'[q] = waited[q]
      BY <2>2, <3>1, Layers DEF ThreadTypes, ClockTypes, TicksReturn, Return
    <3>3. WaitedOK(p)'
      BY <3>2 DEF WaitedOK, InSysSleep
    <3>4. OnTime(p)
      <4>1. waited[p] = TickMod \/ waited[p] = (ticks - ticks0[p]) % TickMod
        BY <3>1 DEF WaitedInv, WaitedOK, InSysSleep
      <4>2. TickMod \in Nat \ {0} /\ ticks \in Int /\ ticks0[p] \in Int /\ arg[p] \in Int
        BY <3>1, Layers, ProcAssumption, SMTT(30) DEF ClockTypes, ThreadTypes, Ticks
      <4>3. arg[p] % TickMod \in 0..(TickMod - 1) /\ (ticks - ticks0[p]) % TickMod \in Nat
        BY <4>2, SMTT(30)
      <4> QED  BY <3>1, <4>1, <4>2, <4>3, SMTT(30) DEF OnTime, TicksLeft
    <3>5. ASSUME NEW q \in Procs, q # p
          PROVE  WaitedOK(q)' /\ OnTime(q)
      BY <3>2, <3>5, WaitedFrame DEF WaitedInv, InSysSleep
    <3> QED  BY <3>3, <3>4, <3>5 DEF TimeKept, WaitedInv
  <2>3. CASE TicksMore(c)
    <3>1. PICK p \in Procs : p = run[c] /\ pc[p] = "ticks_loop"
      BY <2>3, Layers, RunProc DEF TicksMore
    <3>2. /\ pc'[p] = "ticks_sleep" /\ UNCHANGED <<rpc, ticks0, ticks, waited>>
          /\ \A q \in Procs : q # p => pc'[q] = pc[q] /\ rpc'[q] = rpc[q]
      BY <2>3, <3>1, Layers DEF ThreadTypes, TicksMore
    <3>3. InSysSleep(p)
      BY <3>1 DEF InSysSleep
    <3> QED  BY <3>1, <3>2, <3>3, WaitedMove
  <2>4. CASE TicksSleep(c)
    <3>1. PICK p \in Procs : p = run[c] /\ pc[p] = "ticks_sleep"
      BY <2>4, Layers, RunProc DEF TicksSleep
    <3>2. /\ pc'[p] = "sleep_sched" /\ UNCHANGED <<ticks0, ticks, waited>>
          /\ \A q \in Procs : q # p => pc'[q] = pc[q] /\ rpc'[q] = rpc[q]
      BY <2>4, <3>1, Layers DEF ThreadTypes, TicksSleep, SleepOn
    <3>3. InSysSleep(p)
      BY <3>1 DEF InSysSleep
    <3> QED  BY <3>1, <3>2, <3>3, WaitedMove
  <2>5. CASE TicksRelock(c)
    <3>1. PICK p \in Procs : p = run[c] /\ pc[p] = "ticks_relock"
      BY <2>5, Layers, RunProc DEF TicksRelock
    <3>2. /\ pc'[p] = "ticks_loop" /\ UNCHANGED <<rpc, ticks0, ticks, waited>>
          /\ \A q \in Procs : q # p => pc'[q] = pc[q] /\ rpc'[q] = rpc[q]
      BY <2>5, <3>1, Layers DEF ThreadTypes, TicksRelock
    <3>3. InSysSleep(p)
      BY <3>1 DEF InSysSleep
    <3> QED  BY <3>1, <3>2, <3>3, WaitedMove
  <2> QED  BY <1>8, <2>1, <2>2, <2>3, <2>4, <2>5 DEF TicksStep
<1>9. ASSUME NEW c \in CPU, UserStep(c)
      PROVE  TimeKept
  <2>1. CASE SysFork(c)
    <3>1. PICK k, l, n : SysCall(c, k, l, n) /\ l \notin SleepLabels
      BY <2>1, SMTT(30) DEF SysFork, SleepLabels
    <3> QED  BY <3>1, WaitedCall
  <2>2. CASE SysWait(c)
    <3>1. PICK k, l, n : SysCall(c, k, l, n) /\ l \notin SleepLabels
      BY <2>2, SMTT(30) DEF SysWait, SleepLabels
    <3> QED  BY <3>1, WaitedCall
  <2>3. CASE SysExit(c)
    <3>1. PICK k, l, n : SysCall(c, k, l, n) /\ l \notin SleepLabels
      BY <2>3, SMTT(30) DEF SysExit, SleepLabels
    <3> QED  BY <3>1, WaitedCall
  <2>4. CASE SysKill(c)
    <3>1. PICK k, l, n : SysCall(c, k, l, n) /\ l \notin SleepLabels
      BY <2>4, SMTT(30) DEF SysKill, SleepLabels
    <3> QED  BY <3>1, WaitedCall
  <2>5. CASE SysSleep(c)
    <3>1. PICK k, l, n : SysCall(c, k, l, n) /\ l \notin SleepLabels
      BY <2>5, SMTT(30) DEF SysSleep, SleepLabels
    <3> QED  BY <3>1, WaitedCall
  <2>6. CASE UserFault(c)
    <3>1. PICK p \in Procs : p = run[c] /\ pc[p] # "ticks_loop"
      BY <2>6, Layers, RunProc DEF UserFault, ExitKilled
    <3>2. pc' = [pc EXCEPT ![p] = "exit"] /\ UNCHANGED <<rpc, ticks0, ticks, waited>>
      BY <2>6, <3>1 DEF UserFault, ExitKilled
    <3> QED  BY <3>1, <3>2, WaitedGoto DEF SleepLabels
  <2> QED  BY <1>9, <2>1, <2>2, <2>3, <2>4, <2>5, <2>6 DEF UserStep
<1>10. ASSUME NEW c \in CPU, TimerIntr(c)
      PROVE  TimeKept
  <2>1. run[c] \in Procs /\ pc[run[c]] \in Unlocked
    BY <1>10, Layers, UnlockedHere, RunProc DEF IntrOn, TimerIntr
  <2>2. TimerReturn(c) /\ UNCHANGED <<ticks, waited>>
    BY <1>10 DEF TimerIntr
  <2> QED  BY <2>1, <2>2, WaitedTimer
<1>11. CASE Clock
  <2>1. CASE ClockIntr
    <3>1. /\ ticks' = (ticks + 1) % TickMod /\ UNCHANGED <<pc, rpc, ticks0>>
          /\ \A p \in Procs : InSysSleep(p) /\ waited[p] < TickMod => waited'[p] = waited[p] + 1
          /\ \A p \in Procs : ~(waited[p] < TickMod) => waited'[p] = waited[p]
      BY <2>1 DEF ClockIntr
    <3>2. ASSUME NEW p \in Procs, InSysSleep(p)
          PROVE  waited'[p] = TickMod \/ waited'[p] = (ticks' - ticks0[p]) % TickMod
      <4>1. TickMod \in Nat \ {0} /\ ticks \in 0..(TickMod - 1) /\ ticks0[p] \in 0..(TickMod - 1)
        BY Layers, ProcAssumption DEF ClockTypes, ThreadTypes, Ticks
      <4>2. PICK w \in Int : w = (ticks - ticks0[p]) % TickMod
        BY <4>1, SMTT(30)
      <4>3. /\ w \in 0..(TickMod - 1)
            /\ w + 1 = TickMod \/ (ticks' - ticks0[p]) % TickMod = w + 1
        BY <3>1, <4>1, <4>2, OneTick
      <4>4. waited[p] = TickMod \/ waited[p] = w
        BY <3>2, <4>2 DEF WaitedInv, WaitedOK
      <4> QED  BY <3>1, <3>2, <4>1, <4>3, <4>4, SMTT(30)
    <3>3. \A p \in Procs : InSysSleep(p)' <=> InSysSleep(p)
      BY <3>1 DEF InSysSleep
    <3>4. \A p \in Procs : OnTime(p)
      BY <3>1 DEF OnTime
    <3> QED  BY <3>1, <3>2, <3>3, <3>4 DEF TimeKept, WaitedInv, WaitedOK
  <2>2. CASE ClockWake
    BY <2>2, WaitedSame DEF ClockWake
  <2>3. CASE ClockEnd
    <3>1. CASE run[0] = NULL
      BY <2>3, <3>1, WaitedSame DEF ClockEnd
    <3>2. CASE run[0] # NULL
      <4>1. 0 \in CPU /\ run[0] \in Procs /\ pc[run[0]] \in Unlocked
        BY <2>3, <3>2, ClockEndHere
      <4>2. TimerReturn(0) /\ UNCHANGED <<ticks, waited>>
        BY <2>3, <3>2 DEF ClockEnd
      <4> QED  BY <4>1, <4>2, WaitedTimer
    <3> QED  BY <3>1, <3>2
  <2> QED  BY <1>11, <2>1, <2>2, <2>3 DEF Clock
<1> QED  BY <1>1, <1>2, <1>3, <1>4, <1>5, <1>6, <1>7, <1>8, <1>9, <1>10, <1>11 DEF Next, SysStep

-----------------------------------------------------------------------------
(* The variables of the process table keep their types. *)
THEOREM TypeCorrect == Spec => []TypeOK
<1>1. IInv => TypeOK
  BY DEF IInv
<1> QED  BY <1>1, Invariance, PTL

(* scheduler() and sched() never let two harts run on one kernel stack. *)
THEOREM StackSafety == Spec => []StackOwned
BY StackOwnedHolds, Invariance, PTL

(* The panics of sched(), release() and exit() ("zombie exit") are unreachable. *)
THEOREM NoPanics == Spec => []PanicFree
BY PanicFreeHolds, Invariance, PTL

(* acquire() takes wait_lock before p->lock, and a system call leaks no lock. *)
THEOREM LocksOrdered == Spec => []LockOrder
BY LockOrderHolds, Invariance, PTL

(* exit() leaves no process without a live parent. *)
THEOREM ParentsLive == Spec => []ParentAlive
BY TreeHolds, Invariance, PTL

(* allocpid() gives every process a pid of its own. *)
THEOREM PidsDistinct == Spec => []PidUnique
BY TreeHolds, Invariance, PTL

(* The wakeup() of exit() is not lost to a parent that falls asleep in wait(). *)
THEOREM ExitSeen == Spec => []NoLostExit
BY WakeupsHold, Invariance, PTL

(* The wakeup() of clockintr() is not lost to a process in sys_sleep(). *)
THEOREM TickSeen == Spec => []NoLostTick
BY WakeupsHold, Invariance, PTL

(* freeproc() is applied to zombies that are off their kernel stack and childless. *)
THEOREM ReapsSafely == Spec => ReapSafe
<1>1. IInv /\ [Next]_vars =>
        [\A q \in Procs : state[q] # "UNUSED" /\ state'[q] = "UNUSED" =>
           /\ state[q] = "ZOMBIE"
           /\ \A c \in CPU : run[c] # q
           /\ \A r \in Procs : parent[r] # q]_vars
  BY ReapStep
<1> QED  BY <1>1, Invariance, PTL DEF Spec, ReapSafe

(* sys_sleep() counts the ticks since it was called, whether ticks wraps or not: *)
(* the history variable waited agrees with ticks - ticks0, up to a whole turn.   *)
THEOREM TicksCounted == Spec => []WaitedInv
<1>1. Init => WaitedInv
  BY DEF Init, WaitedInv, WaitedOK, InSysSleep
<1>2. IInv /\ WaitedInv /\ [Next]_vars => WaitedInv'
  <2>1. ASSUME WaitedInv, UNCHANGED vars
        PROVE  WaitedInv'
    BY <2>1 DEF vars, WaitedInv, WaitedOK, InSysSleep
  <2> QED  BY <2>1, WaitedStep DEF TimeKept
<1> QED  BY <1>1, <1>2, Invariance, PTL DEF Spec

(* sleep(n) returns after n ticks, or to a killed process. *)
THEOREM SleepsFull == Spec => SleepFull
<1>1. IInv /\ WaitedInv /\ [Next]_vars =>
        [\A p \in Procs : pc[p] = "ticks_loop" /\ pc'[p] = "trapret" /\ ~killed[p] =>
           waited[p] >= arg[p] % TickMod]_vars
  BY WaitedStep DEF TimeKept, OnTime
<1> QED  BY <1>1, Invariance, TicksCounted, PTL DEF Spec, SleepFull

=============================================================================
