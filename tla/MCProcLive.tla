----------------------------- MODULE MCProcLive -----------------------------
(***************************************************************************)
(* Liveness of the process table, on two instances side by side: two harts *)
(* that share two slots (part "harts", in the variables of Proc), and one  *)
(* hart with three slots whose init waits for children again and again     *)
(* (part "init", in the variables s1, s2, ...).                            *)
(***************************************************************************)
EXTENDS Proc

VARIABLES part,
          s1, s2, s3, s4, s5, s6, s7, s8, s9, s10, s11, s12, s13, s14, s15, s16, s17, s18, s19,
          s20, s21, s22

pool == <<s1, s2, s3, s4, s5, s6, s7, s8, s9, s10, s11, s12, s13, s14, s15, s16, s17, s18, s19, s20, s21, s22>>
both == <<vars, part, pool>>

Few == INSTANCE Proc WITH
  NPROC <- 3, CPU <- {1}, MaxPid <- 3, TickMod <- 2, Calls <- {"fork", "exit", "wait"},
  KillArgs <- {}, SleepArgs <- {}, ExitArgs <- {0}, state <- s1, chan <- s2, killed <- s3,
  xstate <- s4, pid <- s5, parent <- s6, nextpid <- s7, plock <- s8, wait_lock <- s9,
  tickslock <- s10, ticks <- s11, cproc <- s12, run <- s13, scan <- s14, clk <- s15, pc <- s16,
  rpc <- s17, cur <- s18, wcur <- s19, arg <- s20, ticks0 <- s21, waited <- s22

Start ==
  /\ Init
  /\ \/ part = "harts"
          /\ s1 = 0 /\ s2 = 0 /\ s3 = 0 /\ s4 = 0 /\ s5 = 0 /\ s6 = 0 /\ s7 = 0 /\ s8 = 0
          /\ s9 = 0 /\ s10 = 0 /\ s11 = 0 /\ s12 = 0 /\ s13 = 0 /\ s14 = 0 /\ s15 = 0 /\ s16 = 0
          /\ s17 = 0 /\ s18 = 0 /\ s19 = 0 /\ s20 = 0 /\ s21 = 0 /\ s22 = 0
     \/ part = "init" /\ Few!Init

Steps ==
  \/ part = "harts" /\ Next /\ UNCHANGED <<part, pool>>
  \/ part = "init" /\ Few!Next /\ UNCHANGED <<vars, part>>

Both == Start /\ [][Steps]_both

(* A step of either instance, and the fairness that Proc states for it. *)
InHarts(A) == part = "harts" /\ A /\ UNCHANGED <<part, pool>>
InInit(A) == part = "init" /\ A /\ UNCHANGED <<vars, part>>

HartsFair ==
  /\ WF_both(InHarts(ClockWake \/ ClockEnd)) /\ SF_both(InHarts(ClockIntr))
  /\ \A c \in CPU : /\ WF_both(InHarts(SwitchStep(c))) /\ SF_both(InHarts(Scheduler(c)))
                    /\ SF_both(InHarts(TimerIntr(c)))
  /\ \A p \in Procs : SF_both(InHarts(KernelStep(p)))
InitFair ==
  /\ WF_both(InInit(Few!ClockWake \/ Few!ClockEnd)) /\ SF_both(InInit(Few!ClockIntr))
  /\ WF_both(InInit(Few!SwitchStep(1))) /\ SF_both(InInit(Few!Scheduler(1))) /\ SF_both(InInit(Few!TimerIntr(1)))
  /\ \A p \in Few!Procs : SF_both(InInit(Few!KernelStep(p)))
  /\ SF_both(InInit(Few!InitCalls))

-----------------------------------------------------------------------------
(* scheduler() starves nobody: with two harts that look for work at the same   *)
(* time a RUNNABLE process gets one of them.                                   *)
NobodyStarves ==
  part = "harts" => (HartsFair => \A p \in Procs : state[p] = "RUNNABLE" ~> state[p] = "RUNNING")

(* Orphans do not stay zombies: init, which wait()s in a loop, reaps the       *)
(* children that exit() hands it.                                              *)
InitReaps ==
  part = "init" => (InitFair => \A q \in Few!Procs :
    part = "init" /\ Few!InitsZombie(q) ~> (part = "init" => Few!FreeSlot(q)))
=============================================================================
