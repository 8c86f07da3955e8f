------------------------------ MODULE Spinlock ------------------------------
(***************************************************************************)
(* Spin-locks and the interrupt state of the harts (kernel/spinlock.c), as *)
(* kernel threads use them while they are interrupted, give up the hart in *)
(* sched() and continue on another one (kernel/proc.c, kernel/trap.c).     *)
(*                                                                         *)
(* The agents are the threads and, on each hart, its scheduler loop, named *)
(* after the hart.  Thread t's p->lock is the lock t.  An agent takes any  *)
(* locks in the kernel's order: a shared lock, then one p->lock.           *)
(***************************************************************************)
EXTENDS Naturals, FiniteSets

CONSTANTS CPU,      \* harts
          Threads,  \* kernel threads
          Shared    \* the other spin-locks (tickslock, wait_lock, ...)

SpinAssumption ==
  /\ CPU \cap Threads = {} /\ CPU \cap Shared = {} /\ Threads \cap Shared = {}
  /\ 0 \notin CPU /\ Shared # {}

VARIABLES
  locked, lkcpu,       \* struct spinlock: locked, cpu (0 or a hart)
  noff, intena, sie,   \* struct cpu: noff, intena; SIE of sstatus
  cur,                 \* the agent a hart runs
  pc, lk, old,         \* an agent in acquire() or release(): label, lock, push_off()'s old
  frame,               \* <<>>, or what an interrupt of the agent has suspended
  saved,               \* a thread in sched(): its local intena
  fresh,               \* threads that have never run (forkret)
  held,                \* history: locks between acquire()'s return and release()'s call
  base                 \* history: the SIE an agent set or found when it held no lock

Locks == Shared \cup Threads
Agents == CPU \cup Threads
lockVars == <<locked, lkcpu, held>>
hartVars == <<noff, intena, sie>>
agentVars == <<frame, saved, fresh, cur, base>>
vars == <<lockVars, hartVars, pc, lk, old, agentVars>>

AnyLock == CHOOSE l \in Locks : TRUE

(* initlock() of every lock; each hart in its scheduler, interrupts on. *)
Init ==
  /\ locked = [l \in Locks |-> FALSE] /\ lkcpu = [l \in Locks |-> 0]
  /\ noff = [c \in CPU |-> 0] /\ intena = [c \in CPU |-> FALSE] /\ sie = [c \in CPU |-> TRUE]
  /\ cur = [c \in CPU |-> c]
  /\ pc = [a \in Agents |-> "run"] /\ lk = [a \in Agents |-> AnyLock]
  /\ old = [a \in Agents |-> FALSE] /\ frame = [a \in Agents |-> <<>>]
  /\ saved = [t \in Threads |-> FALSE] /\ fresh = Threads
  /\ held = [c \in CPU |-> {}]
  /\ base = [a \in Agents |-> a \in CPU]

At(c, l) == pc[cur[c]] = l
Goto(c, l) == pc' = [pc EXCEPT ![cur[c]] = l]

(* Faulty variant of Holding: the lock is held by any hart. *)
HoldingAny(c, l) == locked[l]

(* holding(): what hart c reads of the lock. *)
Holding(c, l) == locked[l] /\ lkcpu[l] = c

-----------------------------------------------------------------------------
(* acquire() begins: push_off() reads SIE.  An interrupt may follow. *)
Acquire(c, l) ==
  /\ At(c, "run")
  /\ held[c] = {} \/ (held[c] \subseteq Shared /\ l \in Threads)
  /\ old' = [old EXCEPT ![cur[c]] = sie[c]]
  /\ lk' = [lk EXCEPT ![cur[c]] = l]
  /\ Goto(c, "push")
  /\ UNCHANGED <<lockVars, hartVars, agentVars>>

(* push_off(): the outermost one records whether interrupts were on. *)
PushIntena(c) == intena' = IF noff[c] = 0 THEN [intena EXCEPT ![c] = old[cur[c]]] ELSE intena

(* Faulty variant of PushSie: interrupts stay as they are. *)
PushSieKeep(c) == UNCHANGED sie

(* intr_off(). *)
PushSie(c) == sie' = [sie EXCEPT ![c] = FALSE]

(* Faulty variant of PushCount: only the outermost push_off() is counted. *)
PushCountOuter(c) == noff' = [noff EXCEPT ![c] = 1]

(* mycpu()->noff += 1. *)
PushCount(c) == noff' = [noff EXCEPT ![c] = @ + 1]

(* push_off() turns interrupts off; acquire() panics on a lock the hart has. *)
PushOff(c) ==
  /\ At(c, "push")
  /\ PushSie(c) /\ PushIntena(c) /\ PushCount(c)
  /\ Goto(c, IF Holding(c, lk[cur[c]]) THEN "panic" ELSE "spin")
  /\ UNCHANGED <<lockVars, lk, old, agentVars>>

(* Faulty variant of Swap: test and set are not one instruction. *)
SwapRacy(c) == At(c, "spin")

(* The atomic swap returned 0. *)
Swap(c) == At(c, "spin") /\ ~locked[lk[cur[c]]]

TakeLock(c) ==
  /\ Swap(c)
  /\ locked' = [locked EXCEPT ![lk[cur[c]]] = TRUE]
  /\ Goto(c, "mark")
  /\ UNCHANGED <<lkcpu, held, hartVars, lk, old, agentVars>>

(* lk->cpu = mycpu(); acquire() returns. *)
MarkLock(c) ==
  /\ At(c, "mark")
  /\ lkcpu' = [lkcpu EXCEPT ![lk[cur[c]]] = c]
  /\ held' = [held EXCEPT ![c] = @ \cup {lk[cur[c]]}]
  /\ Goto(c, "run")
  /\ UNCHANGED <<locked, hartVars, lk, old, agentVars>>

(* release(): panic unless holding(); lk->cpu = 0. *)
Release(c, l) ==
  /\ At(c, "run") /\ l \in held[c]
  /\ lk' = [lk EXCEPT ![cur[c]] = l]
  /\ IF Holding(c, l)
     THEN lkcpu' = [lkcpu EXCEPT ![l] = 0] /\ Goto(c, "unlock")
     ELSE Goto(c, "panic") /\ UNCHANGED lkcpu
  /\ held' = [held EXCEPT ![c] = @ \ {l}]
  /\ UNCHANGED <<locked, hartVars, old, agentVars>>

(* __sync_lock_release(). *)
Unlock(c) ==
  /\ At(c, "unlock")
  /\ locked' = [locked EXCEPT ![lk[cur[c]]] = FALSE]
  /\ Goto(c, "pop")
  /\ UNCHANGED <<lkcpu, held, hartVars, lk, old, agentVars>>

(* pop_off(): the outermost one turns interrupts back on if they were on. *)
PopOff(c) ==
  /\ At(c, "pop")
  /\ IF sie[c] \/ noff[c] < 1 THEN Goto(c, "panic") /\ UNCHANGED <<noff, sie>>
     ELSE /\ noff' = [noff EXCEPT ![c] = @ - 1]
          /\ sie' = IF noff[c] = 1 /\ intena[c] THEN [sie EXCEPT ![c] = TRUE] ELSE sie
          /\ Goto(c, "run")
  /\ UNCHANGED <<lockVars, intena, lk, old, agentVars>>

-----------------------------------------------------------------------------
(* intr_on() and intr_off() of usertrap(), usertrapret() and scheduler(), by   *)
(* an agent with no lock and outside interrupt handlers.                       *)
SetIntr(c, on) ==
  /\ At(c, "run") /\ noff[c] = 0 /\ frame[cur[c]] = <<>>
  /\ cur[c] \in CPU => on
  /\ sie' = [sie EXCEPT ![c] = on]
  /\ base' = [base EXCEPT ![cur[c]] = on]
  /\ UNCHANGED <<lockVars, noff, intena, pc, lk, old, frame, saved, fresh, cur>>

(* An interrupt enters kerneltrap() on the stack of the current agent. *)
Interrupt(c) ==
  LET a == cur[c] IN
  /\ sie[c] /\ pc[a] # "panic"
  /\ sie' = [sie EXCEPT ![c] = FALSE]
  /\ frame' = [frame EXCEPT ![a] = <<pc[a], lk[a], old[a]>>]
  /\ base' = [base EXCEPT ![a] = FALSE]
  /\ Goto(c, "run")
  /\ UNCHANGED <<lockVars, noff, intena, lk, old, saved, fresh, cur>>

(* kerneltrap() returns: sret puts SIE back on, whichever hart it is now. *)
InterruptRet(c) ==
  LET a == cur[c] IN
  /\ At(c, "run") /\ frame[a] # <<>> /\ held[c] = {}
  /\ sie' = [sie EXCEPT ![c] = TRUE]
  /\ pc' = [pc EXCEPT ![a] = frame[a][1]]
  /\ lk' = [lk EXCEPT ![a] = frame[a][2]]
  /\ old' = [old EXCEPT ![a] = frame[a][3]]
  /\ frame' = [frame EXCEPT ![a] = <<>>]
  /\ base' = [base EXCEPT ![a] = TRUE]
  /\ UNCHANGED <<lockVars, noff, intena, saved, fresh, cur>>

(* sched(): the thread, with only its p->lock, leaves the hart to the          *)
(* scheduler, which goes on with the thread's lock and intena.                 *)
Sched(c) ==
  LET t == cur[c] IN
  /\ t \in Threads /\ At(c, "run") /\ held[c] = {t}
  /\ IF ~Holding(c, t) \/ noff[c] # 1 \/ sie[c]
     THEN Goto(c, "panic") /\ UNCHANGED <<saved, cur, base>>
     ELSE /\ saved' = [saved EXCEPT ![t] = intena[c]]
          /\ cur' = [cur EXCEPT ![c] = c]
          /\ base' = [base EXCEPT ![c] = intena[c]]
          /\ UNCHANGED pc
  /\ UNCHANGED <<lockVars, hartVars, lk, old, frame, fresh>>

(* Faulty variant of Restored: sched() leaves the hart's intena alone. *)
RestoredHart(c, t) == intena[c]

(* mycpu()->intena = intena, after swtch() has come back. *)
Restored(c, t) == saved[t]

(* scheduler(), with p->lock: swtch() to a thread that is not running; it      *)
(* continues in sched(), or in forkret() the first time.                       *)
Dispatch(c, t) ==
  /\ cur[c] = c /\ At(c, "run") /\ held[c] = {t} /\ frame[c] = <<>>
  /\ \A d \in CPU : cur[d] # t
  /\ cur' = [cur EXCEPT ![c] = t]
  /\ intena' = IF t \in fresh THEN intena ELSE [intena EXCEPT ![c] = Restored(c, t)]
  /\ base' = IF t \in fresh THEN [base EXCEPT ![t] = base[c]] ELSE base
  /\ fresh' = fresh \ {t}
  /\ UNCHANGED <<lockVars, noff, sie, pc, lk, old, frame, saved>>

Step(c) ==
  \/ \E l \in Locks : Acquire(c, l) \/ Release(c, l)
  \/ PushOff(c) \/ TakeLock(c) \/ MarkLock(c) \/ Unlock(c) \/ PopOff(c)
  \/ (\E on \in BOOLEAN : SetIntr(c, on))
  \/ Interrupt(c) \/ InterruptRet(c)
  \/ Sched(c) \/ \E t \in Threads : Dispatch(c, t)

Next == \E c \in CPU : Step(c)

Spec == Init /\ [][Next]_vars

-----------------------------------------------------------------------------
(* Locks the hart has taken or is about to give back, as noff counts them. *)
InFlight(c) == IF pc[cur[c]] \in {"spin", "mark", "unlock", "pop"} THEN 1 ELSE 0

(* Two harts are never both between acquire() and release() of a lock, though  *)
(* a lock passes from a thread to the scheduler of its hart and from the       *)
(* scheduler of one hart to a thread last seen on another.                     *)
MutualExclusion ==
  \A c, d \in CPU : c # d => held[c] \cap held[d] = {}

(* No interrupt is taken by a hart that holds, waits for or is giving back a   *)
(* spin-lock, so a handler never spins on a lock of the hart it interrupted.   *)
NoInterruptWhileHolding ==
  \A c \in CPU : held[c] # {} \/ InFlight(c) = 1 => ~sie[c]

(* With all its locks given back an agent finds interrupts as it last set or   *)
(* found them, also when it has slept and continues on another hart: sched()   *)
(* saves intena with the thread, and push_off() may itself be interrupted and  *)
(* moved between reading SIE and recording it.                                 *)
InterruptsRestored ==
  \A c \in CPU : noff[c] = 0 => sie[c] = base[cur[c]]

(* noff counts exactly the locks of the hart. *)
NoffCounts == \A c \in CPU : noff[c] = Cardinality(held[c]) + InFlight(c)

(* The panics of acquire(), release(), pop_off() and sched() are not reached,  *)
(* although holding() reads lk->locked and lk->cpu without a lock.             *)
NoPanic == \A a \in Agents : pc[a] # "panic"

-----------------------------------------------------------------------------
(* The state without dead locals: lk and old of an agent outside acquire() and *)
(* release(), saved of a running thread, intena of a hart with no lock.        *)
Live ==
  <<lockVars, noff, sie, cur, pc, frame, fresh, base,
    [a \in Agents |-> IF pc[a] = "run" THEN <<>> ELSE <<lk[a], pc[a] = "push" /\ old[a]>>],
    [t \in Threads |-> saved[t] /\ \A c \in CPU : cur[c] # t],
    [c \in CPU |-> noff[c] > 0 /\ intena[c]]>>
=============================================================================
