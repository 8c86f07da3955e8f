--------------------------- MODULE SpinlockProofs ---------------------------
(***************************************************************************)
(* Proofs about Spinlock: its invariant (module SpinlockInv) is inductive, *)
(* and acquire() and release() exclude and keep track of interrupts, for   *)
(* every set of harts, of threads and of locks.                            *)
(***************************************************************************)
EXTENDS SpinlockInv, Integers, FiniteSetTheorems, TLAPS

USE ZenonT(60) DEF lockVars, hartVars, agentVars, At, Goto, Swap, PushSie, PushIntena,
                   PushCount, Holding, Restored

(* The layers of the invariant, one by one. *)
LEMMA Layers ==
  ASSUME IInv
  PROVE  TypeOK /\ CurInv /\ OwnInv /\ NoffInv /\ BaseInv /\ NoPanic
BY DEF IInv

(* The agents of the harts, and their numbers of locks. *)
LEMMA OnHart ==
  ASSUME TypeOK, NoffInv, NEW c \in CPU
  PROVE  /\ cur[c] \in Agents /\ c \in Agents /\ lk[cur[c]] \in Locks
         /\ noff[c] \in Nat /\ Cardinality(held[c]) \in Nat
         /\ noff[c] = Cardinality(held[c]) + InFlight(c)
         /\ noff[c] = 0 <=> held[c] = {} /\ InFlight(c) = 0
<1>1. cur[c] \in Agents /\ c \in Agents /\ noff[c] \in Nat
  BY DEF TypeOK, Agents
<1>2. lk[cur[c]] \in Locks
  BY <1>1 DEF TypeOK
<1>3. IsFiniteSet(held[c]) /\ Cardinality(held[c]) \in Nat
  BY FS_CardinalityType DEF NoffInv
<1>4. Cardinality(held[c]) = 0 <=> held[c] = {}
  BY <1>3, FS_EmptySet
<1>5. noff[c] = Cardinality(held[c]) + InFlight(c)
  BY DEF NoffInv, NoffCounts
<1>6. InFlight(c) \in {0, 1}
  BY DEF InFlight
<1> QED  BY <1>1, <1>2, <1>3, <1>4, <1>5, <1>6, SMTT(30)

-----------------------------------------------------------------------------
(* The handlers without their panics: none is reached *)

(* push_off() and the test of holding(), without the panic of acquire(). *)
PushOK(c) ==
  /\ At(c, "push")
  /\ PushSie(c) /\ PushIntena(c) /\ PushCount(c) /\ Goto(c, "spin")
  /\ UNCHANGED <<lockVars, lk, old, agentVars>>

(* release(), without its panic. *)
ReleaseOK(c, l) ==
  /\ At(c, "run") /\ l \in held[c]
  /\ lk' = [lk EXCEPT ![cur[c]] = l]
  /\ lkcpu' = [lkcpu EXCEPT ![l] = 0] /\ Goto(c, "unlock")
  /\ held' = [held EXCEPT ![c] = @ \ {l}]
  /\ UNCHANGED <<locked, hartVars, old, agentVars>>

(* pop_off(), without its panics. *)
PopOK(c) ==
  /\ At(c, "pop") /\ noff[c] \in Nat \ {0} /\ ~sie[c]
  /\ noff' = [noff EXCEPT ![c] = noff[c] - 1]
  /\ sie' = [sie EXCEPT ![c] = noff[c] = 1 /\ intena[c]]
  /\ Goto(c, "run")
  /\ UNCHANGED <<lockVars, intena, lk, old, agentVars>>

(* sched(), without its panics. *)
SchedOK(c) ==
  /\ cur[c] \in Threads /\ At(c, "run") /\ held[c] = {cur[c]} /\ noff[c] = 1
  /\ saved' = [saved EXCEPT ![cur[c]] = intena[c]]
  /\ cur' = [cur EXCEPT ![c] = c] /\ base' = [base EXCEPT ![c] = intena[c]]
  /\ UNCHANGED <<lockVars, hartVars, pc, lk, old, frame, fresh>>

(* An interrupt of an agent with no locks, outside interrupt handlers, and     *)
(* outside acquire() and release() or before intr_off() in push_off().         *)
InterruptOK(c) ==
  /\ Interrupt(c) /\ noff[c] = 0 /\ held[c] = {} /\ pc[cur[c]] \in {"run", "push"}
  /\ base[cur[c]] /\ frame[cur[c]] = <<>>

Calm(c) ==
  \/ (\E l \in Locks : Acquire(c, l) \/ ReleaseOK(c, l))
  \/ PushOK(c) \/ TakeLock(c) \/ MarkLock(c) \/ Unlock(c) \/ PopOK(c)
  \/ (\E on \in BOOLEAN : SetIntr(c, on))
  \/ InterruptOK(c) \/ InterruptRet(c)
  \/ SchedOK(c) \/ \E t \in Threads : Dispatch(c, t)

(* acquire() of a lock the hart does not have: holding() says no. *)
LEMMA PushCalm ==
  ASSUME IInv, NEW c \in CPU, PushOff(c)
  PROVE  PushOK(c)
<1>1. lk[cur[c]] \in Locks /\ lk[cur[c]] \notin held[c]
  BY Layers, OnHart DEF PushOff, OwnInv
<1>2. ~Holding(c, lk[cur[c]])
  BY <1>1, Layers DEF OwnInv
<1> QED  BY <1>2 DEF PushOff, PushOK

(* A hart that holds a lock finds itself in lk->cpu. *)
LEMMA HeldHolding ==
  ASSUME IInv, NEW c \in CPU, NEW l \in held[c]
  PROVE  l \in Locks /\ Holding(c, l)
<1>1. l \in Locks
  BY Layers DEF TypeOK
<1>2. lkcpu[l] = c
  BY <1>1, Layers DEF OwnInv
<1>3. locked[l]
  BY <1>1, Layers DEF OwnInv, Own
<1> QED  BY <1>1, <1>2, <1>3

(* release() of a lock that the hart holds. *)
LEMMA ReleaseCalm ==
  ASSUME IInv, NEW c \in CPU, NEW l \in Locks, Release(c, l)
  PROVE  ReleaseOK(c, l)
BY HeldHolding DEF Release, ReleaseOK

(* pop_off() finds interrupts off and a count above 0. *)
LEMMA PopCalm ==
  ASSUME IInv, NEW c \in CPU, PopOff(c)
  PROVE  PopOK(c)
<1>1. InFlight(c) = 1
  BY DEF PopOff, InFlight
<1>2. noff[c] \in Nat /\ noff[c] >= 1
  BY <1>1, Layers, OnHart, SMTT(30)
<1>3. ~sie[c] /\ sie \in [CPU -> BOOLEAN] /\ intena[c] \in BOOLEAN
  BY <1>2, Layers, SMTT(30) DEF NoffInv, TypeOK
<1>4. ~(noff[c] < 1)
  BY <1>2, SMTT(30)
<1>5. sie' = IF noff[c] = 1 /\ intena[c] THEN [sie EXCEPT ![c] = TRUE] ELSE sie
  BY <1>3, <1>4 DEF PopOff
<1>6. sie' = [sie EXCEPT ![c] = noff[c] = 1 /\ intena[c]]
  BY <1>3, <1>5
<1> QED  BY <1>2, <1>3, <1>4, <1>6, SMTT(30) DEF PopOff, PopOK

(* sched() finds p->lock held, and no other lock. *)
LEMMA SchedCalm ==
  ASSUME IInv, NEW c \in CPU, Sched(c)
  PROVE  SchedOK(c)
<1>1. Holding(c, cur[c])
  BY HeldHolding DEF Sched
<1>2. InFlight(c) = 0
  BY DEF Sched, InFlight
<1>3. Cardinality(held[c]) = 1
  BY FS_Singleton DEF Sched
<1>4. noff[c] = 1
  BY <1>2, <1>3, Layers, OnHart, SMTT(30)
<1>5. ~sie[c]
  BY <1>4, Layers, SMTT(30) DEF NoffInv
<1> QED  BY <1>1, <1>4, <1>5 DEF Sched, SchedOK

(* Interrupts are on only when the hart has no lock and the agent is in no handler. *)
LEMMA InterruptCalm ==
  ASSUME IInv, NEW c \in CPU, Interrupt(c)
  PROVE  InterruptOK(c)
<1>1. noff[c] = 0
  BY Layers, OnHart, SMTT(30) DEF Interrupt, NoffInv
<1>2. held[c] = {} /\ InFlight(c) = 0
  BY <1>1, Layers, OnHart
<1>3. pc[cur[c]] \in {"run", "push"}
  BY <1>2, Layers, OnHart, SMTT(30) DEF Interrupt, InFlight, TypeOK, Labels
<1>4. base[cur[c]]
  BY <1>1, Layers DEF Interrupt, BaseInv, InterruptsRestored
<1>5. frame[cur[c]] = <<>>
  BY <1>4, Layers, OnHart DEF BaseInv
<1> QED  BY <1>1, <1>2, <1>3, <1>4, <1>5 DEF InterruptOK

(* So every step is one without a panic. *)
LEMMA Calmly ==
  ASSUME IInv, [Next]_vars
  PROVE  UNCHANGED vars \/ \E c \in CPU : Calm(c)
<1>1. ASSUME NEW c \in CPU, Step(c) PROVE Calm(c)
  BY <1>1, PushCalm, ReleaseCalm, PopCalm, SchedCalm, InterruptCalm DEF Step, Calm
<1> QED  BY <1>1 DEF Next

-----------------------------------------------------------------------------
(* Every step keeps every layer *)

(* The types; noff never drops below 0. *)
LEMMA TypeStep ==
  ASSUME SpinAssumption, IInv, [Next]_vars
  PROVE  TypeOK'
<1>1. CASE UNCHANGED vars
  BY <1>1, Layers DEF vars, TypeOK
<1>2. ASSUME NEW c \in CPU, Calm(c)
      PROVE  TypeOK'
  <2>1. ASSUME NEW l \in Locks, Acquire(c, l)
         PROVE  TypeOK'
    BY <2>1, Layers, OnHart DEF Acquire, TypeOK, Labels, Agents
  <2>2. ASSUME NEW l \in Locks, ReleaseOK(c, l)
         PROVE  TypeOK'
    BY <2>2, Layers, OnHart DEF ReleaseOK, TypeOK, Labels, Agents
  <2>3. CASE PushOK(c)
    BY <2>3, Layers, OnHart, SMTT(30) DEF PushOK, TypeOK, Labels, Agents
  <2>4. CASE TakeLock(c)
    BY <2>4, Layers, OnHart DEF TakeLock, TypeOK, Labels, Agents
  <2>5. CASE MarkLock(c)
    BY <2>5, Layers, OnHart, SMTT(30) DEF MarkLock, TypeOK, Labels, Agents
  <2>6. CASE Unlock(c)
    BY <2>6, Layers, OnHart DEF Unlock, TypeOK, Labels, Agents
  <2>7. CASE PopOK(c)
    <3>0. noff[c] \in Nat \ {0} /\ noff' = [noff EXCEPT ![c] = noff[c] - 1]
      BY <2>7 DEF PopOK
    <3>1. noff' \in [CPU -> Nat]
      BY <3>0, Layers, SMTT(30) DEF TypeOK
    <3>2. sie' \in [CPU -> BOOLEAN]
      BY <2>7, Layers DEF PopOK, TypeOK
    <3>3. pc' \in [Agents -> Labels]
      BY <2>7, Layers, OnHart DEF PopOK, TypeOK, Labels
    <3> QED  BY <2>7, <3>1, <3>2, <3>3, Layers DEF PopOK, TypeOK
  <2>8. ASSUME NEW on \in BOOLEAN, SetIntr(c, on)
         PROVE  TypeOK'
    BY <2>8, Layers, OnHart DEF SetIntr, TypeOK, Labels, Agents
  <2>9. CASE InterruptOK(c)
    BY <2>9, Layers, OnHart DEF InterruptOK, TypeOK, Labels, Agents, Interrupt, Frames
  <2>10. CASE InterruptRet(c)
    BY <2>10, Layers, OnHart DEF InterruptRet, TypeOK, Labels, Agents, Frames
  <2>11. CASE SchedOK(c)
    BY <2>11, Layers, OnHart DEF SchedOK, TypeOK, Labels, Agents
  <2>12. ASSUME NEW t \in Threads, Dispatch(c, t)
          PROVE  TypeOK'
    BY <2>12, Layers, OnHart DEF Dispatch, TypeOK, Labels, Agents
  <2> QED
    BY <1>2, <2>1, <2>2, <2>3, <2>4, <2>5, <2>6, <2>7, <2>8, <2>9, <2>10, <2>11, <2>12
       DEF Calm
<1> QED  BY <1>1, <1>2, Calmly

(* No panic is reached. *)
LEMMA NoPanicStep ==
  ASSUME SpinAssumption, IInv, [Next]_vars
  PROVE  NoPanic'
<1>1. CASE UNCHANGED vars
  BY <1>1, Layers DEF vars, NoPanic
<1>2. ASSUME NEW c \in CPU, Calm(c)
      PROVE  NoPanic'
  <2>1. ASSUME NEW l \in Locks, Acquire(c, l)
         PROVE  NoPanic'
    BY <2>1, Layers, OnHart DEF Acquire, TypeOK, NoPanic
  <2>2. ASSUME NEW l \in Locks, ReleaseOK(c, l)
         PROVE  NoPanic'
    BY <2>2, Layers, OnHart DEF ReleaseOK, TypeOK, NoPanic
  <2>3. CASE PushOK(c)
    BY <2>3, Layers, OnHart DEF PushOK, TypeOK, NoPanic
  <2>4. CASE TakeLock(c)
    BY <2>4, Layers, OnHart DEF TakeLock, TypeOK, NoPanic
  <2>5. CASE MarkLock(c)
    BY <2>5, Layers, OnHart DEF MarkLock, TypeOK, NoPanic
  <2>6. CASE Unlock(c)
    BY <2>6, Layers, OnHart DEF Unlock, TypeOK, NoPanic
  <2>7. CASE PopOK(c)
    BY <2>7, Layers, OnHart DEF PopOK, TypeOK, NoPanic
  <2>8. ASSUME NEW on \in BOOLEAN, SetIntr(c, on)
         PROVE  NoPanic'
    BY <2>8, Layers, OnHart DEF SetIntr, TypeOK, NoPanic
  <2>9. CASE InterruptOK(c)
    BY <2>9, Layers, OnHart DEF InterruptOK, TypeOK, NoPanic, Interrupt
  <2>10. CASE InterruptRet(c)
    BY <2>10, Layers, OnHart DEF InterruptRet, TypeOK, NoPanic, Frames
  <2>11. CASE SchedOK(c)
    BY <2>11, Layers, OnHart DEF SchedOK, TypeOK, NoPanic
  <2>12. ASSUME NEW t \in Threads, Dispatch(c, t)
          PROVE  NoPanic'
    BY <2>12, Layers, OnHart DEF Dispatch, TypeOK, NoPanic
  <2> QED
    BY <1>2, <2>1, <2>2, <2>3, <2>4, <2>5, <2>6, <2>7, <2>8, <2>9, <2>10, <2>11, <2>12
       DEF Calm
<1> QED  BY <1>1, <1>2, Calmly

(* swtch() moves agents between harts, one hart each. *)
LEMMA CurStep ==
  ASSUME SpinAssumption, IInv, [Next]_vars
  PROVE  CurInv'
<1>1. CASE UNCHANGED vars
  BY <1>1, Layers DEF vars, CurInv, Away
<1>2. ASSUME NEW c \in CPU, Calm(c)
      PROVE  CurInv'
  <2>1. ASSUME NEW l \in Locks, Acquire(c, l)
         PROVE  CurInv'
    BY <2>1, Layers, OnHart DEF Acquire, CurInv, TypeOK, Away, Agents, SpinAssumption
  <2>2. ASSUME NEW l \in Locks, ReleaseOK(c, l)
         PROVE  CurInv'
    BY <2>2, Layers, OnHart DEF ReleaseOK, CurInv, TypeOK, Away, Agents, SpinAssumption
  <2>3. CASE PushOK(c)
    BY <2>3, Layers, OnHart DEF PushOK, CurInv, TypeOK, Away, Agents, SpinAssumption
  <2>4. CASE TakeLock(c)
    BY <2>4, Layers, OnHart DEF TakeLock, CurInv, TypeOK, Away, Agents, SpinAssumption
  <2>5. CASE MarkLock(c)
    BY <2>5, Layers, OnHart DEF MarkLock, CurInv, TypeOK, Away, Agents, SpinAssumption
  <2>6. CASE Unlock(c)
    BY <2>6, Layers, OnHart DEF Unlock, CurInv, TypeOK, Away, Agents, SpinAssumption
  <2>7. CASE PopOK(c)
    BY <2>7, Layers, OnHart DEF PopOK, CurInv, TypeOK, Away, Agents, SpinAssumption
  <2>8. ASSUME NEW on \in BOOLEAN, SetIntr(c, on)
         PROVE  CurInv'
    BY <2>8, Layers, OnHart DEF SetIntr, CurInv, TypeOK, Away, Agents, SpinAssumption
  <2>9. CASE InterruptOK(c)
    BY <2>9, Layers, OnHart, SMTT(30)
       DEF InterruptOK, CurInv, TypeOK, Away, Agents, SpinAssumption, Interrupt
  <2>10. CASE InterruptRet(c)
    BY <2>10, Layers, OnHart DEF InterruptRet, CurInv, TypeOK, Away, Agents, SpinAssumption
  <2>11. CASE SchedOK(c)
    BY <2>11, Layers, OnHart, SMTT(30) DEF SchedOK, CurInv, TypeOK, Away, Agents, SpinAssumption
  <2>12. ASSUME NEW t \in Threads, Dispatch(c, t)
          PROVE  CurInv'
    BY <2>12, Layers, OnHart, SMTT(30) DEF Dispatch, CurInv, TypeOK, Away, Agents, SpinAssumption
  <2> QED
    BY <1>2, <2>1, <2>2, <2>3, <2>4, <2>5, <2>6, <2>7, <2>8, <2>9, <2>10, <2>11, <2>12
       DEF Calm
<1> QED  BY <1>1, <1>2, Calmly

(* A step of hart c leaves the agents, locks and interrupt state of the others alone. *)
Untouched(d) ==
  /\ cur'[d] = cur[d] /\ pc'[cur[d]] = pc[cur[d]] /\ lk'[cur[d]] = lk[cur[d]]
  /\ old'[cur[d]] = old[cur[d]] /\ base'[cur[d]] = base[cur[d]]
  /\ held'[d] = held[d] /\ noff'[d] = noff[d] /\ intena'[d] = intena[d] /\ sie'[d] = sie[d]

(* Harts run different agents, so that steps of one do not touch the others. *)
LEMMA Others ==
  ASSUME SpinAssumption, IInv, NEW c \in CPU, Calm(c), NEW d \in CPU, d # c
  PROVE  Untouched(d)
<1>0. cur[d] \in Agents /\ cur[d] # cur[c] /\ cur[d] # c
  BY Layers, OnHart DEF CurInv, SpinAssumption
<1>1. ASSUME NEW l \in Locks, Acquire(c, l)
       PROVE  Untouched(d)
  BY <1>1, <1>0, Layers, OnHart DEF Acquire, TypeOK, CurInv, Untouched, Agents, SpinAssumption
<1>2. ASSUME NEW l \in Locks, ReleaseOK(c, l)
       PROVE  Untouched(d)
  BY <1>2, <1>0, Layers, OnHart, SMTT(30)
     DEF ReleaseOK, TypeOK, CurInv, Untouched, Agents, SpinAssumption
<1>3. CASE PushOK(c)
  BY <1>3, <1>0, Layers, OnHart, SMTT(30)
     DEF PushOK, TypeOK, CurInv, Untouched, Agents, SpinAssumption
<1>4. CASE TakeLock(c)
  BY <1>4, <1>0, Layers, OnHart DEF TakeLock, TypeOK, CurInv, Untouched, Agents, SpinAssumption
<1>5. CASE MarkLock(c)
  BY <1>5, <1>0, Layers, OnHart, SMTT(30)
     DEF MarkLock, TypeOK, CurInv, Untouched, Agents, SpinAssumption
<1>6. CASE Unlock(c)
  BY <1>6, <1>0, Layers, OnHart DEF Unlock, TypeOK, CurInv, Untouched, Agents, SpinAssumption
<1>7. CASE PopOK(c)
  BY <1>7, <1>0, Layers, OnHart, SMTT(30)
     DEF PopOK, TypeOK, CurInv, Untouched, Agents, SpinAssumption
<1>8. ASSUME NEW on \in BOOLEAN, SetIntr(c, on)
       PROVE  Untouched(d)
  BY <1>8, <1>0, Layers, OnHart, SMTT(30)
     DEF SetIntr, TypeOK, CurInv, Untouched, Agents, SpinAssumption
<1>9. CASE InterruptOK(c)
  BY <1>9, <1>0, Layers, OnHart DEF InterruptOK, TypeOK, CurInv, Untouched, Agents, SpinAssumption, Interrupt
<1>10. CASE InterruptRet(c)
  BY <1>10, <1>0, Layers, OnHart, SMTT(30)
     DEF InterruptRet, TypeOK, CurInv, Untouched, Agents, SpinAssumption
<1>11. CASE SchedOK(c)
  BY <1>11, <1>0, Layers, OnHart, SMTT(30)
     DEF SchedOK, TypeOK, CurInv, Untouched, Agents, SpinAssumption
<1>12. ASSUME NEW t \in Threads, Dispatch(c, t)
        PROVE  Untouched(d)
  BY <1>12, <1>0, Layers, OnHart, SMTT(30)
     DEF Dispatch, TypeOK, CurInv, Untouched, Agents, SpinAssumption
<1> QED
  BY <1>1, <1>2, <1>3, <1>4, <1>5, <1>6, <1>7, <1>8, <1>9, <1>10, <1>11, <1>12
     DEF Calm

(* The locks of a hart stay its own while it does something else. *)
LEMMA OwnOthers ==
  ASSUME TypeOK, OwnInv, NEW d \in CPU, Untouched(d)
  PROVE  /\ Own(d)' = Own(d) /\ held'[d] = held[d]
         /\ pc'[cur'[d]] \in {"push", "spin", "mark", "unlock"} => lk'[cur'[d]] \notin held'[d]
BY SMTT(30) DEF Untouched, Own, OwnInv

(* Hart c does something that moves no lock. *)
LEMMA OwnSame ==
  ASSUME SpinAssumption, IInv, NEW c \in CPU, Calm(c), UNCHANGED <<locked, lkcpu, held>>,
         Own(c)' = Own(c),
         pc'[cur'[c]] \in {"push", "spin", "mark", "unlock"} => lk'[cur'[c]] \notin held'[c]
  PROVE  OwnInv'
<1>1. \A d \in CPU : /\ Own(d)' = Own(d)
                     /\ pc'[cur'[d]] \in {"push", "spin", "mark", "unlock"} => lk'[cur'[d]] \notin held'[d]
  BY Layers, Others, OwnOthers
<1> QED  BY <1>1, Layers, SMTT(30) DEF OwnInv

(* A lock has one hart from the swap in acquire() to the store in release(). *)
LEMMA OwnStep ==
  ASSUME SpinAssumption, IInv, [Next]_vars
  PROVE  OwnInv'
<1>1. CASE UNCHANGED vars
  BY <1>1, Layers DEF vars, OwnInv, Own
<1>2. ASSUME NEW c \in CPU, Calm(c)
      PROVE  OwnInv'
  <2>1. ASSUME NEW l \in Locks, Acquire(c, l)
         PROVE  OwnInv'
    <3>1. UNCHANGED <<locked, lkcpu, held>>
      BY <2>1 DEF Acquire
    <3>2. Own(c)' = Own(c)
      BY <2>1, Layers, OnHart DEF Acquire, TypeOK, Own, SpinAssumption
    <3>3. pc'[cur'[c]] \in {"push", "spin", "mark", "unlock"} => lk'[cur'[c]] \notin held'[c]
      BY <2>1, Layers, OnHart, SMTT(30) DEF Acquire, TypeOK, OwnInv, SpinAssumption
    <3> QED  BY <1>2, <3>1, <3>2, <3>3, OwnSame
  <2>2. ASSUME NEW l \in Locks, ReleaseOK(c, l)
         PROVE  OwnInv'
    <3>1. \A d \in CPU : d # c => /\ Own(d)' = Own(d) /\ held'[d] = held[d]
                                  /\ pc'[cur'[d]] \in {"push", "spin", "mark", "unlock"} => lk'[cur'[d]] \notin held'[d]
      BY <1>2, Layers, Others, OwnOthers
    <3>2. lkcpu' = [lkcpu EXCEPT ![l] = 0] /\ held' = [held EXCEPT ![c] = @ \ {l}] /\ UNCHANGED locked /\ l \in held[c]
      BY <2>2 DEF ReleaseOK
    <3>3. /\ Own(c)' = Own(c) /\ held'[c] = held[c] \ {l} /\ lk'[cur'[c]] = l
      BY <2>2, <3>2, Layers, OnHart, SMTT(30) DEF ReleaseOK, TypeOK, Own
    <3>4. \A d \in CPU : d # c => l \notin held[d]
      BY <3>2, Layers DEF OwnInv, Own
    <3>5. lkcpu'[l] = 0 /\ 0 \notin CPU /\ \A m \in Locks : m # l => lkcpu'[m] = lkcpu[m]
      BY <3>2, Layers DEF TypeOK, SpinAssumption
    <3>6. \A d, e \in CPU : d # e => Own(d)' \cap Own(e)' = {}
      BY <3>1, <3>3, <3>4, Layers, SMTT(30) DEF OwnInv
    <3>7. \A m \in Locks : locked'[m] <=> \E d \in CPU : m \in Own(d)'
      BY <3>1, <3>2, <3>3, <3>4, <3>5, Layers, SMTT(30) DEF OwnInv
    <3>8. \A m \in Locks, d \in CPU : lkcpu'[m] = d <=> m \in held'[d]
      BY <3>1, <3>2, <3>3, <3>4, <3>5, Layers, SMTT(30) DEF OwnInv
    <3>9. \A d \in CPU : pc'[cur'[d]] \in {"push", "spin", "mark", "unlock"} => lk'[cur'[d]] \notin held'[d]
      BY <3>1, <3>3
    <3> QED  BY <3>6, <3>7, <3>8, <3>9 DEF OwnInv
  <2>3. CASE PushOK(c)
    <3>1. UNCHANGED <<locked, lkcpu, held>>
      BY <2>3 DEF PushOK
    <3>2. Own(c)' = Own(c)
      BY <2>3, Layers, OnHart DEF PushOK, TypeOK, Own
    <3>3. pc'[cur'[c]] \in {"push", "spin", "mark", "unlock"} => lk'[cur'[c]] \notin held'[c]
      BY <2>3, Layers, OnHart DEF PushOK, TypeOK, OwnInv
    <3> QED  BY <1>2, <3>1, <3>2, <3>3, OwnSame
  <2>4. CASE TakeLock(c)
    <3>0. PICK l \in Locks : l = lk[cur[c]]
      BY Layers, OnHart
    <3>1. \A d \in CPU : d # c => /\ Own(d)' = Own(d) /\ held'[d] = held[d]
                                  /\ pc'[cur'[d]] \in {"push", "spin", "mark", "unlock"} => lk'[cur'[d]] \notin held'[d]
      BY <1>2, Layers, Others, OwnOthers
    <3>2. ~locked[l] /\ locked' = [locked EXCEPT ![l] = TRUE] /\ UNCHANGED <<held, lkcpu>>
      BY <2>4, <3>0 DEF TakeLock
    <3>3. Own(c)' = Own(c) \cup {l} /\ (pc'[cur'[c]] \in {"push", "spin", "mark", "unlock"} => lk'[cur'[c]] \notin held'[c])
      BY <2>4, <3>0, Layers, OnHart, SMTT(30) DEF TakeLock, TypeOK, Own, OwnInv
    <3>4. \A d \in CPU : l \notin Own(d)
      BY <3>2, Layers DEF OwnInv
    <3>5. \A m \in Locks : locked'[m] <=> locked[m] \/ m = l
      BY <3>2, Layers DEF TypeOK
    <3>6. \A d, e \in CPU : d # e => Own(d)' \cap Own(e)' = {}
      BY <3>1, <3>3, <3>4, Layers, SMTT(30) DEF OwnInv
    <3>7. \A m \in Locks : locked'[m] <=> \E d \in CPU : m \in Own(d)'
      BY <3>1, <3>2, <3>3, <3>4, <3>5, Layers, SMTT(30) DEF OwnInv
    <3>8. \A m \in Locks, d \in CPU : lkcpu'[m] = d <=> m \in held'[d]
      BY <3>1, <3>2, <3>3, <3>4, <3>5, Layers DEF OwnInv
    <3>9. \A d \in CPU : pc'[cur'[d]] \in {"push", "spin", "mark", "unlock"} => lk'[cur'[d]] \notin held'[d]
      BY <3>1, <3>3
    <3> QED  BY <3>6, <3>7, <3>8, <3>9 DEF OwnInv
  <2>5. CASE MarkLock(c)
    <3>0. PICK l \in Locks : l = lk[cur[c]]
      BY Layers, OnHart
    <3>1. \A d \in CPU : d # c => /\ Own(d)' = Own(d) /\ held'[d] = held[d]
                                  /\ pc'[cur'[d]] \in {"push", "spin", "mark", "unlock"} => lk'[cur'[d]] \notin held'[d]
      BY <1>2, Layers, Others, OwnOthers
    <3>2. lkcpu' = [lkcpu EXCEPT ![l] = c] /\ held' = [held EXCEPT ![c] = @ \cup {l}] /\ UNCHANGED locked
      BY <2>5, <3>0 DEF MarkLock
    <3>3. /\ Own(c)' = Own(c) /\ l \in Own(c) /\ held'[c] = held[c] \cup {l}
          /\ pc'[cur'[c]] = "run"
      BY <2>5, <3>0, <3>2, Layers, OnHart, SMTT(30) DEF MarkLock, TypeOK, Own
    <3>4. \A d \in CPU : d # c => l \notin held[d]
      BY <3>3, Layers DEF OwnInv, Own
    <3>5. lkcpu'[l] = c /\ \A m \in Locks : m # l => lkcpu'[m] = lkcpu[m]
      BY <3>2, Layers DEF TypeOK
    <3>6. \A d, e \in CPU : d # e => Own(d)' \cap Own(e)' = {}
      BY <3>1, <3>3, <3>4, Layers, SMTT(30) DEF OwnInv
    <3>7. \A m \in Locks : locked'[m] <=> \E d \in CPU : m \in Own(d)'
      BY <3>1, <3>2, <3>3, <3>4, <3>5, Layers, SMTT(30) DEF OwnInv
    <3>8. \A m \in Locks, d \in CPU : lkcpu'[m] = d <=> m \in held'[d]
      BY <3>1, <3>2, <3>3, <3>4, <3>5, Layers, SMTT(30) DEF OwnInv
    <3>9. \A d \in CPU : pc'[cur'[d]] \in {"push", "spin", "mark", "unlock"} => lk'[cur'[d]] \notin held'[d]
      BY <3>1, <3>3
    <3> QED  BY <3>6, <3>7, <3>8, <3>9 DEF OwnInv
  <2>6. CASE Unlock(c)
    <3>0. PICK l \in Locks : l = lk[cur[c]]
      BY Layers, OnHart
    <3>1. \A d \in CPU : d # c => /\ Own(d)' = Own(d) /\ held'[d] = held[d]
                                  /\ pc'[cur'[d]] \in {"push", "spin", "mark", "unlock"} => lk'[cur'[d]] \notin held'[d]
      BY <1>2, Layers, Others, OwnOthers
    <3>2. locked' = [locked EXCEPT ![l] = FALSE] /\ UNCHANGED <<lkcpu, held>>
      BY <2>6, <3>0 DEF Unlock
    <3>3. l \in Own(c) /\ Own(c)' = Own(c) \ {l} /\ pc'[cur'[c]] = "pop"
      BY <2>6, <3>0, Layers, OnHart, SMTT(30) DEF Unlock, TypeOK, Own, OwnInv
    <3>4. \A d \in CPU : d # c => l \notin Own(d)
      BY <3>3, Layers DEF OwnInv
    <3>5. \A m \in Locks : locked'[m] <=> locked[m] /\ m # l
      BY <3>2, Layers DEF TypeOK
    <3>6. \A d, e \in CPU : d # e => Own(d)' \cap Own(e)' = {}
      BY <3>1, <3>3, <3>4, Layers, SMTT(30) DEF OwnInv
    <3>7. \A m \in Locks : locked'[m] <=> \E d \in CPU : m \in Own(d)'
      BY <3>1, <3>2, <3>3, <3>4, <3>5, Layers, SMTT(30) DEF OwnInv
    <3>8. \A m \in Locks, d \in CPU : lkcpu'[m] = d <=> m \in held'[d]
      BY <3>1, <3>2, <3>3, <3>4, <3>5, Layers DEF OwnInv
    <3>9. \A d \in CPU : pc'[cur'[d]] \in {"push", "spin", "mark", "unlock"} => lk'[cur'[d]] \notin held'[d]
      BY <3>1, <3>3
    <3> QED  BY <3>6, <3>7, <3>8, <3>9 DEF OwnInv
  <2>7. CASE PopOK(c)
    <3>1. UNCHANGED <<locked, lkcpu, held>>
      BY <2>7 DEF PopOK
    <3>2. Own(c)' = Own(c)
      BY <2>7, Layers, OnHart DEF PopOK, TypeOK, Own
    <3>3. pc'[cur'[c]] \in {"push", "spin", "mark", "unlock"} => lk'[cur'[c]] \notin held'[c]
      BY <2>7, Layers, OnHart DEF PopOK, TypeOK, OwnInv
    <3> QED  BY <1>2, <3>1, <3>2, <3>3, OwnSame
  <2>8. ASSUME NEW on \in BOOLEAN, SetIntr(c, on)
         PROVE  OwnInv'
    <3>1. UNCHANGED <<locked, lkcpu, held>>
      BY <2>8 DEF SetIntr
    <3>2. Own(c)' = Own(c)
      BY <2>8, Layers, OnHart DEF SetIntr, TypeOK, Own
    <3>3. pc'[cur'[c]] \in {"push", "spin", "mark", "unlock"} => lk'[cur'[c]] \notin held'[c]
      BY <2>8, Layers, OnHart DEF SetIntr, TypeOK, OwnInv
    <3> QED  BY <1>2, <3>1, <3>2, <3>3, OwnSame
  <2>9. CASE InterruptOK(c)
    <3>1. UNCHANGED <<locked, lkcpu, held>>
      BY <2>9 DEF InterruptOK, Interrupt
    <3>2. Own(c)' = Own(c)
      BY <2>9, Layers, OnHart DEF InterruptOK, TypeOK, Own, Interrupt
    <3>3. pc'[cur'[c]] \in {"push", "spin", "mark", "unlock"} => lk'[cur'[c]] \notin held'[c]
      BY <2>9, Layers, OnHart DEF InterruptOK, TypeOK, OwnInv, Interrupt
    <3> QED  BY <1>2, <3>1, <3>2, <3>3, OwnSame
  <2>10. CASE InterruptRet(c)
    <3>1. UNCHANGED <<locked, lkcpu, held>>
      BY <2>10 DEF InterruptRet
    <3>2. Own(c)' = Own(c)
      BY <2>10, Layers, OnHart DEF InterruptRet, TypeOK, Own, Frames
    <3>3. pc'[cur'[c]] \in {"push", "spin", "mark", "unlock"} => lk'[cur'[c]] \notin held'[c]
      BY <2>10, Layers, OnHart DEF InterruptRet, TypeOK, OwnInv, Frames
    <3> QED  BY <1>2, <3>1, <3>2, <3>3, OwnSame
  <2>11. CASE SchedOK(c)
    <3>1. UNCHANGED <<locked, lkcpu, held>>
      BY <2>11 DEF SchedOK
    <3>2. Own(c)' = Own(c)
      BY <2>11, Layers, OnHart
         DEF SchedOK, TypeOK, Own, CurInv, Away, Agents, SpinAssumption
    <3>3. pc'[cur'[c]] \in {"push", "spin", "mark", "unlock"} => lk'[cur'[c]] \notin held'[c]
      BY <2>11, Layers, OnHart, SMTT(30)
         DEF SchedOK, TypeOK, OwnInv, CurInv, Away, Agents, SpinAssumption
    <3> QED  BY <1>2, <3>1, <3>2, <3>3, OwnSame
  <2>12. ASSUME NEW t \in Threads, Dispatch(c, t)
          PROVE  OwnInv'
    <3>1. UNCHANGED <<locked, lkcpu, held>>
      BY <2>12 DEF Dispatch
    <3>2. Own(c)' = Own(c)
      BY <2>12, Layers, OnHart DEF Dispatch, TypeOK, Own, CurInv, Away, Agents
    <3>3. pc'[cur'[c]] \in {"push", "spin", "mark", "unlock"} => lk'[cur'[c]] \notin held'[c]
      BY <2>12, Layers, OnHart, SMTT(30) DEF Dispatch, TypeOK, OwnInv, CurInv, Away, Agents
    <3> QED  BY <1>2, <3>1, <3>2, <3>3, OwnSame
  <2> QED
    BY <1>2, <2>1, <2>2, <2>3, <2>4, <2>5, <2>6, <2>7, <2>8, <2>9, <2>10, <2>11, <2>12
       DEF Calm
<1> QED  BY <1>1, <1>2, Calmly

(* The numbers of locks of the other harts stay right. *)
LEMMA NoffOthers ==
  ASSUME SpinAssumption, IInv, NEW c \in CPU, Calm(c),
         noff'[c] = Cardinality(held'[c]) + InFlight(c)', IsFiniteSet(held'[c]),
         noff'[c] > 0 => ~sie'[c]
  PROVE  NoffInv'
<1>1. \A d \in CPU : d # c => /\ noff'[d] = Cardinality(held'[d]) + InFlight(d)' /\ IsFiniteSet(held'[d])
                              /\ (noff'[d] > 0 => ~sie'[d])
  BY Layers, Others, SMTT(30) DEF Untouched, NoffInv, NoffCounts, InFlight
<1> QED  BY <1>1 DEF NoffInv, NoffCounts

(* acquire() adds one lock to the set of a hart. *)
LEMMA OneMore ==
  ASSUME NEW S, IsFiniteSet(S), NEW x, x \notin S, NEW T, T = S \cup {x}
  PROVE  IsFiniteSet(T) /\ Cardinality(S) \in Nat /\ Cardinality(T) = Cardinality(S) + 1
BY FS_AddElement, FS_CardinalityType

(* release() takes one lock from the set of a hart. *)
LEMMA OneLess ==
  ASSUME NEW S, IsFiniteSet(S), NEW x, x \in S, NEW T, T = S \ {x}
  PROVE  IsFiniteSet(T) /\ Cardinality(T) \in Nat /\ Cardinality(S) = Cardinality(T) + 1
<1>1. IsFiniteSet(T) /\ x \notin T /\ S = T \cup {x}
  BY FS_RemoveElement
<1> QED  BY <1>1, OneMore

(* push_off() and pop_off() count the locks, and interrupts stay off meanwhile. *)
LEMMA NoffStep ==
  ASSUME SpinAssumption, IInv, [Next]_vars
  PROVE  NoffInv'
<1>1. CASE UNCHANGED vars
  BY <1>1, Layers DEF vars, NoffInv, NoffCounts, InFlight
<1>2. ASSUME NEW c \in CPU, Calm(c)
      PROVE  NoffInv'
  <2>1. ASSUME NEW l \in Locks, Acquire(c, l)
         PROVE  NoffInv'
    <3>1. UNCHANGED held /\ noff'[c] = noff[c] /\ InFlight(c)' = InFlight(c)
      BY <2>1, Layers, OnHart DEF Acquire, TypeOK, InFlight
    <3>2. noff'[c] > 0 => ~sie'[c]
      BY <2>1, <3>1, Layers, OnHart DEF Acquire, TypeOK, NoffInv
    <3> QED  BY <1>2, <3>1, <3>2, Layers, NoffOthers DEF NoffInv, NoffCounts
  <2>2. ASSUME NEW l \in Locks, ReleaseOK(c, l)
         PROVE  NoffInv'
    <3>2. held'[c] = held[c] \ {l} /\ l \in held[c] /\ UNCHANGED <<noff, sie>>
      BY <2>2, Layers, OnHart DEF ReleaseOK, TypeOK
    <3>3. InFlight(c) = 0 /\ InFlight(c)' = 1
      BY <2>2, Layers, OnHart DEF ReleaseOK, TypeOK, InFlight
    <3>4. IsFiniteSet(held'[c]) /\ Cardinality(held[c]) = Cardinality(held'[c]) + 1
      BY <3>2, Layers, OneLess DEF NoffInv
    <3>5. noff'[c] = Cardinality(held'[c]) + InFlight(c)' /\ (noff'[c] > 0 => ~sie'[c])
      BY <3>2, <3>3, <3>4, Layers, OnHart, SMTT(30) DEF NoffInv
    <3> QED  BY <1>2, <3>4, <3>5, NoffOthers
  <2>3. CASE PushOK(c)
    <3>1. UNCHANGED held /\ noff'[c] = noff[c] + 1 /\ InFlight(c) = 0 /\ InFlight(c)' = 1 /\ ~sie'[c]
      BY <2>3, Layers, OnHart DEF PushOK, TypeOK, InFlight
    <3> QED  BY <1>2, <3>1, Layers, OnHart, NoffOthers, SMTT(30) DEF NoffInv
  <2>4. CASE TakeLock(c)
    <3>1. UNCHANGED held /\ noff'[c] = noff[c] /\ InFlight(c)' = InFlight(c)
      BY <2>4, Layers, OnHart DEF TakeLock, TypeOK, InFlight
    <3>2. noff'[c] > 0 => ~sie'[c]
      BY <2>4, <3>1, Layers, OnHart DEF TakeLock, TypeOK, NoffInv
    <3> QED  BY <1>2, <3>1, <3>2, Layers, NoffOthers DEF NoffInv, NoffCounts
  <2>5. CASE MarkLock(c)
    <3>1. PICK l \in Locks : l = lk[cur[c]]
      BY Layers, OnHart
    <3>2. held'[c] = held[c] \cup {l} /\ l \notin held[c] /\ UNCHANGED <<noff, sie>>
      BY <2>5, <3>1, Layers, OnHart, SMTT(30) DEF MarkLock, TypeOK, OwnInv
    <3>3. InFlight(c) = 1 /\ InFlight(c)' = 0
      BY <2>5, Layers, OnHart DEF MarkLock, TypeOK, InFlight
    <3>4. IsFiniteSet(held'[c]) /\ Cardinality(held'[c]) = Cardinality(held[c]) + 1
      BY <3>2, Layers, OneMore DEF NoffInv
    <3>5. noff'[c] = Cardinality(held'[c]) + InFlight(c)' /\ (noff'[c] > 0 => ~sie'[c])
      BY <3>2, <3>3, <3>4, Layers, OnHart, SMTT(30) DEF NoffInv
    <3> QED  BY <1>2, <3>4, <3>5, NoffOthers
  <2>6. CASE Unlock(c)
    <3>1. UNCHANGED held /\ noff'[c] = noff[c] /\ InFlight(c)' = InFlight(c)
      BY <2>6, Layers, OnHart DEF Unlock, TypeOK, InFlight
    <3>2. noff'[c] > 0 => ~sie'[c]
      BY <2>6, <3>1, Layers, OnHart DEF Unlock, TypeOK, NoffInv
    <3> QED  BY <1>2, <3>1, <3>2, Layers, NoffOthers DEF NoffInv, NoffCounts
  <2>7. CASE PopOK(c)
    <3>1. /\ UNCHANGED held /\ noff'[c] = noff[c] - 1 /\ InFlight(c) = 1 /\ InFlight(c)' = 0
          /\ (sie'[c] <=> noff[c] = 1 /\ intena[c])
      BY <2>7, Layers, OnHart DEF PopOK, TypeOK, InFlight
    <3>2. Cardinality(held'[c]) = Cardinality(held[c]) /\ IsFiniteSet(held'[c])
      BY <3>1, Layers DEF NoffInv
    <3> QED  BY <1>2, <3>1, <3>2, Layers, OnHart, NoffOthers, SMTT(30)
  <2>8. ASSUME NEW on \in BOOLEAN, SetIntr(c, on)
         PROVE  NoffInv'
    <3>1. UNCHANGED held /\ noff'[c] = noff[c] /\ InFlight(c)' = InFlight(c)
      BY <2>8, Layers, OnHart DEF SetIntr, TypeOK, InFlight
    <3>2. noff'[c] > 0 => ~sie'[c]
      BY <2>8, <3>1, Layers, OnHart, SMTT(30) DEF SetIntr, TypeOK, NoffInv
    <3> QED  BY <1>2, <3>1, <3>2, Layers, NoffOthers DEF NoffInv, NoffCounts
  <2>9. CASE InterruptOK(c)
    <3>1. UNCHANGED held /\ noff'[c] = noff[c] /\ InFlight(c)' = InFlight(c)
      BY <2>9, Layers, OnHart DEF InterruptOK, TypeOK, InFlight, Interrupt
    <3>2. noff'[c] > 0 => ~sie'[c]
      BY <2>9, <3>1, Layers, OnHart DEF InterruptOK, TypeOK, NoffInv, Interrupt
    <3> QED  BY <1>2, <3>1, <3>2, Layers, NoffOthers DEF NoffInv, NoffCounts
  <2>10. CASE InterruptRet(c)
    <3>1. UNCHANGED <<held, noff>> /\ held[c] = {} /\ InFlight(c) = 0 /\ InFlight(c)' = 0
      BY <2>10, Layers, OnHart DEF InterruptRet, TypeOK, InFlight, Frames
    <3>2. noff[c] = 0
      BY <3>1, Layers, OnHart
    <3> QED  BY <1>2, <3>1, <3>2, Layers, NoffOthers, SMTT(30) DEF NoffInv, NoffCounts
  <2>11. CASE SchedOK(c)
    <3>1. UNCHANGED <<held, noff, sie, pc>> /\ pc[cur[c]] = "run" /\ cur'[c] = c /\ cur[c] # c
      BY <2>11, Layers, OnHart, SMTT(30) DEF SchedOK, TypeOK, SpinAssumption
    <3>2. Away(c) /\ c \in Agents
      BY <3>1, Layers DEF CurInv, Away, Agents, SpinAssumption
    <3>3. InFlight(c) = 0 /\ InFlight(c)' = 0
      BY <3>1, <3>2, Layers DEF CurInv, InFlight
    <3> QED  BY <1>2, <3>1, <3>3, Layers, NoffOthers DEF NoffInv, NoffCounts
  <2>12. ASSUME NEW t \in Threads, Dispatch(c, t)
          PROVE  NoffInv'
    <3>1. UNCHANGED held /\ noff'[c] = noff[c] /\ InFlight(c)' = InFlight(c)
      BY <2>12, Layers, OnHart DEF Dispatch, TypeOK, InFlight, CurInv, Away, Agents
    <3>2. noff'[c] > 0 => ~sie'[c]
      BY <2>12, <3>1, Layers, OnHart DEF Dispatch, TypeOK, NoffInv, CurInv, Away, Agents
    <3> QED  BY <1>2, <3>1, <3>2, Layers, NoffOthers DEF NoffInv, NoffCounts
  <2> QED
    BY <1>2, <2>1, <2>2, <2>3, <2>4, <2>5, <2>6, <2>7, <2>8, <2>9, <2>10, <2>11, <2>12
       DEF Calm
<1> QED  BY <1>1, <1>2, Calmly

(* What BaseInv says of hart d, of the frames and of the threads away. *)
HartBase(d) ==
  /\ noff[d] = 0 => sie[d] = base[cur[d]]
  /\ noff[d] > 0 => intena[d] = base[cur[d]]
  /\ pc[cur[d]] = "push" /\ noff[d] = 0 => old[cur[d]] = base[cur[d]]

FrameBase == \A a \in Agents : frame[a] # <<>> => ~base[a] /\ (frame[a][1] = "push" => frame[a][3])

AwayBase == \A t \in Threads \ fresh : Away(t) => saved[t] = base[t]

(* BaseInv is its parts. *)
LEMMA BaseParts == BaseInv <=> FrameBase /\ AwayBase /\ \A d \in CPU : HartBase(d)
BY DEF BaseInv, InterruptsRestored, HartBase, FrameBase, AwayBase

(* What the other harts keep of their interrupt state stays right. *)
LEMMA BaseOthers ==
  ASSUME SpinAssumption, IInv, NEW c \in CPU, Calm(c), HartBase(c)', FrameBase', AwayBase'
  PROVE  BaseInv'
<1>1. \A d \in CPU : d # c => HartBase(d)'
  BY Layers, Others, BaseParts, SMTT(30) DEF Untouched, HartBase
<1> QED  BY <1>1 DEF BaseInv, InterruptsRestored, HartBase, FrameBase, AwayBase

(* SIE is kept somewhere while it is off, and put back from there. *)
LEMMA BaseStep ==
  ASSUME SpinAssumption, IInv, [Next]_vars
  PROVE  BaseInv'
<1>1. CASE UNCHANGED vars
  BY <1>1, Layers DEF vars, BaseInv, InterruptsRestored, Away
<1>2. ASSUME NEW c \in CPU, Calm(c)
      PROVE  BaseInv'
  <2>1. ASSUME NEW l \in Locks, Acquire(c, l)
         PROVE  BaseInv'
    <3>0. HartBase(c) /\ FrameBase /\ AwayBase
      BY Layers, BaseParts
    <3>1. HartBase(c)'
      BY <2>1, <3>0, Layers, OnHart DEF Acquire, TypeOK, HartBase
    <3>2. FrameBase'
      BY <2>1, <3>0, Layers, OnHart DEF Acquire, TypeOK, FrameBase
    <3>3. AwayBase'
      BY <2>1, <3>0, Layers, OnHart DEF Acquire, TypeOK, AwayBase, Away
    <3> QED  BY <1>2, <3>1, <3>2, <3>3, BaseOthers
  <2>2. ASSUME NEW l \in Locks, ReleaseOK(c, l)
         PROVE  BaseInv'
    <3>0. HartBase(c) /\ FrameBase /\ AwayBase
      BY Layers, BaseParts
    <3>1. HartBase(c)'
      BY <2>2, <3>0, Layers, OnHart DEF ReleaseOK, TypeOK, HartBase
    <3>2. FrameBase'
      BY <2>2, <3>0, Layers, OnHart DEF ReleaseOK, TypeOK, FrameBase
    <3>3. AwayBase'
      BY <2>2, <3>0, Layers, OnHart DEF ReleaseOK, TypeOK, AwayBase, Away
    <3> QED  BY <1>2, <3>1, <3>2, <3>3, BaseOthers
  <2>3. CASE PushOK(c)
    <3>0. HartBase(c) /\ FrameBase /\ AwayBase
      BY Layers, BaseParts
    <3>1. HartBase(c)'
      <4>1. noff'[c] = noff[c] + 1 /\ cur' = cur /\ base' = base /\ noff[c] \in Nat
        BY <2>3, Layers, OnHart DEF PushOK, TypeOK
      <4>2. noff[c] = 0 => intena'[c] = old[cur[c]]
        BY <2>3, Layers, OnHart DEF PushOK, TypeOK
      <4>3. noff[c] # 0 => intena'[c] = intena[c]
        BY <2>3, Layers, OnHart DEF PushOK, TypeOK
      <4>4. intena'[c] = base[cur[c]]
        BY <2>3, <3>0, <4>1, <4>2, <4>3, SMTT(30) DEF HartBase, PushOK
      <4>5. noff'[c] > 0
        BY <4>1, SMTT(30)
      <4>6. noff'[c] # 0
        BY <4>1, SMTT(30)
      <4> QED  BY <4>1, <4>4, <4>5, <4>6 DEF HartBase
    <3>2. FrameBase'
      BY <2>3, <3>0, Layers, OnHart DEF PushOK, TypeOK, FrameBase
    <3>3. AwayBase'
      BY <2>3, <3>0, Layers, OnHart DEF PushOK, TypeOK, AwayBase, Away
    <3> QED  BY <1>2, <3>1, <3>2, <3>3, BaseOthers
  <2>4. CASE TakeLock(c)
    <3>0. HartBase(c) /\ FrameBase /\ AwayBase
      BY Layers, BaseParts
    <3>1. HartBase(c)'
      BY <2>4, <3>0, Layers, OnHart DEF TakeLock, TypeOK, HartBase
    <3>2. FrameBase'
      BY <2>4, <3>0, Layers, OnHart DEF TakeLock, TypeOK, FrameBase
    <3>3. AwayBase'
      BY <2>4, <3>0, Layers, OnHart DEF TakeLock, TypeOK, AwayBase, Away
    <3> QED  BY <1>2, <3>1, <3>2, <3>3, BaseOthers
  <2>5. CASE MarkLock(c)
    <3>0. HartBase(c) /\ FrameBase /\ AwayBase
      BY Layers, BaseParts
    <3>1. HartBase(c)'
      BY <2>5, <3>0, Layers, OnHart DEF MarkLock, TypeOK, HartBase
    <3>2. FrameBase'
      BY <2>5, <3>0, Layers, OnHart DEF MarkLock, TypeOK, FrameBase
    <3>3. AwayBase'
      BY <2>5, <3>0, Layers, OnHart DEF MarkLock, TypeOK, AwayBase, Away
    <3> QED  BY <1>2, <3>1, <3>2, <3>3, BaseOthers
  <2>6. CASE Unlock(c)
    <3>0. HartBase(c) /\ FrameBase /\ AwayBase
      BY Layers, BaseParts
    <3>1. HartBase(c)'
      BY <2>6, <3>0, Layers, OnHart DEF Unlock, TypeOK, HartBase
    <3>2. FrameBase'
      BY <2>6, <3>0, Layers, OnHart DEF Unlock, TypeOK, FrameBase
    <3>3. AwayBase'
      BY <2>6, <3>0, Layers, OnHart DEF Unlock, TypeOK, AwayBase, Away
    <3> QED  BY <1>2, <3>1, <3>2, <3>3, BaseOthers
  <2>7. CASE PopOK(c)
    <3>0. HartBase(c) /\ FrameBase /\ AwayBase
      BY Layers, BaseParts
    <3>1. HartBase(c)'
      BY <2>7, <3>0, Layers, OnHart, SMTT(30) DEF PopOK, TypeOK, HartBase
    <3>2. FrameBase'
      BY <2>7, <3>0, Layers, OnHart DEF PopOK, TypeOK, FrameBase
    <3>3. AwayBase'
      BY <2>7, <3>0, Layers, OnHart DEF PopOK, TypeOK, AwayBase, Away
    <3> QED  BY <1>2, <3>1, <3>2, <3>3, BaseOthers
  <2>8. ASSUME NEW on \in BOOLEAN, SetIntr(c, on)
         PROVE  BaseInv'
    <3>0. HartBase(c) /\ FrameBase /\ AwayBase
      BY Layers, BaseParts
    <3>1. HartBase(c)'
      BY <2>8, <3>0, Layers, OnHart, SMTT(30) DEF SetIntr, TypeOK, HartBase, SpinAssumption
    <3>2. FrameBase'
      BY <2>8, <3>0, Layers, OnHart DEF SetIntr, TypeOK, FrameBase, SpinAssumption
    <3>3. AwayBase'
      BY <2>8, <3>0, Layers, OnHart, SMTT(30) DEF SetIntr, TypeOK, AwayBase, Away, SpinAssumption
    <3> QED  BY <1>2, <3>1, <3>2, <3>3, BaseOthers
  <2>9. CASE InterruptOK(c)
    <3>0. HartBase(c) /\ FrameBase /\ AwayBase
      BY Layers, BaseParts
    <3>1. HartBase(c)'
      <4>1. cur' = cur /\ noff' = noff /\ noff[c] = 0 /\ pc'[cur[c]] = "run"
        BY <2>9, Layers, OnHart DEF InterruptOK, Interrupt, TypeOK, NoffInv
      <4>2. sie'[c] = FALSE /\ base'[cur[c]] = FALSE
        BY <2>9, Layers, OnHart DEF InterruptOK, Interrupt, TypeOK
      <4>3. ~(noff'[c] > 0) /\ pc'[cur'[c]] # "push"
        BY <4>1, SMTT(30)
      <4>4. sie'[c] = base'[cur'[c]]
        BY <4>1, <4>2
      <4> QED  BY <4>3, <4>4 DEF HartBase
    <3>2. FrameBase'
      <4>1. noff[c] = 0 /\ sie[c]
        BY <2>9, Layers, OnHart DEF InterruptOK, Interrupt, TypeOK, NoffInv
      <4>2. pc[cur[c]] = "push" => old[cur[c]]
        BY <3>0, <4>1 DEF HartBase
      <4>3. base'[cur[c]] = FALSE /\ frame'[cur[c]] = <<pc[cur[c]], lk[cur[c]], old[cur[c]]>>
        BY <2>9, Layers, OnHart DEF InterruptOK, Interrupt, TypeOK
      <4>4. \A a \in Agents : a # cur[c] => base'[a] = base[a] /\ frame'[a] = frame[a]
        BY <2>9, Layers, OnHart DEF InterruptOK, Interrupt, TypeOK
      <4> QED  BY <3>0, <4>2, <4>3, <4>4, SMTT(30) DEF FrameBase
    <3>3. AwayBase'
      <4>1. UNCHANGED <<cur, saved, fresh>> /\ \A a \in Agents : a # cur[c] => base'[a] = base[a]
        BY <2>9, Layers, OnHart DEF InterruptOK, Interrupt, TypeOK
      <4> QED  BY <3>0, <4>1, Layers DEF AwayBase, Away, Agents
    <3> QED  BY <1>2, <3>1, <3>2, <3>3, BaseOthers
  <2>10. CASE InterruptRet(c)
    <3>0. HartBase(c) /\ FrameBase /\ AwayBase
      BY Layers, BaseParts
    <3>1. HartBase(c)'
      <4>1. UNCHANGED <<cur, noff>> /\ held[c] = {} /\ InFlight(c) = 0 /\ frame[cur[c]] # <<>>
        BY <2>10, Layers, OnHart DEF InterruptRet, InFlight
      <4>2. noff[c] = 0
        BY <4>1, Layers, OnHart
      <4>3. /\ pc'[cur[c]] = frame[cur[c]][1] /\ sie'[c] = TRUE
            /\ old'[cur[c]] = frame[cur[c]][3] /\ base'[cur[c]] = TRUE
        BY <2>10, Layers, OnHart DEF InterruptRet, TypeOK
      <4>4. frame[cur[c]][3] \in BOOLEAN /\ (frame[cur[c]][1] = "push" => frame[cur[c]][3])
        BY <3>0, <4>1, Layers, OnHart DEF FrameBase, TypeOK, Frames
      <4>5. ~(noff'[c] > 0)
        BY <4>1, <4>2, SMTT(30)
      <4>7. sie'[c] = base'[cur'[c]]
        BY <4>1, <4>3
      <4>6. pc'[cur'[c]] = "push" => old'[cur'[c]] = base'[cur'[c]]
        BY <4>1, <4>3, <4>4
      <4> QED  BY <4>5, <4>6, <4>7 DEF HartBase
    <3>2. FrameBase'
      BY <2>10, <3>0, Layers, OnHart DEF InterruptRet, TypeOK, FrameBase, Frames
    <3>3. AwayBase'
      <4>1. UNCHANGED <<cur, saved, fresh>> /\ \A a \in Agents : a # cur[c] => base'[a] = base[a]
        BY <2>10, Layers, OnHart DEF InterruptRet, TypeOK
      <4> QED  BY <3>0, <4>1, Layers DEF AwayBase, Away, Agents
    <3> QED  BY <1>2, <3>1, <3>2, <3>3, BaseOthers
  <2>11. CASE SchedOK(c)
    <3>0. HartBase(c) /\ FrameBase /\ AwayBase
      BY Layers, BaseParts
    <3>1. HartBase(c)'
      BY <2>11, <3>0, Layers, OnHart DEF SchedOK, TypeOK, HartBase, CurInv, Agents, SpinAssumption
    <3>2. FrameBase'
      BY <2>11, <3>0, Layers, OnHart, SMTT(30)
         DEF SchedOK, TypeOK, FrameBase, CurInv, Agents, SpinAssumption
    <3>3. AwayBase'
      <4>1. PICK t \in Threads : t = cur[c]
        BY <2>11 DEF SchedOK
      <4>2. /\ UNCHANGED fresh /\ cur' = [cur EXCEPT ![c] = c] /\ noff[c] = 1
            /\ saved'[t] = intena[c] /\ \A u \in Threads : u # t => saved'[u] = saved[u]
        BY <2>11, <4>1, Layers DEF SchedOK, TypeOK
      <4>3. \A u \in Threads : base'[u] = base[u]
        BY <2>11, Layers, SMTT(30) DEF SchedOK, TypeOK, Agents, SpinAssumption
      <4>4. intena[c] = base[t]
        BY <3>0, <4>1, <4>2, SMTT(30) DEF HartBase
      <4>5. \A u \in Threads : u # t /\ Away(u)' => Away(u)
        BY <4>1, <4>2, Layers DEF Away, TypeOK, SpinAssumption
      <4> QED  BY <3>0, <4>2, <4>3, <4>4, <4>5 DEF AwayBase
    <3> QED  BY <1>2, <3>1, <3>2, <3>3, BaseOthers
  <2>12. ASSUME NEW t \in Threads, Dispatch(c, t)
          PROVE  BaseInv'
    <3>0. HartBase(c) /\ FrameBase /\ AwayBase
      BY Layers, BaseParts
    <3>1. HartBase(c)'
      <4>1. /\ cur'[c] = t /\ UNCHANGED <<noff, sie, pc, old>> /\ held[c] = {t} /\ Away(t)
            /\ cur[c] = c /\ t \in Agents
        BY <2>12, Layers DEF Dispatch, TypeOK, Away, Agents
      <4>2. pc[t] = "run" /\ noff[c] # 0 /\ noff[c] > 0
        BY <4>1, Layers, OnHart, SMTT(30) DEF CurInv
      <4>3. intena[c] = base[c]
        BY <3>0, <4>1, <4>2 DEF HartBase
      <4>4. CASE t \in fresh
        <5>1. intena' = intena /\ base' = [base EXCEPT ![t] = base[c]]
          BY <2>12, <4>4 DEF Dispatch
        <5>2. intena'[c] = intena[c] /\ base'[t] = base[c]
          BY <4>1, <5>1, Layers DEF TypeOK
        <5> QED  BY <4>1, <4>2, <4>3, <5>2 DEF HartBase
      <4>5. CASE t \notin fresh
        <5>1. intena' = [intena EXCEPT ![c] = saved[t]] /\ base' = base
          BY <2>12, <4>5 DEF Dispatch
        <5>2. intena'[c] = saved[t] /\ base'[t] = base[t]
          BY <5>1, Layers DEF TypeOK
        <5>3. saved[t] = base[t]
          BY <3>0, <4>1, <4>5 DEF AwayBase
        <5> QED  BY <4>1, <4>2, <5>2, <5>3 DEF HartBase
      <4> QED  BY <4>4, <4>5
    <3>2. FrameBase'
      BY <2>12, <3>0, Layers, OnHart, SMTT(30)
         DEF Dispatch, TypeOK, FrameBase, CurInv, Agents, SpinAssumption
    <3>3. AwayBase'
      BY <2>12, <3>0, Layers, OnHart, SMTT(30)
         DEF Dispatch, TypeOK, AwayBase, Away, CurInv, Agents, SpinAssumption
    <3> QED  BY <1>2, <3>1, <3>2, <3>3, BaseOthers
  <2> QED
    BY <1>2, <2>1, <2>2, <2>3, <2>4, <2>5, <2>6, <2>7, <2>8, <2>9, <2>10, <2>11, <2>12
       DEF Calm
<1> QED  BY <1>1, <1>2, Calmly

-----------------------------------------------------------------------------
(* The inductive invariant and what follows from it *)

(* The empty set has no elements to count. *)
LEMMA NoLocks ==
  ASSUME NEW S, S = {}
  PROVE  IsFiniteSet(S) /\ Cardinality(S) = 0
<1>1. IsFiniteSet(S)
  BY FS_EmptySet
<1> QED  BY <1>1, FS_EmptySet

(* The harts start in their schedulers, with no locks and interrupts on. *)
LEMMA InitIInv ==
  ASSUME SpinAssumption, Init
  PROVE  IInv
<1>0. AnyLock \in Locks
  BY DEF AnyLock, Locks, SpinAssumption
<1>1. TypeOK
  <2>1. locked \in [Locks -> BOOLEAN] /\ lkcpu \in [Locks -> CPU \cup {0}]
    BY DEF Init
  <2>2. noff \in [CPU -> Nat] /\ intena \in [CPU -> BOOLEAN] /\ sie \in [CPU -> BOOLEAN]
    BY DEF Init
  <2>3. cur \in [CPU -> Agents] /\ pc \in [Agents -> Labels] /\ lk \in [Agents -> Locks]
    BY <1>0 DEF Init, Agents, Labels
  <2>4. old \in [Agents -> BOOLEAN] /\ frame \in [Agents -> Frames]
    BY DEF Init, Frames
  <2>5. saved \in [Threads -> BOOLEAN] /\ fresh \subseteq Threads /\ held \in [CPU -> SUBSET Locks]
    BY DEF Init
  <2>6. base \in [Agents -> BOOLEAN]
    BY SMTT(30) DEF Init
  <2> QED  BY <2>1, <2>2, <2>3, <2>4, <2>5, <2>6 DEF TypeOK
<1>2. \A c \in CPU : /\ cur[c] = c /\ c \in Agents /\ pc[c] = "run" /\ held[c] = {}
                     /\ noff[c] = 0 /\ frame[c] = <<>>
  BY DEF Init, Agents
<1>3. CurInv
  BY <1>2, SMTT(30) DEF CurInv, Away, Init, Agents, SpinAssumption
<1>4. OwnInv
  BY <1>2 DEF OwnInv, Own, Init, SpinAssumption
<1>5. NoffInv
  <2>1. \A c \in CPU : IsFiniteSet(held[c]) /\ Cardinality(held[c]) = 0
    BY <1>2, NoLocks
  <2>2. \A c \in CPU : InFlight(c) = 0
    BY <1>2 DEF InFlight
  <2>3. NoffCounts
    BY <1>2, <2>1, <2>2, SMTT(30) DEF NoffCounts
  <2>4. \A c \in CPU : ~(noff[c] > 0)
    BY <1>2, SMTT(30)
  <2> QED  BY <2>1, <2>3, <2>4 DEF NoffInv
<1>6. BaseInv
  <2>1. \A c \in CPU : sie[c] = TRUE /\ base[c] = TRUE
    BY <1>2 DEF Init
  <2>2. InterruptsRestored
    BY <1>2, <2>1 DEF InterruptsRestored
  <2>3. \A a \in Agents : frame[a] = <<>>
    BY DEF Init
  <2>4. \A c \in CPU : ~(noff[c] > 0) /\ pc[cur[c]] # "push"
    BY <1>2, SMTT(30)
  <2>5. fresh = Threads
    BY DEF Init
  <2> QED  BY <2>2, <2>3, <2>4, <2>5 DEF BaseInv
<1>7. NoPanic
  BY DEF NoPanic, Init
<1> QED  BY <1>1, <1>3, <1>4, <1>5, <1>6, <1>7 DEF IInv

(* Every handler of spinlock.c, sched(), scheduler() and kerneltrap() keeps the *)
(* invariant.                                                                    *)
LEMMA NextIInv ==
  ASSUME SpinAssumption, IInv, [Next]_vars
  PROVE  IInv'
BY TypeStep, NoPanicStep, CurStep, OwnStep, NoffStep, BaseStep DEF IInv

(* The invariant of module SpinlockInv always holds, for any number of harts,   *)
(* threads and locks.                                                            *)
THEOREM Invariance == SpinAssumption => (Spec => []IInv)
<1> SUFFICES ASSUME SpinAssumption PROVE Spec => []IInv
  OBVIOUS
<1>1. Init => IInv
  BY InitIInv
<1>2. IInv /\ [Next]_vars => IInv'
  BY NextIInv
<1> QED  BY <1>1, <1>2, PTL DEF Spec

(* acquire() and release() exclude: two harts never both have a lock, although   *)
(* a lock passes from a thread to the scheduler of its hart and to a thread that *)
(* was last seen on another hart.                                                *)
THEOREM LockExcludes == SpinAssumption => (Spec => []MutualExclusion)
<1> SUFFICES ASSUME SpinAssumption PROVE Spec => []MutualExclusion
  OBVIOUS
<1>1. IInv => MutualExclusion
  BY Layers DEF OwnInv, Own, MutualExclusion
<1> QED  BY <1>1, Invariance, PTL

(* push_off() and pop_off(): noff counts the locks of the hart, no interrupt is  *)
(* taken with one, and with none the agent finds SIE as it last set or found it, *)
(* also after it has slept and moved to another hart.                            *)
THEOREM InterruptsTracked ==
  SpinAssumption => (Spec => [](NoffCounts /\ NoInterruptWhileHolding /\ InterruptsRestored))
<1> SUFFICES ASSUME SpinAssumption
             PROVE  Spec => [](NoffCounts /\ NoInterruptWhileHolding /\ InterruptsRestored)
  OBVIOUS
<1>1. IInv => NoffCounts /\ NoInterruptWhileHolding /\ InterruptsRestored
  <2> SUFFICES ASSUME IInv PROVE NoffCounts /\ NoInterruptWhileHolding /\ InterruptsRestored
    OBVIOUS
  <2>1. ASSUME NEW c \in CPU, held[c] # {} \/ InFlight(c) = 1
        PROVE  ~sie[c]
    <3>1. noff[c] # 0 /\ noff[c] \in Nat
      BY <2>1, Layers, OnHart, SMTT(30)
    <3> QED  BY <3>1, Layers, SMTT(30) DEF NoffInv
  <2> QED  BY <2>1, Layers DEF NoInterruptWhileHolding, NoffInv, BaseInv
<1> QED  BY <1>1, Invariance, PTL

(* The panics of acquire(), release(), pop_off() and sched() are not reached.    *)
THEOREM PanicFree == SpinAssumption => (Spec => []NoPanic)
<1> SUFFICES ASSUME SpinAssumption PROVE Spec => []NoPanic
  OBVIOUS
<1>1. IInv => NoPanic
  BY Layers
<1> QED  BY <1>1, Invariance, PTL

=============================================================================
