----------------------------- MODULE LogProofs ------------------------------
(***************************************************************************)
(* Proofs about Log: its invariant is inductive for every number of        *)
(* threads, blocks and log blocks, every budget and every number of        *)
(* crashes, and the log implements atomic transactions (AtomicLog).        *)
(***************************************************************************)
EXTENDS LogInv, FiniteSetTheorems, TLAPS

USE ZenonT(60) DEF diskVars, bufVars, logVars, bounds, At, Goto

(* The layers of the invariant, one by one. *)
LEMMA Layers ==
  ASSUME IInv
  PROVE  /\ TypeOK /\ AloneInv /\ WroteInv /\ LogFits /\ HeaderInv /\ PinInv /\ CopyInv
BY DEF IInv

(* A set of threads is finite, and no larger than Threads. *)
LEMMA ThreadSet ==
  ASSUME NEW S, S \subseteq Threads
  PROVE  IsFiniteSet(S) /\ Cardinality(S) \in 0..Cardinality(Threads)
BY LogAssumption, FS_Subset, FS_CardinalityType, SMTT(30)

(* n operations reserve n times MAXOPBLOCKS blocks. *)
LEMMA ReservationSize ==
  ASSUME NEW S, IsFiniteSet(S)
  PROVE  /\ IsFiniteSet(S \X (1..MAXOPBLOCKS))
         /\ Cardinality(S \X (1..MAXOPBLOCKS)) = Cardinality(S) * MAXOPBLOCKS
<1>1. IsFiniteSet(1..MAXOPBLOCKS) /\ Cardinality(1..MAXOPBLOCKS) = MAXOPBLOCKS
  BY FS_Interval, LogAssumption, SMTT(30)
<1> QED  BY <1>1, FS_Product

(* The operations under way are threads, and there are finitely many reservations. *)
LEMMA ReservedFinite ==
  IsFiniteSet(Active) /\ IsFiniteSet(Reserved) /\ Cardinality(Reserved) \in Nat
<1>1. IsFiniteSet(Active)
  BY ThreadSet DEF Active
<1>2. IsFiniteSet(Active \X (1..MAXOPBLOCKS))
  BY <1>1, ReservationSize
<1>3. Reserved \subseteq Active \X (1..MAXOPBLOCKS)
  BY DEF Reserved
<1> QED  BY <1>1, <1>2, <1>3, FS_Subset, FS_CardinalityType

(* A step after which less is reserved and lh has not grown keeps the reservation. *)
LEMMA FitsFrame ==
  ASSUME IInv, mode = "run", Len(lh') <= Len(lh), lh' \in Seq(Blocks), Reserved' \subseteq Reserved
  PROVE  LogFits'
<1>1. Cardinality(Reserved') <= Cardinality(Reserved) /\ Cardinality(Reserved') \in Nat
  BY ReservedFinite, FS_Subset, FS_CardinalityType
<1>2. Len(lh) \in Nat /\ Len(lh') \in Nat
  BY Layers, SMTT(30) DEF TypeOK
<1> QED  BY <1>1, <1>2, Layers, ReservedFinite, LogAssumption, SMTT(30) DEF LogFits

(* While one thread commits, the others are outside begin_op() .. end_op(). *)
LEMMA OneCommitter ==
  ASSUME IInv, NEW t \in Threads, pc[t] \in CommitLabels
  PROVE  /\ mode = "run" /\ committing /\ Active = {} /\ outstanding = 0
         /\ \A u \in Threads : u # t => pc[u] \in {"idle", "begin", "sleep"}
         /\ \A u \in Threads : wrote[u] = {}
<1>1. t \in Committers
  BY DEF Committers
<1>2. committing /\ Active = {}
  BY <1>1, Layers DEF AloneInv
<1>3. mode = "run"
  BY Layers DEF AloneInv, CommitLabels
<1>4. outstanding = 0
  BY <1>2, Layers, FS_EmptySet DEF AloneInv
<1>5. ASSUME NEW u \in Threads, u # t
      PROVE  pc[u] \in {"idle", "begin", "sleep"}
  <2>1. pc[u] \in Labels /\ u \notin Active /\ u \notin Committers
    BY <1>1, <1>2, <1>5, Layers DEF TypeOK, AloneInv
  <2> QED  BY <2>1 DEF Labels, Active, Committers, CommitLabels
<1> QED  BY <1>2, <1>3, <1>4, <1>5, Layers DEF WroteInv

(* Outside a commit no thread is at a label of commit(). *)
LEMMA NoCommitter ==
  ASSUME IInv, ~committing
  PROVE  \A t \in Threads : pc[t] \notin CommitLabels
BY Layers DEF AloneInv, Committers

(* A step that only moves threads among the labels outside commit(). *)
QuietMove ==
  /\ UNCHANGED <<diskVars, bufVars, lh, mode, tail, committing>>
  /\ \A u \in Threads : pc[u] \in CommitLabels \/ pc'[u] \in CommitLabels => pc'[u] = pc[u]

(* Such a step keeps what the invariant says of the log and the buffers. *)
LEMMA QuietFrame ==
  ASSUME IInv, QuietMove
  PROVE  HeaderInv' /\ PinInv' /\ CopyInv' /\ Committers' = Committers
<1>1. /\ Within({"write_head"})' = Within({"write_head"})
      /\ Within({"write_log"})' = Within({"write_log"})
      /\ Within({"commit_end"})' = Within({"commit_end"})
      /\ Within({"install"})' = Within({"install"})
      /\ Within({"erase"})' = Within({"erase"})
      /\ Within(Loops)' = Within(Loops)
      /\ Within(Committed)' = Within(Committed)
      /\ Within({"write_head", "install", "erase"})' = Within({"write_head", "install", "erase"})
  BY DEF QuietMove, Within, CommitLabels, Loops, Committed
<1>2. Committers' = Committers
  BY DEF QuietMove, Committers
<1>3. HeaderInv'
  BY <1>1, Layers DEF HeaderInv, QuietMove, NoDup
<1>4. PinInv'
  BY <1>1, Layers DEF PinInv, DirtyPinned, Pinned, QuietMove
<1>5. CopyInv'
  BY <1>1, Layers DEF CopyInv, Logged, Installed, Content, QuietMove
<1> QED  BY <1>2, <1>3, <1>4, <1>5

-----------------------------------------------------------------------------
(* begin_op() *)

(* A system call that comes to begin_op(), and one that falls asleep there. *)
LEMMA EnterIInv ==
  ASSUME IInv, NEW t \in Threads, SysCall(t) \/ BeginSleep(t)
  PROVE  IInv'
<1>1. /\ pc[t] \in {"idle", "begin"} /\ pc'[t] \in {"begin", "sleep"}
      /\ \A u \in Threads : u # t => pc'[u] = pc[u]
      /\ UNCHANGED <<diskVars, bufVars, logVars, mode, tail, wrote>> /\ mode = "run"
  BY Layers DEF TypeOK, SysCall, BeginSleep
<1>2. TypeOK'
  BY Layers, <1>1, LogAssumption, SMTT(30) DEF TypeOK, SysCall, BeginSleep, Labels
<1>3. Active' = Active
  BY <1>1 DEF Active
<1>4. HeaderInv' /\ PinInv' /\ CopyInv' /\ Committers' = Committers
  BY <1>1, QuietFrame DEF QuietMove, CommitLabels
<1>5. AloneInv'
  BY <1>1, <1>3, <1>4, Layers DEF AloneInv
<1>6. WroteInv' /\ Reserved' = Reserved
  BY <1>1, <1>3, Layers DEF WroteInv, InLog, Reserved
<1>7. LogFits'
  BY <1>1, <1>6, Layers DEF LogFits
<1> QED  BY <1>2, <1>4, <1>5, <1>6, <1>7 DEF IInv

(* begin_op() reserves MAXOPBLOCKS blocks of the log for the operation. *)
LEMMA BeginIInv ==
  ASSUME IInv, NEW t \in Threads, BeginOp(t)
  PROVE  IInv'
<1>1. /\ mode = "run" /\ ~committing /\ pc[t] = "begin" /\ pc'[t] = "op"
      /\ \A u \in Threads : u # t => pc'[u] = pc[u]
      /\ UNCHANGED <<diskVars, bufVars, lh, committing, mode, tail, wrote>>
      /\ outstanding' = outstanding + 1
      /\ ~(Len(lh) + (outstanding + 1) * MAXOPBLOCKS > LOGSIZE)
  BY Layers DEF TypeOK, BeginOp, MustWait
<1>2. t \notin Active /\ Active' = Active \cup {t}
  BY <1>1 DEF Active
<1>3. IsFiniteSet(Active') /\ outstanding' = Cardinality(Active')
  <2>1. IsFiniteSet(Active \cup {t}) /\ Cardinality(Active \cup {t}) = Cardinality(Active) + 1
    BY <1>2, ReservedFinite, FS_AddElement
  <2> QED  BY <1>1, <1>2, <2>1, Layers DEF AloneInv
<1>4. HeaderInv' /\ PinInv' /\ CopyInv' /\ Committers' = Committers
  BY <1>1, QuietFrame DEF QuietMove, CommitLabels
<1>5. AloneInv'
  BY <1>1, <1>3, <1>4, Layers DEF AloneInv
<1>6. TypeOK'
  <2>1. outstanding' \in 0..Cardinality(Threads)
    <3>1. Active' \subseteq Threads
      BY DEF Active
    <3> QED  BY <1>3, <3>1, ThreadSet
  <2> QED  BY <1>1, <2>1, Layers DEF TypeOK, BeginOp, Labels
<1>7. WroteInv'
  BY <1>1, <1>2, Layers DEF WroteInv, InLog
<1>8. LogFits'
  <2>1. Reserved' \subseteq Active' \X (1..MAXOPBLOCKS)
    BY DEF Reserved
  <2>2. /\ IsFiniteSet(Active' \X (1..MAXOPBLOCKS))
        /\ Cardinality(Active' \X (1..MAXOPBLOCKS)) = (outstanding + 1) * MAXOPBLOCKS
    BY <1>1, <1>3, ReservationSize
  <2>3. Cardinality(Reserved') <= (outstanding + 1) * MAXOPBLOCKS /\ Cardinality(Reserved') \in Nat
    BY <2>1, <2>2, FS_Subset, FS_CardinalityType, SMTT(30)
  <2>4. Len(lh) \in Nat /\ (outstanding + 1) * MAXOPBLOCKS \in Int
    BY Layers, LogAssumption, SMTT(30) DEF TypeOK
  <2> QED  BY <1>1, <2>3, <2>4, LogAssumption, SMTT(30) DEF LogFits
<1> QED  BY <1>4, <1>5, <1>6, <1>7, <1>8 DEF IInv

-----------------------------------------------------------------------------
(* log_write() *)

(* Outside a commit the header on disk is empty, and exactly the blocks of lh are pinned. *)
LEMMA NoCommitState ==
  ASSUME IInv, mode = "run", ~committing
  PROVE  /\ tail = 1 /\ head = <<>>
         /\ \A labels \in SUBSET CommitLabels : ~Within(labels)
         /\ \A b \in Blocks : pins[b] = IF InLog(b) THEN 1 ELSE 0
<1>1. \A labels \in SUBSET CommitLabels : ~Within(labels)
  BY NoCommitter DEF Within
<1>2. ~Within(Loops) /\ ~Within(Committed) /\ ~Within({"install"}) /\ ~Within({"erase"})
  BY <1>1 DEF Loops, Committed, CommitLabels
<1>3. tail = 1 /\ head = <<>>
  BY <1>2, Layers DEF HeaderInv
<1>4. \A b \in Blocks : Pinned(b) <=> InLog(b)
  BY <1>2 DEF Pinned, InLog
<1> QED  BY <1>1, <1>3, <1>4, Layers DEF PinInv

(* The block that log_write() appends to lh takes one of the reservations. *)
LEMMA WriteFits ==
  ASSUME IInv, NEW t \in Threads, NEW b \in Blocks, MayWrite(t, b),
         UNCHANGED <<mode, pc>>, wrote' = [wrote EXCEPT ![t] = @ \cup {b}],
         lh' = IF InLog(b) THEN lh ELSE Append(lh, b)
  PROVE  WroteInv' /\ LogFits'
<1>1. mode = "run" /\ t \in Active /\ Active' = Active
  BY DEF MayWrite, Active
<1>2. /\ wrote \in [Threads -> SUBSET Blocks] /\ lh \in Seq(Blocks) /\ Len(lh) \in Nat
      /\ wrote'[t] = wrote[t] \cup {b} /\ \A u \in Threads : u # t => wrote'[u] = wrote[u]
  BY Layers, SMTT(30) DEF TypeOK
<1>3. /\ IsFiniteSet(wrote[t]) /\ IsFiniteSet(wrote'[t]) /\ Cardinality(wrote[t]) \in Nat
      /\ Cardinality(wrote'[t]) <= MAXOPBLOCKS
      /\ Cardinality(wrote'[t]) = IF b \in wrote[t] THEN Cardinality(wrote[t])
                                                    ELSE Cardinality(wrote[t]) + 1
  BY <1>2, Layers, FS_AddElement, FS_CardinalityType DEF WroteInv, MayWrite
<1>4. \A x \in Blocks : InLog(x)' <=> InLog(x) \/ x = b
  <2>1. CASE InLog(b)
    BY <2>1 DEF InLog
  <2>2. CASE ~InLog(b)
    BY <1>2, <2>2, SMTT(30) DEF InLog
  <2> QED  BY <2>1, <2>2
<1>5. WroteInv'
  BY <1>1, <1>2, <1>3, <1>4, Layers DEF WroteInv
<1>6. Reserved' \subseteq Reserved
  BY <1>1, <1>2, <1>3, SMTT(30) DEF Reserved
<1>7. CASE InLog(b)
  BY <1>1, <1>2, <1>5, <1>6, <1>7, FitsFrame, SMTT(30)
<1>8. CASE ~InLog(b)
  <2>1. b \notin wrote[t]
    BY <1>8, Layers DEF WroteInv
  <2> DEFINE r == <<t, Cardinality(wrote[t]) + 1>>
  <2>2. r \in Reserved /\ r \notin Reserved'
    <3>1. Cardinality(wrote[t]) + 1 \in 1..MAXOPBLOCKS
      BY <1>3, <2>1, LogAssumption, SMTT(30)
    <3>2. r \in Active \X (1..MAXOPBLOCKS) /\ r[1] = t /\ r[2] = Cardinality(wrote[t]) + 1
      BY <1>1, <3>1
    <3>3. r[2] > Cardinality(wrote[t]) /\ ~(r[2] > Cardinality(wrote'[t]))
      BY <1>3, <2>1, <3>2, SMTT(30)
    <3> HIDE DEF r
    <3> QED  BY <1>1, <3>2, <3>3 DEF Reserved
  <2>3. Reserved' \subseteq Reserved \ {r}
    BY <1>6, <2>2
  <2>4. IsFiniteSet(Reserved \ {r}) /\ Cardinality(Reserved \ {r}) = Cardinality(Reserved) - 1
    BY <2>2, ReservedFinite, FS_RemoveElement
  <2>5. Cardinality(Reserved') <= Cardinality(Reserved) - 1 /\ Cardinality(Reserved') \in Nat
    BY <2>3, <2>4, FS_Subset, FS_CardinalityType, SMTT(30)
  <2>6. Len(lh') = Len(lh) + 1
    BY <1>2, <1>8, SMTT(30)
  <2>7. LogFits'
    BY <1>1, <1>2, <2>5, <2>6, ReservedFinite, Layers, LogAssumption, SMTT(30) DEF LogFits
  <2> QED  BY <1>5, <2>7
<1> QED  BY <1>7, <1>8

(* log_write() pins the block it adds to the transaction. *)
LEMMA LogWriteIInv ==
  ASSUME IInv, NEW t \in Threads, NEW b \in Blocks, NEW v \in Vals, LogWrite(t, b, v)
  PROVE  IInv'
<1>1. /\ mode = "run" /\ pc[t] = "op" /\ t \in Active /\ ~committing /\ MayWrite(t, b) /\ ~LogFull
      /\ UNCHANGED <<diskVars, outstanding, committing, mode, pc, tail, ops, crashes>>
      /\ lh' = IF InLog(b) THEN lh ELSE Append(lh, b)
      /\ pins' = IF InLog(b) THEN pins ELSE [pins EXCEPT ![b] = @ + 1]
      /\ cache' = Buffer(b, v)
      /\ wrote' = [wrote EXCEPT ![t] = @ \cup {b}]
  BY Layers DEF LogWrite, MayWrite, Active, AloneInv
<1>2. /\ lh \in Seq(Blocks) /\ Len(lh) \in Nat /\ Len(lh) + 1 < LogBlocks
      /\ pins \in [Blocks -> 0..1]
  BY <1>1, Layers, LogAssumption, SMTT(30) DEF TypeOK, LogFull
<1>3. /\ tail = 1 /\ head = <<>>
      /\ \A labels \in SUBSET CommitLabels : ~Within(labels) /\ ~Within(labels)'
      /\ \A x \in Blocks : pins[x] = IF InLog(x) THEN 1 ELSE 0
  BY <1>1, NoCommitState DEF Within
<1>4. \A x \in Blocks : InLog(x)' <=> InLog(x) \/ x = b
  <2>1. CASE InLog(b)
    BY <1>1, <2>1 DEF InLog
  <2>2. CASE ~InLog(b)
    BY <1>1, <1>2, <2>2, SMTT(30) DEF InLog
  <2> QED  BY <2>1, <2>2
<1>5. \A x \in Blocks : pins'[x] = IF InLog(x)' THEN 1 ELSE 0
  BY <1>1, <1>2, <1>3, <1>4, SMTT(30)
<1>6. TypeOK'
  <2>1. lh' \in Seq(Blocks) /\ Len(lh') < LogBlocks
    <3>1. Append(lh, b) \in Seq(Blocks) /\ Len(Append(lh, b)) = Len(lh) + 1
      BY <1>2, SMTT(30)
    <3> QED  BY <1>1, <1>2, <3>1, Layers DEF TypeOK
  <2>2. pins' \in [Blocks -> 0..1]
    BY <1>1, <1>2, <1>5, SMTT(30)
  <2>3. DOMAIN cache' \subseteq Blocks /\ \A x \in DOMAIN cache' : cache'[x] \in Vals
    BY <1>1, Layers DEF TypeOK, Buffer
  <2>4. wrote' \in [Threads -> SUBSET Blocks]
    BY <1>1, Layers DEF TypeOK
  <2> QED  BY <1>1, <2>1, <2>2, <2>3, <2>4, Layers DEF TypeOK
<1>7. AloneInv'
  BY <1>1, Layers DEF AloneInv, Active, Committers
<1>8. WroteInv' /\ LogFits'
  BY <1>1, WriteFits
<1>9. HeaderInv'
  <2>1. NoDup(lh')
    BY <1>1, <1>2, Layers, SMTT(30) DEF HeaderInv, NoDup, InLog
  <2>2. ~Within(Loops)' /\ ~Within(Committed)' /\ ~Within({"write_head"})' /\ ~Within({"commit_end"})'
    BY <1>3 DEF Loops, Committed, CommitLabels
  <2> QED  BY <1>1, <1>3, <2>1, <2>2, Layers, SMTT(30) DEF HeaderInv, NoDup
<1>10. PinInv'
  <2>1. ~Within({"install"})' /\ ~Within({"erase"})'
    BY <1>3 DEF CommitLabels
  <2>2. \A x \in Blocks : Pinned(x)' <=> InLog(x)'
    BY <1>1, <2>1 DEF Pinned, InLog
  <2>3. DirtyPinned'
    <3> SUFFICES ASSUME NEW x \in DOMAIN cache', cache'[x] # home'[x]
                 PROVE  pins'[x] > 0
      BY DEF DirtyPinned
    <3>1. x \in Blocks
      BY <1>6 DEF TypeOK
    <3>2. CASE x = b
      BY <1>4, <1>5, <3>1, <3>2, SMTT(30)
    <3>3. CASE x # b
      BY <1>1, <1>2, <3>1, <3>3, Layers DEF PinInv, DirtyPinned, Buffer
    <3> QED  BY <3>2, <3>3
  <2> QED  BY <1>5, <2>2, <2>3 DEF PinInv
<1>11. CopyInv'
  <2>1. /\ ~Within({"write_log"})' /\ ~Within({"write_head", "install", "erase"})'
        /\ ~Within({"install"})' /\ ~Within({"erase"})'
    BY <1>3 DEF CommitLabels
  <2> QED  BY <1>1, <2>1 DEF CopyInv
<1> QED  BY <1>6, <1>7, <1>8, <1>9, <1>10, <1>11 DEF IInv

(* panic("too big a transaction") leaves everything but the thread as it was. *)
LEMMA PanicIInv ==
  ASSUME IInv, NEW t \in Threads, LogWritePanic(t)
  PROVE  IInv'
<1>1. /\ pc[t] = "op" /\ pc'[t] = "panic" /\ \A u \in Threads : u # t => pc'[u] = pc[u]
      /\ UNCHANGED <<diskVars, bufVars, logVars, mode, tail, wrote, bounds>> /\ mode = "run"
  BY Layers DEF TypeOK, LogWritePanic, MayWrite
<1>2. TypeOK'
  BY Layers, <1>1 DEF TypeOK, LogWritePanic, Labels
<1>3. Active' = Active
  BY <1>1 DEF Active
<1>4. HeaderInv' /\ PinInv' /\ CopyInv' /\ Committers' = Committers
  BY <1>1, QuietFrame DEF QuietMove, CommitLabels
<1>5. AloneInv'
  BY <1>1, <1>3, <1>4, Layers DEF AloneInv
<1>6. WroteInv' /\ Reserved' = Reserved
  BY <1>1, <1>3, Layers DEF WroteInv, InLog, Reserved
<1>7. LogFits'
  BY <1>1, <1>6, Layers DEF LogFits
<1> QED  BY <1>2, <1>4, <1>5, <1>6, <1>7 DEF IInv

-----------------------------------------------------------------------------
(* end_op() *)

(* The end of any operation gives its reservation back. *)
LEMMA EndFrame ==
  ASSUME IInv, NEW t \in Threads, EndOp(t)
  PROVE  /\ mode = "run" /\ ~committing /\ t \in Active
         /\ UNCHANGED <<diskVars, bufVars, lh, mode, tail, bounds>>
         /\ outstanding' = outstanding - 1 /\ outstanding' = Cardinality(Active')
         /\ Active' = Active \ {t}
         /\ TypeOK' /\ WroteInv' /\ LogFits'
<1>1. /\ mode = "run" /\ ~committing /\ pc[t] = "op" /\ outstanding' = outstanding - 1
      /\ UNCHANGED <<diskVars, bufVars, lh, mode, tail, bounds>>
      /\ wrote' = [wrote EXCEPT ![t] = {}]
      /\ pc'[t] \in {"idle", "commit_end", "write_log"}
      /\ \A u \in Threads : u # t => \/ pc'[u] = pc[u]
                                     \/ pc[u] = "sleep" /\ pc'[u] = "begin"
  BY Layers DEF EndOp, TypeOK, GotoAndWake
<1>2. t \in Active /\ Active' = Active \ {t}
  BY <1>1 DEF Active
<1>3. outstanding' = Cardinality(Active')
  <2>1. Cardinality(Active \ {t}) = Cardinality(Active) - 1
    BY <1>2, ReservedFinite, FS_RemoveElement
  <2> QED  BY <1>1, <1>2, <2>1, Layers DEF AloneInv
<1>4. TypeOK'
  <2>1. outstanding' \in 0..Cardinality(Threads)
    <3>1. Active' \subseteq Threads
      BY DEF Active
    <3> QED  BY <1>3, <3>1, ThreadSet
  <2>2. pc' \in [Threads -> Labels] /\ committing' \in BOOLEAN
    BY Layers DEF EndOp, TypeOK, GotoAndWake, Labels
  <2> QED  BY <1>1, <2>1, <2>2, Layers DEF TypeOK
<1>5. WroteInv'
  BY <1>1, <1>2, Layers, FS_EmptySet, LogAssumption, SMTT(30) DEF WroteInv, TypeOK, InLog
<1>6. Reserved' \subseteq Reserved
  BY <1>1, <1>2, Layers DEF Reserved, TypeOK, Active
<1>7. LogFits'
  BY <1>1, <1>6, Layers, FitsFrame, SMTT(30) DEF TypeOK
<1> QED  BY <1>1, <1>2, <1>3, <1>4, <1>5, <1>7

(* The last operation under way starts the commit. *)
LEMMA LastEndIInv ==
  ASSUME IInv, NEW t \in Threads, EndOp(t), outstanding = 1
  PROVE  IInv'
<1>1. /\ mode = "run" /\ ~committing /\ committing' = TRUE
      /\ pc'[t] = IF lh = <<>> THEN "commit_end" ELSE "write_log"
      /\ \A u \in Threads : u # t => pc'[u] = pc[u]
      /\ UNCHANGED <<diskVars, bufVars, lh, mode, tail>>
  BY Layers DEF EndOp, TypeOK
<1>2. Active' = {}
  <2>1. Cardinality(Active) = 1 /\ t \in Active
    BY EndFrame, Layers DEF AloneInv
  <2>2. Active = {t}
    BY <2>1, ReservedFinite, FS_Singleton, SMTT(30)
  <2> QED  BY <2>2, EndFrame
<1>3. \A u \in Threads : u # t => pc'[u] \notin CommitLabels
  BY <1>1, NoCommitter
<1>4. AloneInv'
  <2>1. Committers' = {t}
    BY <1>1, <1>3 DEF Committers, CommitLabels
  <2> QED  BY <1>1, <1>2, <2>1, EndFrame DEF AloneInv
<1>5. tail = 1 /\ head = <<>> /\ \A b \in Blocks : pins[b] = IF InLog(b) THEN 1 ELSE 0
  BY <1>1, NoCommitState
<1>6. /\ ~Within(Committed)' /\ ~Within({"write_head"})' /\ ~Within({"install"})' /\ ~Within({"erase"})'
      /\ ~Within({"write_head", "install", "erase"})'
      /\ Within({"commit_end"})' => lh = <<>>
      /\ Within(Loops)' => lh # <<>>
  BY <1>1, <1>3 DEF Within, CommitLabels, Committed, Loops
<1>7. HeaderInv'
  <2>1. lh # <<>> => Len(lh) >= 1 /\ Len(lh) \in Nat
    BY Layers, SMTT(30) DEF TypeOK
  <2> QED  BY <1>1, <1>5, <1>6, <2>1, Layers, SMTT(30) DEF HeaderInv, NoDup
<1>8. PinInv'
  <2>1. \A b \in Blocks : Pinned(b)' <=> InLog(b)
    BY <1>1, <1>6 DEF Pinned, InLog
  <2> QED  BY <1>1, <1>5, <2>1, Layers DEF PinInv, DirtyPinned
<1>9. CopyInv'
  BY <1>1, <1>5, <1>6, SMTT(30) DEF CopyInv, Logged
<1> QED  BY <1>4, <1>7, <1>8, <1>9, EndFrame DEF IInv

(* Another operation is under way: end_op() wakes whoever waits for room. *)
LEMMA OtherEndIInv ==
  ASSUME IInv, NEW t \in Threads, EndOp(t), outstanding # 1
  PROVE  IInv'
<1>1. /\ pc[t] = "op" /\ pc'[t] = "idle" /\ committing' = committing
      /\ \A u \in Threads : u # t => \/ pc'[u] = pc[u]
                                     \/ pc[u] = "sleep" /\ pc'[u] = "begin"
  BY Layers DEF EndOp, TypeOK, GotoAndWake
<1>2. HeaderInv' /\ PinInv' /\ CopyInv' /\ Committers' = Committers
  BY <1>1, EndFrame, QuietFrame DEF QuietMove, CommitLabels
<1>3. AloneInv'
  BY <1>1, <1>2, EndFrame, Layers DEF AloneInv
<1> QED  BY <1>2, <1>3, EndFrame DEF IInv

-----------------------------------------------------------------------------
(* commit() *)

(* Where the committer is says where commit() is. *)
LEMMA WithinCommit ==
  ASSUME IInv, NEW t \in Threads, pc[t] \in CommitLabels
  PROVE  \A labels \in SUBSET CommitLabels : Within(labels) <=> pc[t] \in labels
BY OneCommitter, SMTT(30) DEF Within, CommitLabels

(* A step of the committer within commit(). *)
CommitMove(t) ==
  /\ pc[t] \in CommitLabels /\ pc'[t] \in CommitLabels
  /\ pc' \in [Threads -> Labels] /\ \A u \in Threads : u # t => pc'[u] = pc[u]
  /\ UNCHANGED <<outstanding, committing, mode, wrote, bounds>>
  /\ lh' \in {lh, <<>>}

(* Such a step keeps what the invariant says of operations and reservations. *)
LEMMA CommitFrame ==
  ASSUME IInv, NEW t \in Threads, CommitMove(t)
  PROVE  /\ AloneInv' /\ WroteInv' /\ LogFits'
         /\ \A labels \in SUBSET CommitLabels : Within(labels)' <=> pc'[t] \in labels
<1>1. /\ mode = "run" /\ Active = {} /\ Active' = {}
      /\ \A u \in Threads : u # t => pc'[u] \in {"idle", "begin", "sleep"}
      /\ \A u \in Threads : wrote'[u] = {}
  BY OneCommitter DEF CommitMove, Active, CommitLabels
<1>2. Committers' = {t} /\ Committers = {t}
  BY <1>1, OneCommitter DEF Committers, CommitMove, CommitLabels
<1>3. AloneInv'
  BY <1>1, <1>2, Layers DEF AloneInv, CommitMove
<1>4. WroteInv'
  BY <1>1, FS_EmptySet, LogAssumption, SMTT(30) DEF WroteInv
<1>5. LogFits'
  <2>1. Len(lh') <= Len(lh) /\ lh' \in Seq(Blocks)
    <3>1. lh \in Seq(Blocks) /\ Len(lh) \in Nat /\ Len(<<>>) = 0 /\ <<>> \in Seq(Blocks)
      BY Layers, SMTT(30) DEF TypeOK
    <3>2. CASE lh' = lh
      BY <3>1, <3>2, SMTT(30)
    <3>3. CASE lh' = <<>>
      BY <3>1, <3>3, SMTT(30)
    <3> QED  BY <3>2, <3>3 DEF CommitMove
  <2>2. Reserved' \subseteq Reserved
    BY <1>1 DEF Reserved
  <2> QED  BY <1>1, <2>1, <2>2, FitsFrame
<1>6. \A labels \in SUBSET CommitLabels : Within(labels)' <=> pc'[t] \in labels
  BY <1>1 DEF Within, CommitMove, CommitLabels
<1> QED  BY <1>3, <1>4, <1>5, <1>6

(* While a thread commits, what the invariant says depends on its label alone. *)
LEMMA CommitState ==
  ASSUME IInv, NEW t \in Threads, pc[t] \in CommitLabels
  PROVE  /\ mode = "run"
         /\ IF pc[t] \in Loops THEN tail \in 1..Len(lh) ELSE tail = 1
         /\ pc[t] = "write_head" => lh # <<>>
         /\ pc[t] = "commit_end" => lh = <<>>
         /\ head = IF pc[t] \in Committed THEN lh ELSE <<>>
         /\ pc[t] = "write_log" => Logged(tail - 1)
         /\ pc[t] \in {"write_head", "install", "erase"} => Logged(Len(lh))
         /\ pc[t] = "install" => Installed(tail - 1)
         /\ pc[t] = "erase" => Installed(Len(lh))
         /\ \A b \in Blocks : Pinned(b) <=>
              \E i \in 1..Len(lh) : lh[i] = b /\ pc[t] # "erase" /\ (pc[t] = "install" => i >= tail)
<1>1. mode = "run"
  BY OneCommitter
<1>2. /\ Within(Loops) <=> pc[t] \in Loops
      /\ Within(Committed) <=> pc[t] \in Committed
      /\ Within({"write_log"}) <=> pc[t] = "write_log"
      /\ Within({"write_head"}) <=> pc[t] = "write_head"
      /\ Within({"install"}) <=> pc[t] = "install"
      /\ Within({"erase"}) <=> pc[t] = "erase"
      /\ Within({"commit_end"}) <=> pc[t] = "commit_end"
      /\ Within({"write_head", "install", "erase"}) <=> pc[t] \in {"write_head", "install", "erase"}
  <2>1. /\ Loops \in SUBSET CommitLabels /\ Committed \in SUBSET CommitLabels
        /\ {"write_log"} \in SUBSET CommitLabels /\ {"write_head"} \in SUBSET CommitLabels
        /\ {"install"} \in SUBSET CommitLabels /\ {"erase"} \in SUBSET CommitLabels
        /\ {"commit_end"} \in SUBSET CommitLabels
        /\ {"write_head", "install", "erase"} \in SUBSET CommitLabels
    BY DEF Loops, Committed, CommitLabels
  <2> QED  BY <2>1, WithinCommit
<1>3. /\ IF pc[t] \in Loops THEN tail \in 1..Len(lh) ELSE tail = 1
      /\ pc[t] = "write_head" => lh # <<>>
      /\ pc[t] = "commit_end" => lh = <<>>
      /\ head = IF pc[t] \in Committed THEN lh ELSE <<>>
  BY <1>1, <1>2, Layers DEF HeaderInv
<1>4. /\ pc[t] = "write_log" => Logged(tail - 1)
      /\ pc[t] \in {"write_head", "install", "erase"} => Logged(Len(lh))
      /\ pc[t] = "install" => Installed(tail - 1)
      /\ pc[t] = "erase" => Installed(Len(lh))
  BY <1>2, Layers DEF CopyInv
<1>5. \A b \in Blocks : Pinned(b) <=>
        \E i \in 1..Len(lh) : lh[i] = b /\ pc[t] # "erase" /\ (pc[t] = "install" => i >= tail)
  BY <1>1, <1>2 DEF Pinned
<1> QED  BY <1>1, <1>3, <1>4, <1>5

(* The same for the state after the step: what a step within commit() has to show. *)
LEMMA CommitShow ==
  ASSUME IInv, NEW t \in Threads, CommitMove(t), TypeOK', NoDup(lh'), NoDup(head'),
         IF pc'[t] \in Loops THEN tail' \in 1..Len(lh') ELSE tail' = 1,
         pc'[t] = "write_head" => lh' # <<>>,
         pc'[t] = "commit_end" => lh' = <<>>,
         head' = IF pc'[t] \in Committed THEN lh' ELSE <<>>,
         pc'[t] = "write_log" => Logged(tail - 1)',
         pc'[t] \in {"write_head", "install", "erase"} => Logged(Len(lh))',
         pc'[t] = "install" => Installed(tail - 1)',
         pc'[t] = "erase" => Installed(Len(lh))',
         DirtyPinned',
         \A b \in Blocks : pins'[b] =
           IF \E i \in 1..Len(lh') : /\ lh'[i] = b /\ pc'[t] # "erase"
                                     /\ pc'[t] = "install" => i >= tail'
           THEN 1 ELSE 0
  PROVE  IInv'
<1>1. mode' = "run"
  BY OneCommitter DEF CommitMove
<1>2. /\ Within(Loops)' <=> pc'[t] \in Loops
      /\ Within(Committed)' <=> pc'[t] \in Committed
      /\ Within({"write_log"})' <=> pc'[t] = "write_log"
      /\ Within({"write_head"})' <=> pc'[t] = "write_head"
      /\ Within({"install"})' <=> pc'[t] = "install"
      /\ Within({"erase"})' <=> pc'[t] = "erase"
      /\ Within({"commit_end"})' <=> pc'[t] = "commit_end"
      /\ Within({"write_head", "install", "erase"})' <=> pc'[t] \in {"write_head", "install", "erase"}
  <2>1. /\ Loops \in SUBSET CommitLabels /\ Committed \in SUBSET CommitLabels
        /\ {"write_log"} \in SUBSET CommitLabels /\ {"write_head"} \in SUBSET CommitLabels
        /\ {"install"} \in SUBSET CommitLabels /\ {"erase"} \in SUBSET CommitLabels
        /\ {"commit_end"} \in SUBSET CommitLabels
        /\ {"write_head", "install", "erase"} \in SUBSET CommitLabels
    BY DEF Loops, Committed, CommitLabels
  <2>2. \A labels \in SUBSET CommitLabels : Within(labels)' <=> pc'[t] \in labels
    BY CommitFrame
  <2> QED  BY <2>1, <2>2 DEF Within, Loops, Committed
<1>3. HeaderInv'
  BY <1>1, <1>2 DEF HeaderInv
<1>4. PinInv'
  BY <1>1, <1>2 DEF PinInv, Pinned
<1>5. CopyInv'
  BY <1>1, <1>2 DEF CopyInv
<1> QED  BY <1>3, <1>4, <1>5, CommitFrame DEF IInv

(* write_log() copies a block of the transaction to the log, and reads it alone. *)
LEMMA WriteLogIInv ==
  ASSUME IInv, NEW t \in Threads, WriteLog(t)
  PROVE  /\ IInv' /\ UNCHANGED <<home, head, mode>> /\ head = <<>> /\ Active' = Active
         /\ \A b \in Blocks : Content(b)' = Content(b)
<1> DEFINE b == lh[tail]
<1>1. /\ pc[t] = "write_log" /\ pc[t] \in CommitLabels
      /\ slot' = [slot EXCEPT ![tail] = Content(b)] /\ cache' = Buffer(b, Content(b))
      /\ pc'[t] = IF tail = Len(lh) THEN "write_head" ELSE "write_log"
      /\ tail' = IF tail = Len(lh) THEN 1 ELSE tail + 1
      /\ UNCHANGED <<home, head, pins, logVars, mode, wrote, bounds>>
  BY Layers DEF WriteLog, TypeOK, CommitLabels
<1>2. CommitMove(t)
  <2>1. pc' \in [Threads -> Labels] /\ \A u \in Threads : u # t => pc'[u] = pc[u]
    BY Layers DEF WriteLog, TypeOK, Labels
  <2> QED  BY <1>1, <2>1 DEF CommitMove, CommitLabels
<1>3. /\ tail \in 1..Len(lh) /\ head = <<>> /\ Logged(tail - 1)
      /\ lh \in Seq(Blocks) /\ Len(lh) \in Nat /\ Len(lh) < LogBlocks
      /\ slot \in [1..(LogBlocks - 1) -> Vals]
  BY <1>1, CommitState, Layers, SMTT(30) DEF Loops, Committed, TypeOK
<1>4. b \in Blocks /\ tail \in 1..(LogBlocks - 1) /\ Content(b) \in Vals
  BY <1>3, Layers, LogAssumption, SMTT(30) DEF TypeOK, Content
<1>5. \A x \in Blocks : Content(x)' = Content(x)
  BY <1>1, <1>4 DEF Content, Buffer
<1>6. TypeOK'
  <2>1. tail' \in 1..LogBlocks
    BY <1>1, <1>3, LogAssumption, SMTT(30)
  <2>2. DOMAIN cache' \subseteq Blocks /\ \A x \in DOMAIN cache' : cache'[x] \in Vals
    BY <1>1, <1>4, Layers DEF TypeOK, Buffer
  <2>3. slot' \in [1..(LogBlocks - 1) -> Vals]
    BY <1>1, <1>3, <1>4
  <2> QED  BY <1>1, <1>2, <2>1, <2>2, <2>3, Layers DEF TypeOK, CommitMove
<1>7. \A i \in 1..tail : slot'[i] = Content(lh[i])'
  <2> SUFFICES ASSUME NEW i \in 1..tail
               PROVE  slot'[i] = Content(lh[i])'
    OBVIOUS
  <2>1. lh[i] \in Blocks /\ i \in 1..(LogBlocks - 1)
    BY <1>3, LogAssumption, SMTT(30)
  <2>2. CASE i = tail
    BY <1>1, <1>3, <1>4, <1>5, <2>2
  <2>3. CASE i # tail
    <3>1. slot[i] = Content(lh[i])
      BY <1>3, <2>3, SMTT(30) DEF Logged
    <3>2. slot'[i] = slot[i]
      BY <1>1, <1>3, <2>1, <2>3
    <3> QED  BY <1>1, <1>5, <2>1, <3>1, <3>2 DEF Content
  <2> QED  BY <2>2, <2>3
<1>8. pc'[t] = "write_log" => Logged(tail - 1)'
  BY <1>1, <1>3, <1>7, SMTT(30) DEF Logged, Content
<1>9. pc'[t] = "write_head" => Logged(Len(lh))'
  BY <1>1, <1>3, <1>7 DEF Logged, Content
<1>10. DirtyPinned'
  BY <1>1, <1>4, Layers DEF PinInv, DirtyPinned, Buffer, Content
<1>11. /\ IF pc'[t] \in Loops THEN tail' \in 1..Len(lh') ELSE tail' = 1
       /\ lh' # <<>> /\ head' = <<>> /\ pc'[t] \notin Committed
  BY <1>1, <1>3, SMTT(30) DEF Loops, Committed
<1>12. \A x \in Blocks : pins'[x] =
           IF \E i \in 1..Len(lh') : /\ lh'[i] = x /\ pc'[t] # "erase"
                                     /\ pc'[t] = "install" => i >= tail'
           THEN 1 ELSE 0
  <2>1. \A x \in Blocks : Pinned(x) <=> \E i \in 1..Len(lh) : lh[i] = x
    BY <1>1, CommitState
  <2> QED  BY <1>1, <2>1, Layers DEF PinInv
<1>13. NoDup(lh') /\ NoDup(head')
  BY <1>1, Layers DEF HeaderInv, NoDup
<1>14. IInv'
  BY <1>1, <1>2, <1>6, <1>8, <1>9, <1>10, <1>11, <1>12, <1>13, CommitShow DEF Committed
<1>15. Active' = Active
  BY <1>1, <1>2, OneCommitter DEF Active, CommitMove
<1> QED  BY <1>1, <1>3, <1>5, <1>14, <1>15

(* write_head() makes the transaction durable: what recovery would install is *)
(* then what the file system sees.                                            *)
LEMMA WriteHeadIInv ==
  ASSUME IInv, NEW t \in Threads, WriteHead(t)
  PROVE  /\ IInv' /\ UNCHANGED <<home, slot, cache, mode>> /\ head' = lh
         /\ Logged(Len(lh)) /\ Active' = {} /\ Active = {} /\ mode = "run"
         /\ \A b \in Blocks : ~InLog(b) => pins[b] = 0
<1>1. /\ pc[t] = "write_head" /\ pc[t] \in CommitLabels /\ pc'[t] = "install" /\ head' = lh
      /\ UNCHANGED <<home, slot, bufVars, logVars, mode, tail, wrote, bounds>>
  BY Layers DEF WriteHead, TypeOK, CommitLabels
<1>2. CommitMove(t)
  BY Layers, <1>1 DEF WriteHead, TypeOK, Labels, CommitMove, CommitLabels
<1>3. /\ tail = 1 /\ lh # <<>> /\ Logged(Len(lh)) /\ mode = "run"
      /\ lh \in Seq(Blocks) /\ Len(lh) \in Nat /\ Len(lh) < LogBlocks /\ NoDup(lh)
  BY <1>1, CommitState, Layers, SMTT(30) DEF Loops, TypeOK, HeaderInv
<1>4. TypeOK'
  BY <1>1, <1>2, <1>3, Layers DEF TypeOK, CommitMove
<1>5. Logged(Len(lh))' /\ Installed(tail - 1)'
  BY <1>1, <1>3, SMTT(30) DEF Logged, Installed, Content
<1>6. DirtyPinned'
  BY <1>1, Layers DEF PinInv, DirtyPinned
<1>7. \A x \in Blocks : pins[x] = IF \E i \in 1..Len(lh) : lh[i] = x THEN 1 ELSE 0
  <2>1. \A x \in Blocks : Pinned(x) <=> \E i \in 1..Len(lh) : lh[i] = x
    BY <1>1, CommitState
  <2> QED  BY <2>1, Layers DEF PinInv
<1>8. tail' \in 1..Len(lh') /\ pc'[t] \in Loops /\ pc'[t] \in Committed /\ NoDup(lh') /\ NoDup(head')
  BY <1>1, <1>3, SMTT(30) DEF Loops, Committed, NoDup
<1>9. \A x \in Blocks : pins'[x] =
           IF \E i \in 1..Len(lh') : /\ lh'[i] = x /\ pc'[t] # "erase"
                                     /\ pc'[t] = "install" => i >= tail'
           THEN 1 ELSE 0
  BY <1>1, <1>3, <1>7, SMTT(30)
<1>10. IInv'
  BY <1>1, <1>2, <1>4, <1>5, <1>6, <1>8, <1>9, CommitShow
<1>11. Active' = {} /\ Active = {}
  BY <1>1, <1>2, OneCommitter DEF Active, CommitMove
<1> QED  BY <1>1, <1>3, <1>7, <1>10, <1>11 DEF InLog

(* install_trans() copies a block from the log to its home and unpins it. *)
LEMMA InstallIInv ==
  ASSUME IInv, NEW t \in Threads, Install(t)
  PROVE  /\ IInv' /\ UNCHANGED <<slot, head, mode, lh>> /\ head = lh /\ Active' = Active
         /\ tail \in 1..Len(lh) /\ home' = [home EXCEPT ![lh[tail]] = slot[tail]]
         /\ \A b \in Blocks : Content(b)' = Content(b)
<1> DEFINE b == lh[tail]
<1>1. /\ pc[t] = "install" /\ pc[t] \in CommitLabels
      /\ home' = [home EXCEPT ![b] = slot[tail]] /\ cache' = Buffer(b, slot[tail])
      /\ pins' = [pins EXCEPT ![b] = @ - 1]
      /\ pc'[t] = IF tail = Len(lh) THEN "erase" ELSE "install"
      /\ tail' = IF tail = Len(lh) THEN 1 ELSE tail + 1
      /\ UNCHANGED <<slot, head, logVars, mode, wrote, bounds>>
  BY Layers DEF Install, TypeOK, CommitLabels
<1>2. CommitMove(t)
  <2>1. pc' \in [Threads -> Labels] /\ \A u \in Threads : u # t => pc'[u] = pc[u]
    BY Layers DEF Install, TypeOK, Labels
  <2> QED  BY <1>1, <2>1 DEF CommitMove, CommitLabels
<1>3. /\ tail \in 1..Len(lh) /\ head = lh /\ Logged(Len(lh)) /\ Installed(tail - 1)
      /\ lh \in Seq(Blocks) /\ Len(lh) \in Nat /\ Len(lh) < LogBlocks /\ NoDup(lh)
      /\ slot \in [1..(LogBlocks - 1) -> Vals] /\ home \in [Blocks -> Vals]
      /\ pins \in [Blocks -> 0..1]
  BY <1>1, CommitState, Layers, SMTT(30) DEF Loops, Committed, TypeOK, HeaderInv
<1>4. b \in Blocks /\ slot[tail] \in Vals /\ slot[tail] = Content(b)
  BY <1>3, LogAssumption, SMTT(30) DEF Logged
<1>5. \A x \in Blocks : Content(x)' = Content(x)
  BY <1>1, <1>3, <1>4 DEF Content, Buffer
<1>6. \A x \in Blocks : pins[x] = IF \E i \in 1..Len(lh) : lh[i] = x /\ i >= tail THEN 1 ELSE 0
  <2>1. \A x \in Blocks : Pinned(x) <=> \E i \in 1..Len(lh) : lh[i] = x /\ i >= tail
    BY <1>1, CommitState
  <2> QED  BY <2>1, Layers DEF PinInv
<1>7. \A x \in Blocks : pins'[x] = IF \E i \in 1..Len(lh) : lh[i] = x /\ i >= tail + 1 THEN 1 ELSE 0
  BY <1>1, <1>3, <1>4, <1>6, SMTT(30) DEF NoDup
<1>8. TypeOK'
  <2>1. tail' \in 1..LogBlocks
    BY <1>1, <1>3, LogAssumption, SMTT(30)
  <2>2. DOMAIN cache' \subseteq Blocks /\ \A x \in DOMAIN cache' : cache'[x] \in Vals
    BY <1>1, <1>4, Layers DEF TypeOK, Buffer
  <2>3. home' \in [Blocks -> Vals]
    BY <1>1, <1>3, <1>4
  <2>4. pins' \in [Blocks -> 0..1]
    BY <1>1, <1>3, <1>7, SMTT(30)
  <2> QED  BY <1>1, <1>2, <2>1, <2>2, <2>3, <2>4, Layers DEF TypeOK, CommitMove
<1>9. Logged(Len(lh))'
  BY <1>1, <1>3, <1>5, SMTT(30) DEF Logged
<1>10. \A i \in 1..tail : home'[lh[i]] = slot[i]
  BY <1>1, <1>3, <1>4, SMTT(30) DEF Installed, NoDup
<1>11. /\ pc'[t] = "install" => Installed(tail - 1)'
       /\ pc'[t] = "erase" => Installed(Len(lh))'
  BY <1>1, <1>3, <1>10, SMTT(30) DEF Installed
<1>12. DirtyPinned'
  BY <1>1, <1>3, <1>4, Layers DEF PinInv, DirtyPinned, Buffer, TypeOK
<1>13. /\ IF pc'[t] \in Loops THEN tail' \in 1..Len(lh') ELSE tail' = 1
       /\ head' = lh' /\ pc'[t] \in Committed /\ NoDup(lh') /\ NoDup(head')
  BY <1>1, <1>3, SMTT(30) DEF Loops, Committed, NoDup
<1>14. \A x \in Blocks : pins'[x] =
           IF \E i \in 1..Len(lh') : /\ lh'[i] = x /\ pc'[t] # "erase"
                                     /\ pc'[t] = "install" => i >= tail'
           THEN 1 ELSE 0
  BY <1>1, <1>3, <1>7, SMTT(30)
<1>15. IInv'
  BY <1>1, <1>2, <1>8, <1>9, <1>11, <1>12, <1>13, <1>14, CommitShow
<1>16. Active' = Active
  BY <1>1, <1>2, OneCommitter DEF Active, CommitMove
<1> QED  BY <1>1, <1>3, <1>5, <1>15, <1>16

(* The header is cleared once every block of the transaction is at home. *)
LEMMA EraseIInv ==
  ASSUME IInv, NEW t \in Threads, Erase(t)
  PROVE  /\ IInv' /\ UNCHANGED <<home, slot, cache, mode>> /\ head' = <<>> /\ head = lh
         /\ Installed(Len(lh)) /\ Active' = Active
<1>1. /\ pc[t] = "erase" /\ pc[t] \in CommitLabels /\ pc'[t] = "commit_end"
      /\ head' = <<>> /\ lh' = <<>>
      /\ UNCHANGED <<home, slot, bufVars, outstanding, committing, mode, tail, wrote, bounds>>
  BY Layers DEF Erase, TypeOK, CommitLabels
<1>2. CommitMove(t)
  <2>1. pc' \in [Threads -> Labels] /\ \A u \in Threads : u # t => pc'[u] = pc[u]
    BY Layers DEF Erase, TypeOK, Labels
  <2> QED  BY <1>1, <2>1 DEF CommitMove, CommitLabels
<1>3. tail = 1 /\ Installed(Len(lh)) /\ head = lh
  BY <1>1, CommitState DEF Loops, Committed
<1>4. TypeOK'
  <2>1. lh' \in Seq(Blocks) /\ head' \in Seq(Blocks) /\ Len(lh') < LogBlocks /\ Len(head') < LogBlocks
    BY <1>1, LogAssumption, SMTT(30)
  <2> QED  BY <1>1, <1>2, <2>1, Layers DEF TypeOK, CommitMove
<1>5. \A x \in Blocks : pins[x] = 0
  <2>1. \A x \in Blocks : ~Pinned(x)
    BY <1>1, CommitState
  <2> QED  BY <2>1, Layers DEF PinInv
<1>6. \A x \in Blocks : pins'[x] =
           IF \E i \in 1..Len(lh') : /\ lh'[i] = x /\ pc'[t] # "erase"
                                     /\ pc'[t] = "install" => i >= tail'
           THEN 1 ELSE 0
  BY <1>1, <1>5, SMTT(30)
<1>7. DirtyPinned' /\ NoDup(lh') /\ NoDup(head')
  BY <1>1, Layers, SMTT(30) DEF PinInv, DirtyPinned, NoDup
<1>8. tail' = 1 /\ pc'[t] \notin Loops /\ pc'[t] \notin Committed
  BY <1>1, <1>3 DEF Loops, Committed
<1>9. IInv'
  BY <1>1, <1>2, <1>4, <1>6, <1>7, <1>8, CommitShow
<1>10. Active' = Active
  BY <1>1, <1>2, OneCommitter DEF Active, CommitMove
<1> QED  BY <1>1, <1>3, <1>9, <1>10

(* The end of the commit leaves an empty transaction behind. *)
LEMMA CommitEndIInv ==
  ASSUME IInv, NEW t \in Threads, CommitEnd(t)
  PROVE  IInv' /\ Active' = Active
<1>1. /\ pc[t] = "commit_end" /\ pc[t] \in CommitLabels /\ pc'[t] = "idle" /\ committing' = FALSE
      /\ \A u \in Threads : u # t => \/ pc'[u] = pc[u]
                                     \/ pc[u] = "sleep" /\ pc'[u] = "begin"
      /\ UNCHANGED <<diskVars, bufVars, outstanding, lh, mode, tail, wrote, bounds>>
  BY Layers DEF CommitEnd, GotoAndWake, TypeOK, CommitLabels
<1>2. /\ mode = "run" /\ Active = {} /\ outstanding = 0 /\ \A u \in Threads : wrote[u] = {}
      /\ \A u \in Threads : pc'[u] \in {"idle", "begin", "sleep"}
  BY <1>1, OneCommitter
<1>3. tail = 1 /\ lh = <<>> /\ head = <<>>
  BY <1>1, CommitState DEF Loops, Committed
<1>4. \A x \in Blocks : pins[x] = 0
  <2>1. \A x \in Blocks : ~Pinned(x)
    BY <1>3, SMTT(30) DEF Pinned
  <2> QED  BY <2>1, Layers DEF PinInv
<1>5. TypeOK'
  <2>1. pc' \in [Threads -> Labels]
    BY Layers DEF CommitEnd, GotoAndWake, TypeOK, Labels
  <2> QED  BY <1>1, <2>1, Layers DEF TypeOK
<1>6. /\ Active' = {} /\ Committers' = {}
      /\ \A labels \in SUBSET CommitLabels : ~Within(labels)'
  BY <1>2 DEF Active, Committers, CommitLabels, Within
<1>7. AloneInv'
  BY <1>1, <1>2, <1>6, Layers, FS_EmptySet DEF AloneInv
<1>8. WroteInv'
  BY <1>1, <1>2, FS_EmptySet, LogAssumption, SMTT(30) DEF WroteInv
<1>9. LogFits'
  <2>1. Reserved' \subseteq Reserved
    BY <1>6 DEF Reserved
  <2> QED  BY <1>1, <1>2, <2>1, Layers, FitsFrame, SMTT(30) DEF TypeOK
<1>10. /\ ~Within(Loops)' /\ ~Within(Committed)' /\ ~Within({"write_log"})'
       /\ ~Within({"write_head"})' /\ ~Within({"install"})' /\ ~Within({"erase"})'
       /\ ~Within({"commit_end"})' /\ ~Within({"write_head", "install", "erase"})'
  BY <1>6 DEF Loops, Committed, CommitLabels
<1>11. HeaderInv'
  BY <1>1, <1>2, <1>3, <1>10, Layers, SMTT(30) DEF HeaderInv, NoDup
<1>12. PinInv'
  BY <1>1, <1>3, <1>4, Layers, SMTT(30) DEF PinInv, DirtyPinned, Pinned
<1>13. CopyInv'
  BY <1>1, <1>2, <1>10 DEF CopyInv
<1> QED  BY <1>2, <1>5, <1>6, <1>7, <1>8, <1>9, <1>11, <1>12, <1>13 DEF IInv

-----------------------------------------------------------------------------
(* Recycled buffers, crashes and recovery *)

(* bget() recycles only buffers that equal their home blocks. *)
LEMMA EvictIInv ==
  ASSUME IInv, NEW b \in Blocks, Evict(b)
  PROVE  /\ IInv' /\ UNCHANGED <<diskVars, mode, pc>>
         /\ \A x \in Blocks : Content(x)' = Content(x)
<1>1. /\ mode = "run" /\ b \in DOMAIN cache /\ pins[b] = 0
      /\ cache' = [x \in DOMAIN cache \ {b} |-> cache[x]]
      /\ UNCHANGED <<diskVars, pins, logVars, mode, pc, tail, wrote, bounds>>
  BY DEF Evict
<1>2. cache[b] = home[b]
  BY <1>1, Layers, SMTT(30) DEF PinInv, DirtyPinned
<1>3. \A x \in Blocks : Content(x)' = Content(x)
  BY <1>1, <1>2 DEF Content
<1>4. TypeOK'
  BY <1>1, Layers DEF TypeOK
<1>5. AloneInv' /\ WroteInv' /\ LogFits'
  BY <1>1, Layers DEF AloneInv, Active, Committers, WroteInv, InLog, LogFits, Reserved
<1>6. HeaderInv'
  BY <1>1, Layers, SMTT(30) DEF HeaderInv, NoDup, Within
<1>7. PinInv'
  BY <1>1, Layers DEF PinInv, Pinned, Within, DirtyPinned
<1>8. CopyInv'
  <2>1. \A i \in 1..Len(lh) : lh[i] \in Blocks
    BY Layers, SMTT(30) DEF TypeOK
  <2>2. tail \in Nat /\ Len(lh) \in Nat /\ (Within({"write_log"}) => tail \in 1..Len(lh))
    BY Layers, SMTT(30) DEF TypeOK, HeaderInv, Within, Loops
  <2>3. Within({"write_log"}) => Logged(tail - 1)'
    BY <1>1, <1>3, <2>1, <2>2, Layers, SMTT(30) DEF CopyInv, Logged
  <2>4. Within({"write_head", "install", "erase"}) => Logged(Len(lh))'
    BY <1>1, <1>3, <2>1, <2>2, Layers DEF CopyInv, Logged
  <2> QED  BY <1>1, <2>3, <2>4, Layers DEF CopyInv, Within, Installed
<1> QED  BY <1>1, <1>3, <1>4, <1>5, <1>6, <1>7, <1>8 DEF IInv

(* With no thread in the log, the invariant is about the disk and the recovery alone. *)
LEMMA IdleShow ==
  ASSUME TypeOK', NoDup(lh'), NoDup(head'), pc' = [t \in Threads |-> "idle"],
         outstanding' = 0, committing' = FALSE, wrote' = [t \in Threads |-> {}],
         pins' = [b \in Blocks |-> 0],
         \A b \in DOMAIN cache' : cache'[b] = home'[b],
         IF mode' = "install" THEN tail' \in 1..Len(lh') ELSE tail' = 1,
         mode' \in {"read_head", "run"} => lh' = <<>>,
         mode' \in {"install", "erase"} => head' = lh',
         mode' = "run" => head' = <<>>,
         mode' = "install" => Installed(tail - 1)',
         mode' = "erase" => Installed(Len(lh))'
  PROVE  IInv'
<1>1. /\ Active' = {} /\ Committers' = {} /\ \A labels \in SUBSET CommitLabels : ~Within(labels)'
      /\ \A t \in Threads : wrote'[t] = {} /\ pc'[t] = "idle"
  BY DEF Active, Committers, CommitLabels, Within
<1>2. AloneInv'
  BY <1>1, FS_EmptySet DEF AloneInv
<1>3. WroteInv'
  BY <1>1, FS_EmptySet, LogAssumption, SMTT(30) DEF WroteInv
<1>4. LogFits'
  <2>1. Reserved' = {}
    BY <1>1 DEF Reserved
  <2>2. mode' = "run" => Len(lh') = 0
    BY SMTT(30)
  <2> QED  BY <2>1, <2>2, FS_EmptySet, LogAssumption, SMTT(30) DEF LogFits
<1>5. /\ ~Within(Loops)' /\ ~Within(Committed)' /\ ~Within({"write_log"})'
      /\ ~Within({"write_head"})' /\ ~Within({"install"})' /\ ~Within({"erase"})'
      /\ ~Within({"commit_end"})' /\ ~Within({"write_head", "install", "erase"})'
  BY <1>1 DEF Loops, Committed, CommitLabels
<1>6. HeaderInv'
  BY <1>5 DEF HeaderInv
<1>7. PinInv'
  <2>1. \A b \in Blocks : ~Pinned(b)'
    BY SMTT(30) DEF Pinned
  <2> QED  BY <2>1 DEF PinInv, DirtyPinned
<1>8. CopyInv'
  BY <1>5 DEF CopyInv
<1> QED  BY <1>2, <1>3, <1>4, <1>6, <1>7, <1>8 DEF IInv

(* What the invariant says during recovery. *)
LEMMA RecoveryState ==
  ASSUME IInv, mode # "run"
  PROVE  /\ pc = [t \in Threads |-> "idle"] /\ wrote = [t \in Threads |-> {}]
         /\ outstanding = 0 /\ committing = FALSE /\ pins = [b \in Blocks |-> 0] /\ Active = {}
         /\ \A b \in DOMAIN cache : cache[b] = home[b]
         /\ IF mode = "install" THEN tail \in 1..Len(lh) ELSE tail = 1
         /\ mode \in {"install", "erase"} => head = lh
         /\ mode = "install" => Installed(tail - 1)
         /\ mode = "erase" => Installed(Len(lh))
<1>1. \A t \in Threads : pc[t] = "idle"
  BY Layers DEF AloneInv
<1>2. Active = {} /\ Committers = {}
  BY <1>1 DEF Active, Committers, CommitLabels
<1>3. outstanding = 0 /\ committing = FALSE
  BY <1>2, Layers, FS_EmptySet DEF AloneInv, TypeOK
<1>4. pc = [t \in Threads |-> "idle"] /\ wrote = [t \in Threads |-> {}]
  BY <1>1, <1>2, Layers DEF TypeOK, WroteInv
<1>5. \A b \in Blocks : pins[b] = 0
  BY Layers DEF PinInv, Pinned
<1>6. pins = [b \in Blocks |-> 0]
  BY <1>5, Layers DEF TypeOK
<1>7. \A b \in DOMAIN cache : cache[b] = home[b]
  BY <1>5, Layers, SMTT(30) DEF TypeOK, PinInv, DirtyPinned
<1>8. ~Within(Loops) /\ ~Within({"install"}) /\ ~Within({"erase"})
  BY <1>1 DEF Within, Loops
<1> QED  BY <1>2, <1>3, <1>4, <1>6, <1>7, <1>8, Layers DEF HeaderInv, CopyInv

(* A crash keeps the disk, and the disk alone. *)
LEMMA CrashIInv ==
  ASSUME IInv, Crash
  PROVE  IInv' /\ UNCHANGED diskVars /\ mode' = "read_head" /\ Active' = {}
<1>1. /\ crashes' \in 0..MaxCrashes /\ UNCHANGED <<diskVars, ops>>
      /\ DOMAIN cache' = {} /\ pins' = [b \in Blocks |-> 0]
      /\ outstanding' = 0 /\ committing' = FALSE /\ lh' = <<>> /\ mode' = "read_head"
      /\ pc' = [t \in Threads |-> "idle"] /\ tail' = 1 /\ wrote' = [t \in Threads |-> {}]
  BY Layers, LogAssumption, SMTT(30) DEF Crash, TypeOK
<1>2. TypeOK'
  <2>1. 0 \in 0..Cardinality(Threads)
    BY LogAssumption, FS_CardinalityType, SMTT(30)
  <2>2. lh' \in Seq(Blocks) /\ Len(lh') < LogBlocks /\ tail' \in 1..LogBlocks
    BY <1>1, LogAssumption, SMTT(30)
  <2>3. pc' \in [Threads -> Labels] /\ wrote' \in [Threads -> SUBSET Blocks]
        /\ pins' \in [Blocks -> 0..1]
    BY <1>1, SMTT(30) DEF Labels
  <2> QED  BY <1>1, <2>1, <2>2, <2>3, Layers DEF TypeOK
<1>3. NoDup(lh') /\ NoDup(head')
  BY <1>1, Layers, SMTT(30) DEF HeaderInv, NoDup
<1>4. IInv'
  BY <1>1, <1>2, <1>3, IdleShow
<1> QED  BY <1>1, <1>4 DEF Active

(* read_head(): log.lh is what the committed transaction left on disk. *)
LEMMA ReadHeadIInv ==
  ASSUME IInv, ReadHead
  PROVE  IInv' /\ UNCHANGED diskVars /\ mode # "run" /\ mode' # "run" /\ Active' = Active
<1>1. /\ mode = "read_head" /\ lh' = head /\ mode' = IF head = <<>> THEN "erase" ELSE "install"
      /\ UNCHANGED <<diskVars, bufVars, outstanding, committing, pc, tail, wrote, bounds>>
  BY DEF ReadHead
<1>2. tail = 1 /\ head \in Seq(Blocks) /\ Len(head) \in Nat /\ (head # <<>> => Len(head) >= 1)
  BY <1>1, RecoveryState, Layers, SMTT(30) DEF TypeOK
<1>3. TypeOK' /\ NoDup(lh') /\ NoDup(head')
  BY <1>1, Layers DEF TypeOK, HeaderInv, NoDup
<1>4. /\ mode' = "install" => Installed(tail - 1)'
      /\ mode' = "erase" => Installed(Len(lh))'
  BY <1>1, <1>2, SMTT(30) DEF Installed
<1>5. IInv'
  BY <1>1, <1>2, <1>3, <1>4, RecoveryState, IdleShow, SMTT(30)
<1> QED  BY <1>1, <1>5 DEF Active

(* install_trans(1) copies a block from the log to its home. *)
LEMMA RecoverInstallIInv ==
  ASSUME IInv, RecoverInstall
  PROVE  /\ IInv' /\ UNCHANGED <<slot, head>> /\ mode # "run" /\ mode' # "run" /\ Active' = Active
         /\ head = lh /\ tail \in 1..Len(lh) /\ home' = [home EXCEPT ![lh[tail]] = slot[tail]]
<1> DEFINE b == lh[tail]
<1>1. /\ mode = "install" /\ home' = [home EXCEPT ![b] = slot[tail]]
      /\ cache' = Buffer(b, slot[tail])
      /\ mode' = IF tail = Len(lh) THEN "erase" ELSE "install"
      /\ tail' = IF tail = Len(lh) THEN 1 ELSE tail + 1
      /\ UNCHANGED <<slot, head, pins, logVars, pc, wrote, bounds>>
  BY DEF RecoverInstall
<1>2. /\ tail \in 1..Len(lh) /\ head = lh /\ Installed(tail - 1)
      /\ lh \in Seq(Blocks) /\ Len(lh) \in Nat /\ Len(lh) < LogBlocks /\ NoDup(lh)
      /\ slot \in [1..(LogBlocks - 1) -> Vals] /\ home \in [Blocks -> Vals]
  BY <1>1, RecoveryState, Layers, SMTT(30) DEF TypeOK, HeaderInv
<1>3. b \in Blocks /\ slot[tail] \in Vals
  BY <1>2, LogAssumption, SMTT(30)
<1>4. TypeOK' /\ NoDup(lh') /\ NoDup(head')
  <2>1. tail' \in 1..LogBlocks
    BY <1>1, <1>2, LogAssumption, SMTT(30)
  <2>2. DOMAIN cache' \subseteq Blocks /\ \A x \in DOMAIN cache' : cache'[x] \in Vals
    BY <1>1, <1>3, Layers DEF TypeOK, Buffer
  <2>3. home' \in [Blocks -> Vals]
    BY <1>1, <1>2, <1>3
  <2> QED  BY <1>1, <1>2, <2>1, <2>2, <2>3, Layers, SMTT(30) DEF TypeOK, NoDup
<1>5. \A x \in DOMAIN cache' : cache'[x] = home'[x]
  BY <1>1, <1>2, <1>3, RecoveryState, Layers DEF Buffer, TypeOK
<1>6. \A i \in 1..tail : home'[lh[i]] = slot[i]
  BY <1>1, <1>2, <1>3, SMTT(30) DEF Installed, NoDup
<1>7. /\ mode' = "install" => Installed(tail - 1)'
      /\ mode' = "erase" => Installed(Len(lh))'
      /\ IF mode' = "install" THEN tail' \in 1..Len(lh') ELSE tail' = 1
  BY <1>1, <1>2, <1>6, SMTT(30) DEF Installed
<1>8. IInv'
  BY <1>1, <1>2, <1>4, <1>5, <1>7, RecoveryState, IdleShow
<1> QED  BY <1>1, <1>2, <1>8 DEF Active

(* Recovery ends with an empty log. *)
LEMMA RecoverEraseIInv ==
  ASSUME IInv, RecoverErase
  PROVE  /\ IInv' /\ UNCHANGED <<home, slot, cache>> /\ mode # "run" /\ mode' = "run"
         /\ head = lh /\ head' = <<>> /\ Installed(Len(lh)) /\ Active' = Active
<1>1. /\ mode = "erase" /\ lh' = <<>> /\ head' = <<>> /\ mode' = "run"
      /\ UNCHANGED <<home, slot, bufVars, outstanding, committing, pc, tail, wrote, bounds>>
  BY DEF RecoverErase
<1>2. TypeOK' /\ NoDup(lh') /\ NoDup(head')
  <2>1. lh' \in Seq(Blocks) /\ head' \in Seq(Blocks) /\ Len(lh') < LogBlocks /\ Len(head') < LogBlocks
    BY <1>1, LogAssumption, SMTT(30)
  <2> QED  BY <1>1, <2>1, Layers, SMTT(30) DEF TypeOK, NoDup
<1>3. IInv'
  BY <1>1, <1>2, RecoveryState, IdleShow
<1> QED  BY <1>1, <1>3, RecoveryState DEF Active

-----------------------------------------------------------------------------
(* The invariant *)

(* The disk that mkfs leaves behind, before the first recovery. *)
LEMMA InitIInv ==
  ASSUME Init
  PROVE  IInv
<1>1. Active = {} /\ Committers = {} /\ Reserved = {} /\ \A labels \in SUBSET CommitLabels : ~Within(labels)
  BY DEF Init, Active, Committers, CommitLabels, Within, Reserved
<1>2. TypeOK
  <2>1. 0 \in 0..Cardinality(Threads)
    BY LogAssumption, FS_CardinalityType, SMTT(30)
  <2>2. DOMAIN cache = {} /\ lh \in Seq(Blocks) /\ Len(lh) = 0 /\ head \in Seq(Blocks) /\ Len(head) = 0
    BY SMTT(30) DEF Init
  <2>3. home \in [Blocks -> Vals] /\ slot \in [1..(LogBlocks - 1) -> Vals] /\ pins \in [Blocks -> 0..1]
    BY LogAssumption, SMTT(30) DEF Init
  <2>4. pc \in [Threads -> Labels] /\ wrote \in [Threads -> SUBSET Blocks]
    BY DEF Init, Labels
  <2>5. 1 \in 1..LogBlocks /\ 0 < LogBlocks /\ 0 \in 0..MaxOps /\ 0 \in 0..MaxCrashes
    BY LogAssumption, SMTT(30)
  <2> QED  BY <2>1, <2>2, <2>3, <2>4, <2>5 DEF TypeOK, Init
<1>3. AloneInv
  BY <1>1, FS_EmptySet DEF Init, AloneInv
<1>4. WroteInv /\ LogFits
  BY <1>1, FS_EmptySet, LogAssumption, SMTT(30) DEF Init, WroteInv, LogFits
<1>5. HeaderInv
  <2>1. ~Within(Loops) /\ ~Within({"write_head"})
    BY <1>1 DEF Loops, CommitLabels
  <2> QED  BY <2>1, SMTT(30) DEF Init, HeaderInv, NoDup
<1>6. PinInv
  BY SMTT(30) DEF Init, PinInv, Pinned, DirtyPinned
<1>7. CopyInv
  <2>1. /\ ~Within({"write_log"}) /\ ~Within({"write_head", "install", "erase"})
        /\ ~Within({"install"}) /\ ~Within({"erase"})
    BY <1>1 DEF CommitLabels
  <2> QED  BY <2>1 DEF Init, CopyInv
<1> QED  BY <1>2, <1>3, <1>4, <1>5, <1>6, <1>7 DEF IInv

(* A step that changes nothing. *)
LEMMA StutterIInv ==
  ASSUME IInv, UNCHANGED vars
  PROVE  IInv'
<1>1. TypeOK' /\ AloneInv' /\ WroteInv' /\ LogFits'
  BY Layers
     DEF vars, TypeOK, AloneInv, Active, Committers, WroteInv, InLog, LogFits, Reserved
<1>2. HeaderInv' /\ PinInv' /\ CopyInv'
  BY QuietFrame DEF vars, QuietMove
<1> QED  BY <1>1, <1>2 DEF IInv

(* Every step of the kernel, every crash and every step of recovery. *)
LEMMA StepIInv ==
  ASSUME IInv, [Next]_vars
  PROVE  IInv'
<1>1. ASSUME NEW t \in Threads, SysCall(t) \/ BeginStep(t)
      PROVE  IInv'
  BY <1>1, EnterIInv, BeginIInv DEF BeginStep
<1>2. ASSUME NEW t \in Threads, OpStep(t)
      PROVE  IInv'
  BY <1>2, LogWriteIInv, PanicIInv DEF OpStep
<1>3. ASSUME NEW t \in Threads, EndOp(t)
      PROVE  IInv'
  BY <1>3, LastEndIInv, OtherEndIInv
<1>4. ASSUME NEW t \in Threads, CommitStep(t)
      PROVE  IInv'
  BY <1>4, WriteLogIInv, WriteHeadIInv, InstallIInv, EraseIInv, CommitEndIInv DEF CommitStep
<1>5. ASSUME NEW b \in Blocks, Evict(b)
      PROVE  IInv'
  BY <1>5, EvictIInv
<1>6. CASE Crash \/ Recovery
  BY <1>6, CrashIInv, ReadHeadIInv, RecoverInstallIInv, RecoverEraseIInv DEF Recovery
<1>7. CASE Finished \/ UNCHANGED vars
  BY <1>7, StutterIInv DEF Finished
<1> QED  BY <1>1, <1>2, <1>3, <1>4, <1>5, <1>6, <1>7 DEF Next

(* IInv is an invariant of the log, through crashes and recoveries. *)
THEOREM Invariance == Spec => []IInv
<1>1. Init => IInv
  BY InitIInv
<1>2. IInv /\ [Next]_vars => IInv'
  BY StepIInv
<1> QED  BY <1>1, <1>2, PTL DEF Spec

-----------------------------------------------------------------------------
(* What the invariant says of a single state. *)

(* IInv gives CommitAlone: the two panics of end_op() and log_write() are unreachable. *)
LEMMA CommitAloneHolds ==
  ASSUME IInv
  PROVE  CommitAlone
<1>1. /\ outstanding = Cardinality(Active) /\ (committing => Active = {})
      /\ committing <=> Committers # {}
      /\ \A t, u \in Committers : t = u
  BY Layers DEF AloneInv
<1>2. Cardinality(Committers) = IF committing THEN 1 ELSE 0
  <2>1. CASE committing
    <3>1. \E t : Committers = {t}
      BY <1>1, <2>1, SMTT(30)
    <3> QED  BY <2>1, <3>1, FS_Singleton
  <2>2. CASE ~committing
    BY <1>1, <2>2, FS_EmptySet
  <2> QED  BY <2>1, <2>2
<1> QED  BY <1>1, <1>2 DEF CommitAlone, Committers, CommitLabels

(* Blocks that are not pinned read the same from the cache and from the disk. *)
LEMMA UnpinnedClean ==
  ASSUME IInv, NEW b \in Blocks, pins[b] = 0
  PROVE  Content(b) = home[b]
BY Layers, SMTT(30) DEF PinInv, DirtyPinned, Content

(* With an empty header, recovery changes nothing. *)
LEMMA RecoveredEmpty ==
  ASSUME head = <<>>
  PROVE  Recovered = [b \in Blocks |-> home[b]]
BY SMTT(30) DEF Recovered

(* IInv gives CommitDurable: when commit() returns nothing is left to install. *)
LEMMA CommitDurableHolds ==
  ASSUME IInv
  PROVE  CommitDurable
<1> SUFFICES ASSUME NEW t \in Threads, pc[t] = "commit_end"
             PROVE  head = <<>> /\ Recovered = View /\ home = View
  BY DEF CommitDurable
<1>1. lh = <<>> /\ head = <<>>
  BY CommitState DEF CommitLabels, Committed
<1>2. \A b \in Blocks : pins[b] = 0
  BY <1>1, Layers, SMTT(30) DEF PinInv, Pinned
<1>3. \A b \in Blocks : Content(b) = home[b]
  BY <1>2, UnpinnedClean
<1>4. View = [b \in Blocks |-> home[b]]
  BY <1>3 DEF View
<1>5. home = [b \in Blocks |-> home[b]]
  BY Layers DEF TypeOK
<1> QED  BY <1>1, <1>4, <1>5, RecoveredEmpty

(* log.outstanding counts the operations under way, none is under way during  *)
(* a commit, and there is one committer: end_op() never panics with           *)
(* "log.committing", nor log_write() with "outside of trans".                 *)
THEOREM CommitsAlone == Spec => []CommitAlone
<1>1. IInv => CommitAlone
  BY CommitAloneHolds
<1> QED  BY <1>1, Invariance, PTL

(* begin_op() admits no more operations than the log has room for: whatever   *)
(* they may still write fits in LOGSIZE blocks.                               *)
THEOREM ReservationsFit == Spec => []LogFits
<1>1. IInv => LogFits
  BY DEF IInv
<1> QED  BY <1>1, Invariance, PTL

(* A buffer that differs from its home block is pinned until install_trans()  *)
(* has written it.                                                            *)
THEOREM DirtyArePinned == Spec => []DirtyPinned
<1>1. IInv => DirtyPinned
  BY DEF IInv, PinInv
<1> QED  BY <1>1, Invariance, PTL

(* When the commit of end_op() returns, what the file system sees is on disk, *)
(* and a crash would keep it.                                                 *)
THEOREM CommitsAreDurable == Spec => []CommitDurable
<1>1. IInv => CommitDurable
  BY CommitDurableHolds
<1> QED  BY <1>1, Invariance, PTL

-----------------------------------------------------------------------------
(* The log implements AtomicLog. *)

(* The blocks of the abstract state: what a read returns, or, before recovery *)
(* has ended, what recovery is about to restore.                              *)
Current == IF mode = "run" THEN View ELSE Recovered

(* What recovery would write to a block of the header, and to the others. *)
LEMMA RecoveredValue ==
  ASSUME NoDup(head), head \in Seq(Blocks), NEW b \in Blocks
  PROVE  /\ \A i \in 1..Len(head) : head[i] = b => Recovered[b] = slot[i]
         /\ (\A i \in 1..Len(head) : head[i] # b) => Recovered[b] = home[b]
<1>1. ASSUME NEW i \in 1..Len(head), head[i] = b
      PROVE  Recovered[b] = slot[i]
  <2>1. (CHOOSE j \in 1..Len(head) : head[j] = b) = i
    BY <1>1 DEF NoDup
  <2> QED  BY <1>1, <2>1 DEF Recovered
<1>2. ASSUME \A i \in 1..Len(head) : head[i] # b
      PROVE  Recovered[b] = home[b]
  BY <1>2 DEF Recovered
<1> QED  BY <1>1, <1>2

(* Two states in which every block would be recovered alike. *)
LEMMA RecoveredSame ==
  ASSUME \A b \in Blocks : Recovered'[b] = Recovered[b]
  PROVE  Recovered' = Recovered
BY DEF Recovered

(* A step that the abstract log does not see. *)
LEMMA Unseen ==
  ASSUME Active' = Active, Recovered' = Recovered, Current' = Current
  PROVE  UNCHANGED Atomic!vars
BY DEF Atomic!vars, Current

(* Steps of a thread that neither write a block nor commit. *)
LEMMA ThreadMaps ==
  ASSUME IInv, NEW t \in Threads, SysCall(t) \/ BeginStep(t) \/ LogWritePanic(t) \/ EndOp(t)
  PROVE  [Atomic!Next]_Atomic!vars
<1>1. /\ UNCHANGED <<diskVars, bufVars, mode>> /\ mode = "run"
      /\ pc'[t] # pc[t] /\ \A u \in Threads : u # t => \/ pc'[u] = pc[u]
                                                       \/ pc[u] = "sleep" /\ pc'[u] = "begin"
  BY Layers
     DEF TypeOK, SysCall, BeginStep, BeginSleep, BeginOp, LogWritePanic, MayWrite, EndOp,
                GotoAndWake
<1>2. Recovered' = Recovered /\ Current' = Current
  BY <1>1 DEF Recovered, Current, View, Content
<1>3. CASE BeginOp(t)
  <2>1. t \notin Active /\ Active' = Active \cup {t}
    BY <1>1, <1>3, Layers DEF Active, BeginOp, TypeOK
  <2>2. Atomic!Begin(t)
    BY <1>2, <2>1 DEF Atomic!Begin, Current
  <2> QED  BY <2>2 DEF Atomic!Next
<1>4. CASE EndOp(t)
  <2>1. t \in Active /\ Active' = Active \ {t}
    BY <1>4, EndFrame
  <2>2. Atomic!End(t)
    BY <1>2, <2>1 DEF Atomic!End, Current
  <2> QED  BY <2>2 DEF Atomic!Next
<1>5. CASE SysCall(t) \/ BeginSleep(t) \/ LogWritePanic(t)
  <2>1. Active' = Active
    BY <1>1, <1>5, Layers DEF TypeOK, Active, SysCall, BeginSleep, LogWritePanic, MayWrite
  <2> QED  BY <1>2, <2>1, Unseen
<1> QED  BY <1>3, <1>4, <1>5 DEF BeginStep

(* log_write() changes one block of what the file system sees, and nothing of *)
(* what a crash would leave.                                                  *)
LEMMA LogWriteMaps ==
  ASSUME IInv, NEW t \in Threads, NEW b \in Blocks, NEW v \in Vals, LogWrite(t, b, v)
  PROVE  Atomic!Next
<1>1. /\ mode = "run" /\ t \in Active /\ UNCHANGED <<diskVars, mode, pc>> /\ cache' = Buffer(b, v)
  BY DEF LogWrite, MayWrite, Active
<1>2. Recovered' = Recovered /\ Active' = Active
  BY <1>1 DEF Recovered, Active
<1>3. View' = [View EXCEPT ![b] = v]
  BY <1>1 DEF View, Content, Buffer
<1>4. Current = View /\ Current' = View'
  BY <1>1 DEF Current
<1>5. Atomic!Write(b, v)
  BY <1>1, <1>2, <1>3, <1>4 DEF Atomic!Write, Current
<1> QED  BY <1>5 DEF Atomic!Next

(* write_log() writes where recovery does not look yet. *)
LEMMA WriteLogMaps ==
  ASSUME IInv, NEW t \in Threads, WriteLog(t)
  PROVE  UNCHANGED Atomic!vars
<1>1. Recovered = [b \in Blocks |-> home[b]] /\ Recovered' = [b \in Blocks |-> home[b]]
  BY WriteLogIInv, RecoveredEmpty, SMTT(30) DEF Recovered
<1>2. View' = View
  BY WriteLogIInv DEF View
<1> QED  BY <1>1, <1>2, WriteLogIInv, Unseen DEF Current

(* write_head() is the commit: all the blocks of the transaction at once. *)
LEMMA WriteHeadMaps ==
  ASSUME IInv, NEW t \in Threads, WriteHead(t)
  PROVE  Atomic!Next
<1>1. lh \in Seq(Blocks) /\ NoDup(lh) /\ View' = View /\ Current = View /\ Current' = View
  BY WriteHeadIInv, Layers DEF TypeOK, HeaderInv, View, Content, Current
<1>2. ASSUME NEW b \in Blocks
      PROVE  Recovered'[b] = Content(b)
  <2>2. CASE InLog(b)
    <3>1. PICK i \in 1..Len(lh) : lh[i] = b
      BY <2>2 DEF InLog
    <3>2. slot[i] = Content(b)
      BY <3>1, WriteHeadIInv DEF Logged
    <3>3. (CHOOSE j \in 1..Len(lh) : lh[j] = b) = i
      BY <1>1, <3>1 DEF NoDup
    <3> QED  BY <3>1, <3>2, <3>3, WriteHeadIInv DEF Recovered
  <2>3. CASE ~InLog(b)
    <3>1. Content(b) = home[b]
      BY <2>3, WriteHeadIInv, UnpinnedClean
    <3> QED  BY <2>3, <3>1, WriteHeadIInv DEF Recovered, InLog
  <2> QED  BY <2>2, <2>3
<1>3. Recovered' = View
  BY <1>2 DEF Recovered, View
<1>4. Atomic!Commit
  BY <1>1, <1>3, WriteHeadIInv DEF Atomic!Commit, Current
<1> QED  BY <1>4 DEF Atomic!Next

(* install_trans(), in a commit or in recovery, does what recovery would do. *)
LEMMA InstallRecovered ==
  ASSUME IInv, head = lh, NEW i \in 1..Len(lh), UNCHANGED <<slot, head>>,
         home' = [home EXCEPT ![lh[i]] = slot[i]]
  PROVE  Recovered' = Recovered
<1>1. /\ head \in Seq(Blocks) /\ home \in [Blocks -> Vals]
  BY Layers DEF TypeOK
<1>2. ASSUME NEW b \in Blocks
      PROVE  Recovered'[b] = Recovered[b]
  <2>1. CASE \E j \in 1..Len(head) : head[j] = b
    BY <2>1 DEF Recovered
  <2>2. CASE ~\E j \in 1..Len(head) : head[j] = b
    <3>1. lh[i] # b /\ home'[b] = home[b]
      BY <1>1, <2>2
    <3> QED  BY <2>2, <3>1 DEF Recovered
  <2> QED  BY <2>1, <2>2
<1> QED  BY <1>2, RecoveredSame

(* Clearing the header changes nothing once all of it is installed. *)
LEMMA EraseRecovered ==
  ASSUME IInv, head = lh, Installed(Len(lh)), UNCHANGED <<home, slot>>, head' = <<>>
  PROVE  Recovered' = Recovered /\ Recovered' = [b \in Blocks |-> home[b]]
<1>1. head \in Seq(Blocks) /\ NoDup(head)
  BY Layers DEF TypeOK, HeaderInv
<1>2. Recovered' = [b \in Blocks |-> home[b]]
  BY SMTT(30) DEF Recovered
<1>3. ASSUME NEW b \in Blocks
      PROVE  Recovered[b] = home[b]
  <2>1. CASE \E j \in 1..Len(head) : head[j] = b
    <3>1. PICK i \in 1..Len(head) : head[i] = b
      BY <2>1
    <3>2. Recovered[b] = slot[i]
      BY <1>1, <3>1, RecoveredValue
    <3> QED  BY <3>1, <3>2 DEF Installed
  <2>2. CASE ~\E j \in 1..Len(head) : head[j] = b
    BY <1>1, <2>2, RecoveredValue
  <2> QED  BY <2>1, <2>2
<1> QED  BY <1>2, <1>3, RecoveredSame

(* The steps after the commit point, and the steps of the buffer cache. *)
LEMMA AfterCommitMaps ==
  ASSUME IInv, \/ \E t \in Threads : Install(t) \/ Erase(t) \/ CommitEnd(t)
               \/ \E b \in Blocks : Evict(b)
  PROVE  UNCHANGED Atomic!vars
<1>1. ASSUME NEW t \in Threads, Install(t)
      PROVE  UNCHANGED Atomic!vars
  <2>1. Recovered' = Recovered
    BY <1>1, InstallIInv, InstallRecovered
  <2>2. View' = View
    BY <1>1, InstallIInv DEF View
  <2> QED  BY <1>1, <2>1, <2>2, InstallIInv, Unseen DEF Current
<1>2. ASSUME NEW t \in Threads, Erase(t)
      PROVE  UNCHANGED Atomic!vars
  <2>1. Recovered' = Recovered
    BY <1>2, EraseIInv, EraseRecovered
  <2>2. View' = View
    BY <1>2, EraseIInv DEF View, Content
  <2> QED  BY <1>2, <2>1, <2>2, EraseIInv, Unseen DEF Current
<1>3. ASSUME NEW t \in Threads, CommitEnd(t)
      PROVE  UNCHANGED Atomic!vars
  <2>1. Recovered' = Recovered /\ View' = View /\ mode' = mode
    BY <1>3 DEF CommitEnd, Recovered, View, Content
  <2> QED  BY <1>3, <2>1, CommitEndIInv, Unseen DEF Current
<1>4. ASSUME NEW b \in Blocks, Evict(b)
      PROVE  UNCHANGED Atomic!vars
  <2>1. Recovered' = Recovered /\ Active' = Active
    BY <1>4, EvictIInv DEF Recovered, Active
  <2>2. View' = View
    BY <1>4, EvictIInv DEF View
  <2> QED  BY <1>4, <2>1, <2>2, EvictIInv, Unseen DEF Current
<1> QED  BY <1>1, <1>2, <1>3, <1>4

(* A crash leaves the durable blocks, and recovery restores them. *)
LEMMA CrashMaps ==
  ASSUME IInv, Crash \/ Recovery
  PROVE  [Atomic!Next]_Atomic!vars
<1>1. CASE Crash
  <2>1. Recovered' = Recovered /\ Current' = Recovered /\ Active' = {}
    BY <1>1, CrashIInv DEF Recovered, Current
  <2>2. Atomic!Crash
    BY <2>1 DEF Atomic!Crash, Current
  <2> QED  BY <2>2 DEF Atomic!Next
<1>2. CASE ReadHead
  <2>1. Recovered' = Recovered /\ Active' = Active
    BY <1>2, ReadHeadIInv DEF Recovered
  <2> QED  BY <1>2, <2>1, ReadHeadIInv, Unseen DEF Current
<1>3. CASE RecoverInstall
  <2>1. Recovered' = Recovered
    BY <1>3, RecoverInstallIInv, InstallRecovered
  <2> QED  BY <1>3, <2>1, RecoverInstallIInv, Unseen DEF Current
<1>4. CASE RecoverErase
  <2>1. Recovered' = Recovered /\ Recovered' = [b \in Blocks |-> home[b]]
    BY <1>4, RecoverEraseIInv, EraseRecovered
  <2>2. \A b \in DOMAIN cache : cache[b] = home[b]
    BY <1>4, RecoverEraseIInv, RecoveryState
  <2>3. View' = [b \in Blocks |-> home[b]]
    BY <1>4, <2>2, RecoverEraseIInv DEF View, Content
  <2> QED  BY <1>4, <2>1, <2>3, RecoverEraseIInv, Unseen DEF Current
<1> QED  BY <1>1, <1>2, <1>3, <1>4 DEF Recovery

(* The log implements atomic transactions, whatever the interleaving of       *)
(* operations and wherever crashes hit: a commit, an installation and a       *)
(* recovery included, a crash leaves the blocks of the last commit, whole.    *)
THEOREM LogIsAtomic == Spec => Transactions
<1>1. Init => Atomic!Init
  <2> SUFFICES ASSUME Init
               PROVE  Atomic!Init
    OBVIOUS
  <2>1. Recovered = [b \in Blocks |-> InitVal]
    BY RecoveredEmpty DEF Init
  <2>2. Active = {} /\ mode # "run"
    BY DEF Init, Active
  <2> QED  BY <2>1, <2>2 DEF Atomic!Init
<1>2. IInv /\ [Next]_vars => [Atomic!Next]_Atomic!vars
  <2> SUFFICES ASSUME IInv, [Next]_vars
               PROVE  [Atomic!Next]_Atomic!vars
    OBVIOUS
  <2>1. ASSUME NEW t \in Threads, SysCall(t) \/ BeginStep(t) \/ EndOp(t)
        PROVE  [Atomic!Next]_Atomic!vars
    BY <2>1, ThreadMaps
  <2>2. ASSUME NEW t \in Threads, OpStep(t)
        PROVE  [Atomic!Next]_Atomic!vars
    BY <2>2, ThreadMaps, LogWriteMaps DEF OpStep
  <2>3. ASSUME NEW t \in Threads, CommitStep(t)
        PROVE  [Atomic!Next]_Atomic!vars
    BY <2>3, WriteLogMaps, WriteHeadMaps, AfterCommitMaps DEF CommitStep
  <2>4. ASSUME NEW b \in Blocks, Evict(b)
        PROVE  [Atomic!Next]_Atomic!vars
    BY <2>4, AfterCommitMaps
  <2>5. CASE Crash \/ Recovery
    BY <2>5, CrashMaps
  <2>6. CASE Finished \/ UNCHANGED vars
    <3>1. UNCHANGED vars
      BY <2>6 DEF Finished
    <3> QED  BY <3>1 DEF vars, Atomic!vars, View, Content, Recovered, Active
  <2> QED  BY <2>1, <2>2, <2>3, <2>4, <2>5, <2>6 DEF Next
<1> QED  BY <1>1, <1>2, Invariance, PTL DEF Spec, Transactions, Atomic!Spec

=============================================================================
