-------------------------------- MODULE Log ---------------------------------
(***************************************************************************)
(* The write-ahead log of the file system (kernel/log.c) with the part of  *)
(* the buffer cache it depends on (kernel/bio.c: bread, bwrite, bpin,      *)
(* bunpin), crashes and recovery.                                          *)
(*                                                                         *)
(* A step of a thread is one hold of log.lock, or one bwrite().  A crash   *)
(* may come between any two steps; a block is written whole or not at all. *)
(* wakeup(&log) runs under log.lock, and sleep() drops log.lock only once  *)
(* the process is asleep, so both are part of the step that calls them.    *)
(***************************************************************************)
EXTENDS Integers, Sequences, FiniteSets

CONSTANTS Threads,      \* kernel threads that make file system calls
          Blocks,       \* home blocks, the log's own blocks excluded
          Vals,         \* contents of a block
          InitVal,      \* what mkfs leaves in them
          MAXOPBLOCKS,  \* blocks that one operation may write
          LOGSIZE,      \* blocks that begin_op() reserves from
          LogBlocks,    \* log.size: sb->nlog, the header block included
          MaxOps,       \* bound: operations
          MaxCrashes    \* bound: crashes

ASSUME LogAssumption ==
  /\ IsFiniteSet(Threads) /\ InitVal \in Vals
  /\ MAXOPBLOCKS \in Nat \ {0}
  /\ LOGSIZE \in Nat /\ MAXOPBLOCKS <= LOGSIZE
  /\ LogBlocks \in Nat \ {0}
  /\ MaxOps \in Nat /\ MaxCrashes \in Nat

VARIABLES
  home, slot, head,         \* the disk: home blocks, log blocks, log header
  cache, pins,              \* buffers: contents of the cached blocks, bpin() counts
  outstanding, committing,  \* struct log
  lh,                       \* log.lh: the block numbers of the transaction
  mode,                     \* "read_head", "install" or "erase" in recovery, else "run"
  pc, tail,                 \* where a thread is; the cursor of its loop over lh
  wrote,                    \* the blocks that the operation of a thread has written
  ops, crashes              \* counters of the bounds

diskVars == <<home, slot, head>>
bufVars == <<cache, pins>>
logVars == <<outstanding, committing, lh>>
bounds == <<ops, crashes>>
vars == <<diskVars, bufVars, logVars, mode, pc, tail, wrote, bounds>>

Labels == {"idle", "begin", "sleep", "op", "write_log", "write_head", "install", "erase",
           "commit_end", "panic"}

Init ==
  /\ home = [b \in Blocks |-> InitVal]
  /\ slot = [i \in 1..(LogBlocks - 1) |-> InitVal]
  /\ head = <<>>
  /\ cache = <<>>
  /\ pins = [b \in Blocks |-> 0]
  /\ outstanding = 0
  /\ committing = FALSE
  /\ lh = <<>>
  /\ mode = "read_head"
  /\ pc = [t \in Threads |-> "idle"]
  /\ tail = 1
  /\ wrote = [t \in Threads |-> {}]
  /\ ops = 0
  /\ crashes = 0

-----------------------------------------------------------------------------
(* What a read of block b returns: the buffer if it is cached, else the disk. *)
Content(b) == IF b \in DOMAIN cache THEN cache[b] ELSE home[b]

(* The cache once bread() of block b has a buffer, and it holds v. *)
Buffer(b, v) == [x \in DOMAIN cache \cup {b} |-> IF x = b THEN v ELSE cache[x]]

InLog(b) == \E i \in 1..Len(lh) : lh[i] = b

(* A thread in panic() keeps log.lock, so nobody else gets it. *)
LockFree == \A t \in Threads : pc[t] # "panic"

At(t, l) == mode = "run" /\ pc[t] = l

Goto(t, l) == pc' = [pc EXCEPT ![t] = l]

(* wakeup(&log), as thread t moves to l. *)
GotoAndWake(t, l) ==
  pc' = [u \in Threads |-> IF u = t THEN l ELSE IF pc[u] = "sleep" THEN "begin" ELSE pc[u]]

(* bget() recycles a buffer that nobody holds and nobody has pinned. *)
Evict(b) ==
  /\ mode = "run" /\ b \in DOMAIN cache /\ pins[b] = 0
  /\ cache' = [x \in DOMAIN cache \ {b} |-> cache[x]]
  /\ UNCHANGED <<diskVars, pins, logVars, mode, pc, tail, wrote, bounds>>

-----------------------------------------------------------------------------
(* begin_op() *)

SysCall(t) ==
  /\ At(t, "idle") /\ ops < MaxOps
  /\ Goto(t, "begin")
  /\ ops' = ops + 1
  /\ UNCHANGED <<diskVars, bufVars, logVars, mode, tail, wrote, crashes>>

(* Faulty variants of MustWait: commits are ignored; the new operation is not counted. *)
MustWaitNoCommit == Len(lh) + (outstanding + 1) * MAXOPBLOCKS > LOGSIZE
MustWaitShort == committing \/ Len(lh) + outstanding * MAXOPBLOCKS > LOGSIZE

(* The conditions under which begin_op() sleeps. *)
MustWait == committing \/ Len(lh) + (outstanding + 1) * MAXOPBLOCKS > LOGSIZE

BeginSleep(t) ==
  /\ At(t, "begin") /\ LockFree /\ MustWait
  /\ Goto(t, "sleep")
  /\ UNCHANGED <<diskVars, bufVars, logVars, mode, tail, wrote, bounds>>

BeginOp(t) ==
  /\ At(t, "begin") /\ LockFree /\ ~MustWait
  /\ outstanding' = outstanding + 1
  /\ Goto(t, "op")
  /\ UNCHANGED <<diskVars, bufVars, committing, lh, mode, tail, wrote, bounds>>

-----------------------------------------------------------------------------
(* log_write() *)

LogFull == Len(lh) >= LOGSIZE \/ Len(lh) >= LogBlocks - 1

(* An operation may write block b, within its budget of MAXOPBLOCKS. *)
MayWrite(t, b) == At(t, "op") /\ LockFree /\ Cardinality(wrote[t] \cup {b}) <= MAXOPBLOCKS

(* Faulty variant of LogWrite: no bpin(). *)
LogWriteNoPin(t, b, v) ==
  /\ MayWrite(t, b) /\ ~LogFull
  /\ cache' = Buffer(b, v)
  /\ lh' = IF InLog(b) THEN lh ELSE Append(lh, b)
  /\ wrote' = [wrote EXCEPT ![t] = @ \cup {b}]
  /\ UNCHANGED <<diskVars, pins, outstanding, committing, mode, pc, tail, bounds>>

(* bread(b), modify it, log_write(b), brelse(b), under the buffer's sleep-lock. *)
LogWrite(t, b, v) ==
  /\ MayWrite(t, b) /\ ~LogFull
  /\ cache' = Buffer(b, v)
  /\ IF InLog(b) THEN UNCHANGED <<pins, lh>>
     ELSE /\ pins' = [pins EXCEPT ![b] = @ + 1]
          /\ lh' = Append(lh, b)
  /\ wrote' = [wrote EXCEPT ![t] = @ \cup {b}]
  /\ UNCHANGED <<diskVars, outstanding, committing, mode, pc, tail, bounds>>

(* panic("too big a transaction"); "log_write outside of trans" is CommitAlone. *)
LogWritePanic(t) ==
  /\ \E b \in Blocks : MayWrite(t, b)
  /\ LogFull
  /\ Goto(t, "panic")
  /\ UNCHANGED <<diskVars, bufVars, logVars, mode, tail, wrote, bounds>>

-----------------------------------------------------------------------------
(* end_op() and commit() *)

(* panic("log.committing") is CommitAlone below. *)
EndOp(t) ==
  /\ At(t, "op") /\ LockFree /\ ~committing
  /\ outstanding' = outstanding - 1
  /\ wrote' = [wrote EXCEPT ![t] = {}]
  /\ IF outstanding = 1
     THEN /\ committing' = TRUE
          /\ Goto(t, IF lh = <<>> THEN "commit_end" ELSE "write_log")
     ELSE UNCHANGED committing /\ GotoAndWake(t, "idle")
  /\ UNCHANGED <<diskVars, bufVars, lh, mode, tail, bounds>>

(* write_log(): one block from the cache to the log. *)
WriteLog(t) ==
  /\ At(t, "write_log")
  /\ slot' = [slot EXCEPT ![tail] = Content(lh[tail])]
  /\ cache' = Buffer(lh[tail], Content(lh[tail]))
  /\ IF tail = Len(lh) THEN tail' = 1 /\ Goto(t, "write_head")
     ELSE tail' = tail + 1 /\ UNCHANGED pc
  /\ UNCHANGED <<home, head, pins, logVars, mode, wrote, bounds>>

(* write_head(): the commit point. *)
WriteHead(t) ==
  /\ At(t, "write_head")
  /\ head' = lh
  /\ Goto(t, "install")
  /\ UNCHANGED <<home, slot, bufVars, logVars, mode, tail, wrote, bounds>>

(* Faulty variant of Install: the loop stops one block early. *)
InstallShort(t) ==
  /\ At(t, "install")
  /\ home' = [home EXCEPT ![lh[tail]] = slot[tail]]
  /\ cache' = Buffer(lh[tail], slot[tail])
  /\ pins' = [pins EXCEPT ![lh[tail]] = @ - 1]
  /\ IF tail >= Len(lh) - 1 THEN tail' = 1 /\ Goto(t, "erase")
     ELSE tail' = tail + 1 /\ UNCHANGED pc
  /\ UNCHANGED <<slot, head, logVars, mode, wrote, bounds>>

(* install_trans(0): one block from the log to its home. *)
Install(t) ==
  /\ At(t, "install")
  /\ home' = [home EXCEPT ![lh[tail]] = slot[tail]]
  /\ cache' = Buffer(lh[tail], slot[tail])
  /\ pins' = [pins EXCEPT ![lh[tail]] = @ - 1]
  /\ IF tail = Len(lh) THEN tail' = 1 /\ Goto(t, "erase")
     ELSE tail' = tail + 1 /\ UNCHANGED pc
  /\ UNCHANGED <<slot, head, logVars, mode, wrote, bounds>>

(* log.lh.n = 0; write_head(). *)
Erase(t) ==
  /\ At(t, "erase")
  /\ lh' = <<>>
  /\ head' = <<>>
  /\ Goto(t, "commit_end")
  /\ UNCHANGED <<home, slot, bufVars, outstanding, committing, mode, tail, wrote, bounds>>

(* Faulty variant of CommitEnd: no wakeup(&log). *)
CommitEndSilent(t) ==
  /\ At(t, "commit_end") /\ LockFree
  /\ committing' = FALSE
  /\ Goto(t, "idle")
  /\ UNCHANGED <<diskVars, bufVars, outstanding, lh, mode, tail, wrote, bounds>>

(* The end of end_op(): log.committing = 0; wakeup(&log). *)
CommitEnd(t) ==
  /\ At(t, "commit_end") /\ LockFree
  /\ committing' = FALSE
  /\ GotoAndWake(t, "idle")
  /\ UNCHANGED <<diskVars, bufVars, outstanding, lh, mode, tail, wrote, bounds>>

-----------------------------------------------------------------------------
(* Crash, and recover_from_log() at the next boot. *)

Crash ==
  /\ crashes < MaxCrashes
  /\ crashes' = crashes + 1
  /\ cache' = <<>>
  /\ pins' = [b \in Blocks |-> 0]
  /\ outstanding' = 0
  /\ committing' = FALSE
  /\ lh' = <<>>
  /\ mode' = "read_head"
  /\ pc' = [t \in Threads |-> "idle"]
  /\ tail' = 1
  /\ wrote' = [t \in Threads |-> {}]
  /\ UNCHANGED <<diskVars, ops>>

(* Faulty variant of ReadHead: the log is cleared without being installed. *)
ReadHeadIgnored ==
  /\ mode = "read_head"
  /\ mode' = "erase"
  /\ UNCHANGED <<diskVars, bufVars, logVars, pc, tail, wrote, bounds>>

(* read_head() *)
ReadHead ==
  /\ mode = "read_head"
  /\ lh' = head
  /\ mode' = IF head = <<>> THEN "erase" ELSE "install"
  /\ UNCHANGED <<diskVars, bufVars, outstanding, committing, pc, tail, wrote, bounds>>

(* install_trans(1) *)
RecoverInstall ==
  /\ mode = "install"
  /\ home' = [home EXCEPT ![lh[tail]] = slot[tail]]
  /\ cache' = Buffer(lh[tail], slot[tail])
  /\ IF tail = Len(lh) THEN tail' = 1 /\ mode' = "erase"
     ELSE tail' = tail + 1 /\ UNCHANGED mode
  /\ UNCHANGED <<slot, head, pins, logVars, pc, wrote, bounds>>

RecoverErase ==
  /\ mode = "erase"
  /\ lh' = <<>>
  /\ head' = <<>>
  /\ mode' = "run"
  /\ UNCHANGED <<home, slot, bufVars, outstanding, committing, pc, tail, wrote, bounds>>

Recovery == ReadHead \/ RecoverInstall \/ RecoverErase

-----------------------------------------------------------------------------
(* The steps a thread takes by itself once in a file system call. *)
BeginStep(t) == BeginSleep(t) \/ BeginOp(t)
CommitStep(t) == WriteLog(t) \/ WriteHead(t) \/ Install(t) \/ Erase(t) \/ CommitEnd(t)
OpStep(t) == (\E b \in Blocks, v \in Vals : LogWrite(t, b, v)) \/ LogWritePanic(t)

(* All calls are made, or the kernel has panicked, and no more crashes. *)
Finished ==
  /\ mode = "run" /\ crashes = MaxCrashes
  /\ \/ ~LockFree
     \/ ops = MaxOps /\ \A t \in Threads : pc[t] = "idle"
  /\ UNCHANGED vars

Next ==
  \/ \E t \in Threads : SysCall(t) \/ BeginStep(t) \/ OpStep(t) \/ EndOp(t) \/ CommitStep(t)
  \/ \E b \in Blocks : Evict(b)
  \/ Crash \/ Recovery \/ Finished

Spec == Init /\ [][Next]_vars

(* Threads in the kernel go on; an operation ends; nothing is assumed of the *)
(* user programs, of crashes or of evictions.  Where a thread competes for   *)
(* log.lock, fairness is strong: whoever finds it free again and again gets it. *)
Fairness ==
  /\ WF_vars(Recovery)
  /\ \A t \in Threads : SF_vars(BeginStep(t)) /\ SF_vars(EndOp(t)) /\ WF_vars(CommitStep(t))

-----------------------------------------------------------------------------
(* Every variable keeps its type: a block is pinned once, the header fits. *)
TypeOK ==
  /\ home \in [Blocks -> Vals]
  /\ slot \in [1..(LogBlocks - 1) -> Vals]
  /\ head \in Seq(Blocks) /\ Len(head) < LogBlocks
  /\ lh \in Seq(Blocks) /\ Len(lh) < LogBlocks
  /\ DOMAIN cache \subseteq Blocks /\ \A b \in DOMAIN cache : cache[b] \in Vals
  /\ pins \in [Blocks -> 0..1]
  /\ outstanding \in 0..Cardinality(Threads) /\ committing \in BOOLEAN
  /\ mode \in {"read_head", "install", "erase", "run"}
  /\ pc \in [Threads -> Labels]
  /\ tail \in 1..LogBlocks
  /\ wrote \in [Threads -> SUBSET Blocks]
  /\ ops \in 0..MaxOps /\ crashes \in 0..MaxCrashes

(* The threads between begin_op() and end_op(). *)
Active == {t \in Threads : pc[t] \in {"op", "panic"}}

(* The panics "log.committing" and "log_write outside of trans" cannot       *)
(* happen: outstanding counts the operations under way, and while a commit   *)
(* is under way there is none; there is one committer at a time.             *)
CommitAlone ==
  /\ outstanding = Cardinality(Active)
  /\ committing => Active = {}
  /\ Cardinality({t \in Threads : pc[t] \in {"write_log", "write_head", "install", "erase",
                                             "commit_end"}}) = IF committing THEN 1 ELSE 0

(* What is left of the reservations of begin_op(): <<t, i>> while thread t    *)
(* may still write an i-th block.                                            *)
Reserved == {r \in Active \X (1..MAXOPBLOCKS) : r[2] > Cardinality(wrote[r[1]])}

(* The reservations of begin_op() cover what the operations under way may    *)
(* still write: lh.block never overflows, whatever was absorbed.             *)
LogFits == mode = "run" => Len(lh) + Cardinality(Reserved) <= LOGSIZE

(* A buffer that differs from its home block is pinned, so that bget() does  *)
(* not recycle it before install_trans() has written it.                     *)
DirtyPinned == \A b \in DOMAIN cache : cache[b] # home[b] => pins[b] > 0

(* The blocks as the file system sees them. *)
View == [b \in Blocks |-> Content(b)]

(* The blocks as recover_from_log() would leave them after a crash now. *)
Recovered ==
  [b \in Blocks |-> IF \E i \in 1..Len(head) : head[i] = b
                    THEN slot[CHOOSE i \in 1..Len(head) : head[i] = b]
                    ELSE home[b]]

(* When the commit of end_op() returns, everything written so far survives   *)
(* a crash, and the log is empty.                                            *)
CommitDurable ==
  \A t \in Threads : pc[t] = "commit_end" => head = <<>> /\ Recovered = View /\ home = View

(* The log implements atomic transactions: a crash leaves the blocks of a    *)
(* moment without operations under way, never a mixture, also when it hits   *)
(* a commit, an installation or a recovery.                                  *)
Atomic == INSTANCE AtomicLog WITH current <- IF mode = "run" THEN View ELSE Recovered,
                                  durable <- Recovered,
                                  active <- Active
Transactions == Atomic!Spec

Beginning(t) == pc[t] = "begin"
Begun(t) == pc[t] = "op" \/ mode # "run"

(* With finitely many operations every begin_op() returns: nobody stays      *)
(* asleep on &log, or locked out, unless the machine crashes.                *)
BeginReturns == \A t \in Threads : Beginning(t) ~> Begun(t)

(* log_write(): an operation that begin_op() let in finds room in the log;   *)
(* "this op might exhaust log space; wait for commit."                       *)
NoLogPanic == \A t \in Threads : pc[t] # "panic"

=============================================================================
