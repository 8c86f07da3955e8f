-------------------------------- MODULE Pipe --------------------------------
(***************************************************************************)
(* Pipes (kernel/pipe.c) between processes that read, write, close their   *)
(* ends and are killed, with the reference counts of the two files         *)
(* (fileclose in kernel/file.c) and kill() as pipe.c sees it.              *)
(*                                                                         *)
(* pi->lock is a variable: the loops of pipewrite() and piperead() hold it *)
(* from byte to byte, while p->killed may change under them.  wakeup()     *)
(* runs under pi->lock, and sleep() drops pi->lock only once the process   *)
(* is asleep, so each is part of the step that calls it.                   *)
(***************************************************************************)
EXTENDS Naturals, Sequences, FiniteSets

CONSTANTS Procs,      \* processes
          Readers,    \* those that have the read end open at first
          Writers,    \* those that have the write end open at first
          Bytes,      \* values of a byte
          PIPESIZE,
          CountMod,   \* 2^w: nread and nwrite are unsigned integers of w bits
          Sizes       \* numbers of bytes of a read() or write()

ASSUME PipeAssumption ==
  /\ Readers \subseteq Procs /\ Writers \subseteq Procs
  /\ Readers # {} /\ Writers # {} /\ Bytes # {}
  /\ PIPESIZE \in Nat \ {0} /\ CountMod \in Nat \ {0} /\ Sizes \subseteq Nat \ {0}
  /\ CountMod > PIPESIZE /\ CountMod % PIPESIZE = 0

VARIABLES
  data, nread, nwrite, readopen, writeopen,  \* struct pipe
  freed,       \* kfree(pi) was called
  lock,        \* {} or {the holder of pi->lock}
  rfd, wfd,    \* processes with the read end, the write end in p->ofile
  killed,      \* p->killed
  pc, left,    \* where a process is; n - i in its call
  last         \* history: the byte delivered most recently

pipeVars == <<data, nread, nwrite>>
openVars == <<readopen, writeopen, freed>>
fdVars == <<rfd, wfd>>
vars == <<pipeVars, openVars, lock, fdVars, killed, pc, left, last>>

Labels == {"idle", "close_r", "close_w",
           "w_acquire", "w_check", "w_body", "w_asleep", "w_end",
           "r_acquire", "r_check", "r_sleep", "r_asleep", "r_copy"}

(* After pipealloc() and the fork()s that share the two files. *)
Init ==
  /\ data \in [0..(PIPESIZE - 1) -> {CHOOSE v \in Bytes : TRUE}]
  /\ nread = 0 /\ nwrite = 0
  /\ readopen = TRUE /\ writeopen = TRUE /\ freed = FALSE
  /\ lock = {}
  /\ rfd = Readers /\ wfd = Writers
  /\ killed = [p \in Procs |-> FALSE]
  /\ pc = [p \in Procs |-> "idle"]
  /\ left = [p \in Procs |-> 0]
  /\ last = CHOOSE v \in Bytes : TRUE

-----------------------------------------------------------------------------
Empty == nread = nwrite

(* Faulty variant of Full: the sum does not wrap around. *)
FullUnwrapped == nwrite = nread + PIPESIZE

Full == nwrite = (nread + PIPESIZE) % CountMod

Acquire(p) == lock = {} /\ lock' = {p}
Release(p) == lock' = {}

(* release(&pi->lock) and the end of the call. *)
Return(p) == lock' = {} /\ left' = [left EXCEPT ![p] = 0]

Goto(p, l) == pc' = [pc EXCEPT ![p] = l]

(* p goes to l and wakes the processes asleep at label a: they go to b. *)
GotoAndWake(p, l, a, b) ==
  pc' = [q \in Procs |-> IF q = p THEN l ELSE IF pc[q] = a THEN b ELSE pc[q]]
WakeReaders(p, l) == GotoAndWake(p, l, "r_asleep", "r_acquire")
WakeWriters(p, l) == GotoAndWake(p, l, "w_asleep", "w_acquire")

-----------------------------------------------------------------------------
(* pipewrite() *)

CallWrite(p) ==
  /\ pc[p] = "idle" /\ p \in wfd /\ ~killed[p]
  /\ \E n \in Sizes : left' = [left EXCEPT ![p] = n]
  /\ Goto(p, "w_acquire")
  /\ UNCHANGED <<pipeVars, openVars, lock, fdVars, killed, last>>

(* acquire(&pi->lock), on entry and again at the end of sleep(). *)
WriteAcquire(p) ==
  /\ pc[p] = "w_acquire" /\ Acquire(p)
  /\ Goto(p, "w_check")
  /\ UNCHANGED <<pipeVars, openVars, fdVars, killed, left, last>>

(* i < n, and neither !pi->readopen nor pr->killed. *)
WriteCheck(p) ==
  /\ pc[p] = "w_check"
  /\ IF left[p] > 0 THEN readopen /\ ~killed[p] /\ Goto(p, "w_body") ELSE Goto(p, "w_end")
  /\ UNCHANGED <<pipeVars, openVars, lock, fdVars, killed, left, last>>

(* release(&pi->lock); return -1, without a wakeup(). *)
WriteGiveUp(p) ==
  /\ pc[p] = "w_check" /\ left[p] > 0
  /\ ~readopen \/ killed[p]
  /\ Return(p) /\ Goto(p, "idle")
  /\ UNCHANGED <<pipeVars, openVars, fdVars, killed, last>>

(* Faulty variant of WriteSleep: no wakeup() before sleep(). *)
WriteSleepSilent(p) ==
  /\ pc[p] = "w_body" /\ Full
  /\ Release(p) /\ Goto(p, "w_asleep")
  /\ UNCHANGED <<pipeVars, openVars, fdVars, killed, left, last>>

(* The pipe is full: wakeup(&pi->nread); sleep(&pi->nwrite, &pi->lock). *)
WriteSleep(p) ==
  /\ pc[p] = "w_body" /\ Full
  /\ Release(p) /\ WakeReaders(p, "w_asleep")
  /\ UNCHANGED <<pipeVars, openVars, fdVars, killed, left, last>>

WriteByte(p, v) ==
  /\ pc[p] = "w_body" /\ ~Full
  /\ data' = [data EXCEPT ![nwrite % PIPESIZE] = v]
  /\ nwrite' = (nwrite + 1) % CountMod
  /\ left' = [left EXCEPT ![p] = @ - 1]
  /\ Goto(p, "w_check")
  /\ UNCHANGED <<nread, openVars, lock, fdVars, killed, last>>

(* copyin() fails: break. *)
WriteFault(p) ==
  /\ pc[p] = "w_body" /\ ~Full
  /\ Goto(p, "w_end")
  /\ UNCHANGED <<pipeVars, openVars, lock, fdVars, killed, left, last>>

(* Faulty variant of WriteEnd: wakeup() only when the pipe is full. *)
WriteEndLazy(p) ==
  /\ pc[p] = "w_end"
  /\ Return(p)
  /\ IF Full THEN WakeReaders(p, "idle") ELSE Goto(p, "idle")
  /\ UNCHANGED <<pipeVars, openVars, fdVars, killed, last>>

(* wakeup(&pi->nread); release(&pi->lock); return i. *)
WriteEnd(p) ==
  /\ pc[p] = "w_end"
  /\ Return(p) /\ WakeReaders(p, "idle")
  /\ UNCHANGED <<pipeVars, openVars, fdVars, killed, last>>

-----------------------------------------------------------------------------
(* piperead() *)

CallRead(p) ==
  /\ pc[p] = "idle" /\ p \in rfd /\ ~killed[p]
  /\ \E n \in Sizes : left' = [left EXCEPT ![p] = n]
  /\ Goto(p, "r_acquire")
  /\ UNCHANGED <<pipeVars, openVars, lock, fdVars, killed, last>>

ReadAcquire(p) ==
  /\ pc[p] = "r_acquire" /\ Acquire(p)
  /\ Goto(p, "r_check")
  /\ UNCHANGED <<pipeVars, openVars, fdVars, killed, left, last>>

(* The loop over pipe-empty ends, or goes on to sleep(). *)
ReadCheck(p) ==
  /\ pc[p] = "r_check"
  /\ IF Empty /\ writeopen THEN ~killed[p] /\ Goto(p, "r_sleep") ELSE Goto(p, "r_copy")
  /\ UNCHANGED <<pipeVars, openVars, lock, fdVars, killed, left, last>>

(* release(&pi->lock); return -1. *)
ReadGiveUp(p) ==
  /\ pc[p] = "r_check" /\ Empty /\ writeopen /\ killed[p]
  /\ Return(p) /\ Goto(p, "idle")
  /\ UNCHANGED <<pipeVars, openVars, fdVars, killed, last>>

(* sleep(&pi->nread, &pi->lock) *)
ReadSleep(p) ==
  /\ pc[p] = "r_sleep"
  /\ Release(p) /\ Goto(p, "r_asleep")
  /\ UNCHANGED <<pipeVars, openVars, fdVars, killed, left, last>>

ReadByte(p) ==
  /\ pc[p] = "r_copy" /\ left[p] > 0 /\ ~Empty
  /\ last' = data[nread % PIPESIZE]
  /\ nread' = (nread + 1) % CountMod
  /\ left' = [left EXCEPT ![p] = @ - 1]
  /\ UNCHANGED <<data, nwrite, openVars, lock, fdVars, killed, pc>>

(* wakeup(&pi->nwrite); release(&pi->lock); return i. *)
ReadEnd(p) ==
  /\ pc[p] = "r_copy" /\ (left[p] = 0 \/ Empty)
  /\ Return(p) /\ WakeWriters(p, "idle")
  /\ UNCHANGED <<pipeVars, openVars, fdVars, killed, last>>

(* Faulty variant of ReadFault: it returns without the final wakeup(). *)
ReadFaultSilent(p) ==
  /\ pc[p] = "r_copy" /\ left[p] > 0 /\ ~Empty
  /\ nread' = (nread + 1) % CountMod
  /\ Return(p) /\ Goto(p, "idle")
  /\ UNCHANGED <<data, nwrite, openVars, fdVars, killed, last>>

(* copyout() fails after nread++: break, then the end of piperead(). *)
ReadFault(p) ==
  /\ pc[p] = "r_copy" /\ left[p] > 0 /\ ~Empty
  /\ nread' = (nread + 1) % CountMod
  /\ Return(p) /\ WakeWriters(p, "idle")
  /\ UNCHANGED <<data, nwrite, openVars, fdVars, killed, last>>

-----------------------------------------------------------------------------
(* close() and the end of a process; kill() *)

(* fileclose(): p->ofile[fd] = 0; the last reference goes on to pipeclose(). *)
CloseRead(p) ==
  /\ pc[p] = "idle" /\ p \in rfd
  /\ rfd' = rfd \ {p}
  /\ Goto(p, IF rfd = {p} THEN "close_r" ELSE "idle")
  /\ UNCHANGED <<pipeVars, openVars, lock, wfd, killed, left, last>>

(* Faulty variant of CloseWrite: pipeclose() on every close, references left or not. *)
CloseWriteAlways(p) ==
  /\ pc[p] = "idle" /\ p \in wfd
  /\ wfd' = wfd \ {p}
  /\ Goto(p, "close_w")
  /\ UNCHANGED <<pipeVars, openVars, lock, rfd, killed, left, last>>

CloseWrite(p) ==
  /\ pc[p] = "idle" /\ p \in wfd
  /\ wfd' = wfd \ {p}
  /\ Goto(p, IF wfd = {p} THEN "close_w" ELSE "idle")
  /\ UNCHANGED <<pipeVars, openVars, lock, rfd, killed, left, last>>

(* pipeclose(), one hold of pi->lock, and kfree(pi) once both ends are closed. *)
PipeCloseRead(p) ==
  /\ pc[p] = "close_r" /\ lock = {}
  /\ readopen' = FALSE
  /\ freed' = ~writeopen
  /\ WakeWriters(p, "idle")
  /\ UNCHANGED <<pipeVars, writeopen, lock, fdVars, killed, left, last>>

PipeCloseWrite(p) ==
  /\ pc[p] = "close_w" /\ lock = {}
  /\ writeopen' = FALSE
  /\ freed' = ~readopen
  /\ WakeReaders(p, "idle")
  /\ UNCHANGED <<pipeVars, readopen, lock, fdVars, killed, left, last>>

(* kill(p): p->killed = 1; if p is asleep, it becomes RUNNABLE. *)
Kill(p) ==
  /\ ~killed[p]
  /\ killed' = [killed EXCEPT ![p] = TRUE]
  /\ pc' = [pc EXCEPT ![p] = IF @ = "w_asleep" THEN "w_acquire"
                             ELSE IF @ = "r_asleep" THEN "r_acquire" ELSE @]
  /\ UNCHANGED <<pipeVars, openVars, lock, fdVars, left, last>>

-----------------------------------------------------------------------------
WriteStep(p) == \/ WriteAcquire(p) \/ WriteCheck(p) \/ WriteGiveUp(p) \/ WriteSleep(p)
                \/ (\E v \in Bytes : WriteByte(p, v)) \/ WriteFault(p) \/ WriteEnd(p)
ReadStep(p) == \/ ReadAcquire(p) \/ ReadCheck(p) \/ ReadGiveUp(p) \/ ReadSleep(p)
               \/ ReadByte(p) \/ ReadEnd(p) \/ ReadFault(p)
CloseStep(p) == PipeCloseRead(p) \/ PipeCloseWrite(p)
Close(p) == CloseRead(p) \/ CloseWrite(p)

Next == \E p \in Procs : \/ CallWrite(p) \/ CallRead(p) \/ Close(p) \/ Kill(p)
                         \/ WriteStep(p) \/ ReadStep(p) \/ CloseStep(p)

Spec == Init /\ [][Next]_vars

(* A thread that can run does run, a spinning acquire() gets a lock that is    *)
(* released again and again, and a process with the read end open goes on      *)
(* reading or closes it.                                                       *)
Fairness ==
  /\ \A p \in Procs :
       /\ SF_vars(WriteStep(p) \/ ReadStep(p) \/ CloseStep(p))
       /\ WF_vars(CallRead(p) \/ CloseRead(p))

-----------------------------------------------------------------------------
(* Properties *)

TypeOK ==
  /\ data \in [0..(PIPESIZE - 1) -> Bytes] /\ last \in Bytes
  /\ nread \in 0..(CountMod - 1) /\ nwrite \in 0..(CountMod - 1)
  /\ readopen \in BOOLEAN /\ writeopen \in BOOLEAN /\ freed \in BOOLEAN
  /\ lock \in {{}} \cup {{p} : p \in Procs}
  /\ rfd \subseteq Readers /\ wfd \subseteq Writers
  /\ killed \in [Procs -> BOOLEAN] /\ pc \in [Procs -> Labels] /\ left \in [Procs -> Nat]

(* nwrite - nread, in unsigned arithmetic. *)
Count == (nwrite + CountMod - nread) % CountMod

(* What is between nread and nwrite in the ring, oldest byte first. *)
Contents == [k \in 1..Count |-> data[((nread + k - 1) % CountMod) % PIPESIZE]]

Queue == INSTANCE ByteQueue WITH Capacity <- PIPESIZE, queue <- Contents

(* The ring is a bounded FIFO queue, whatever the interleaving of readers and  *)
(* writers and also when the unsigned nread and nwrite wrap around: no byte is *)
(* overwritten, duplicated or reordered (pipewrite, piperead).                 *)
BytesInOrder == Queue!Spec

(* No reader is left asleep in piperead() with bytes in the pipe or with the   *)
(* write end closed.  The one exception the code makes: pipewrite() returns    *)
(* -1 without a wakeup() when its process is killed between two bytes.         *)
ReaderWoken ==
  \A p \in Procs : pc[p] = "r_asleep" /\ lock = {} =>
    writeopen /\ (Empty \/ \E q \in Writers : killed[q])

(* No writer is left asleep in pipewrite() with room in the pipe or with the   *)
(* read end closed.                                                            *)
WriterWoken ==
  \A p \in Procs : pc[p] = "w_asleep" /\ lock = {} => readopen /\ Full

(* Both: no call of piperead() or pipewrite() sleeps through the wakeup() that *)
(* the other end, or the close of it, owes it.                                 *)
SleepersWoken == ReaderWoken /\ WriterWoken

(* pipeclose() frees the pipe only when no process is inside pipe.c and none   *)
(* can enter it again, and the last close does free it.                        *)
FreedLast ==
  /\ freed => rfd = {} /\ wfd = {} /\ \A p \in Procs : pc[p] = "idle"
  /\ rfd = {} /\ wfd = {} /\ (\A p \in Procs : pc[p] = "idle") => freed

(* A write() returns as long as some process keeps reading or the read end is  *)
(* closed: the reader and the writer never wait for each other.                *)
WriteReturns ==
  \A p \in Procs : pc[p] = "w_acquire" ~> pc[p] = "idle"
=============================================================================
