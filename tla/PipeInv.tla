------------------------------ MODULE PipeInv -------------------------------
(***************************************************************************)
(* The inductive invariant of Pipe, in layers: each layer is inductive     *)
(* relative to the ones above it.                                          *)
(***************************************************************************)
EXTENDS Pipe

(* The labels of pipewrite() and piperead(), and those at which pi->lock is held. *)
InWrite == {"w_acquire", "w_check", "w_body", "w_asleep", "w_end"}
InRead == {"r_acquire", "r_check", "r_sleep", "r_asleep", "r_copy"}
Holding == {"w_check", "w_body", "w_end", "r_check", "r_sleep", "r_copy"}

-----------------------------------------------------------------------------
(* Layer 1, besides the types: who holds pi->lock, and what of the ring is in use. *)
LockInv == \A p \in Procs : p \in lock <=> pc[p] \in Holding

RingInv == Count <= PIPESIZE

(* Layer 2: a process inside a call has its end open, an end is open until  *)
(* its last close is through, and the pipe is freed with the second end.    *)
OpenInv ==
  /\ \A p \in Procs : /\ pc[p] \in InWrite => p \in wfd
                      /\ pc[p] \in InRead => p \in rfd
                      /\ pc[p] = "close_r" => rfd = {} /\ \A q \in Procs : pc[q] = "close_r" => q = p
                      /\ pc[p] = "close_w" => wfd = {} /\ \A q \in Procs : pc[q] = "close_w" => q = p
  /\ readopen <=> rfd # {} \/ \E p \in Procs : pc[p] = "close_r"
  /\ writeopen <=> wfd # {} \/ \E p \in Procs : pc[p] = "close_w"
  /\ freed <=> ~readopen /\ ~writeopen

(* Layer 3: what a holder of pi->lock has checked stays true until it releases it. *)
CheckedInv ==
  \A p \in Procs : /\ pc[p] = "w_body" => readopen /\ left[p] > 0
                   /\ pc[p] = "r_sleep" => writeopen /\ Empty

(* Layer 4: whoever sleeps has nothing to do, or the holder of pi->lock is   *)
(* on its way to the wakeup(), or a writer was killed and gave up.           *)
SleepInv ==
  \A p \in Procs :
    /\ pc[p] = "r_asleep" =>
         /\ writeopen
         /\ \/ Empty
            \/ \E q \in Writers : killed[q]
            \/ \E q \in Procs : pc[q] \in {"w_check", "w_body", "w_end"}
    /\ pc[p] = "w_asleep" => readopen /\ (Full \/ \E q \in Procs : pc[q] = "r_copy")

IInv == TypeOK /\ LockInv /\ RingInv /\ OpenInv /\ CheckedInv /\ SleepInv

=============================================================================
