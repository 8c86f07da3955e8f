----------------------------- MODULE AtomicLog ------------------------------
(***************************************************************************)
(* What the log (kernel/log.c) promises to the file system: operations     *)
(* between begin_op() and end_op() update blocks; the blocks that survive a *)
(* crash only ever change to those of a moment at which no operation was   *)
(* under way, all at once.                                                 *)
(***************************************************************************)
CONSTANTS Threads, Blocks, Vals, InitVal

VARIABLES current,  \* the blocks the operations read and write
          durable,  \* the blocks after a crash
          active    \* threads between begin_op() and end_op()

vars == <<current, durable, active>>

Init == /\ current = [b \in Blocks |-> InitVal]
        /\ durable = current
        /\ active = {}

Begin(t) == /\ t \notin active
            /\ active' = active \cup {t}
            /\ UNCHANGED <<current, durable>>

Write(b, v) == /\ active # {}
               /\ current' = [current EXCEPT ![b] = v]
               /\ UNCHANGED <<durable, active>>

End(t) == /\ t \in active
          /\ active' = active \ {t}
          /\ UNCHANGED <<current, durable>>

Commit == /\ active = {}
          /\ durable' = current
          /\ UNCHANGED <<current, active>>

Crash == /\ current' = durable
         /\ active' = {}
         /\ UNCHANGED durable

Next == \/ \E t \in Threads : Begin(t) \/ End(t)
        \/ \E b \in Blocks, v \in Vals : Write(b, v)
        \/ Commit \/ Crash

Spec == Init /\ [][Next]_vars

=============================================================================
