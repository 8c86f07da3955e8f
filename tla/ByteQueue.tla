----------------------------- MODULE ByteQueue ------------------------------
(***************************************************************************)
(* What a pipe (kernel/pipe.c) promises: a bounded first-in first-out      *)
(* queue of bytes.  A byte whose copyout() fails is taken from the queue   *)
(* and lost.                                                               *)
(***************************************************************************)
EXTENDS Naturals, Sequences

CONSTANTS Bytes, Capacity

VARIABLES queue, last  \* last: the byte delivered most recently

vars == <<queue, last>>

Init == queue = <<>> /\ last \in Bytes

Put(v) == /\ Len(queue) < Capacity
          /\ queue' = Append(queue, v)
          /\ UNCHANGED last

Get == /\ queue # <<>>
       /\ queue' = Tail(queue)
       /\ last' = Head(queue)

Lose == /\ queue # <<>>
        /\ queue' = Tail(queue)
        /\ UNCHANGED last

Next == (\E v \in Bytes : Put(v)) \/ Get \/ Lose

Spec == Init /\ [][Next]_vars

=============================================================================
