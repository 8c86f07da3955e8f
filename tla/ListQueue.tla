----------------------------- MODULE ListQueue -----------------------------
(***************************************************************************)
(* What kernel/list.c promises its callers: queues that a node is put in   *)
(* at either end and taken out of anywhere, a node in one queue at a time. *)
(***************************************************************************)
EXTENDS Sequences, SequencesExt

CONSTANTS Heads, Nodes

VARIABLE queue

Queued(x) == \E h \in Heads : x \in ToSet(queue[h])

Init == queue = [h \in Heads |-> <<>>]

Add(h, x) == ~Queued(x) /\ queue' = [queue EXCEPT ![h] = <<x>> \o @]
AddTail(h, x) == ~Queued(x) /\ queue' = [queue EXCEPT ![h] = Append(@, x)]
Del(x) == queue' = [h \in Heads |-> SelectSeq(queue[h], LAMBDA y : y # x)]

Next == \E x \in Nodes : Del(x) \/ \E h \in Heads : Add(h, x) \/ AddTail(h, x)

Spec == Init /\ [][Next]_queue
=============================================================================
