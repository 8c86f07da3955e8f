-------------------------------- MODULE List --------------------------------
(***************************************************************************)
(* kernel/list.c: circular doubly linked lists of process entries. Heads   *)
(* and nodes are list_heads alike; init_list_head() has made each point to *)
(* itself. The assignments are applied in the order of the code, since the *)
(* pointers they go through may be the same node.                          *)
(***************************************************************************)
EXTENDS Integers, FiniteSets

CONSTANTS Heads, Nodes

ASSUME ListAssumption == Heads \cap Nodes = {}

VARIABLES next, prev

vars == <<next, prev>>
All == Heads \cup Nodes

Init == next = [x \in All |-> x] /\ prev = [x \in All |-> x]

(* __list_add(new, pr, nx). *)
ListAdd(new, pr, nx) ==
  /\ prev' = [prev EXCEPT ![nx] = new, ![new] = pr]
  /\ next' = [next EXCEPT ![new] = nx, ![pr] = new]

(* Faulty variant of ListDel: the node behind is not told. *)
ListDelHalf(entry, pr, nx) ==
  /\ prev' = [prev EXCEPT ![entry] = entry]
  /\ next' = [next EXCEPT ![pr] = nx, ![entry] = entry]

(* __list_del(pr, nx), then entry points to itself. *)
ListDel(entry, pr, nx) ==
  /\ prev' = [prev EXCEPT ![nx] = pr, ![entry] = entry]
  /\ next' = [next EXCEPT ![pr] = nx, ![entry] = entry]

(* Callers add a node that is in no list. *)
Off(x) == next[x] = x

list_add(h, x) == Off(x) /\ ListAdd(x, h, next[h])

(* Faulty variant of list_add_tail: it adds in front of the last node. *)
list_add_tailFront(h, x) == Off(x) /\ ListAdd(x, prev[prev[h]], prev[h])

list_add_tail(h, x) == Off(x) /\ ListAdd(x, prev[h], h)

list_del(x) == ListDel(x, prev[x], next[x])
list_del_init(x) == ListDel(x, prev[x], next[x])

Next == \E x \in Nodes : list_del(x) \/ list_del_init(x) \/ \E h \in Heads : list_add(h, x) \/ list_add_tail(h, x)

Spec == Init /\ [][Next]_vars

-----------------------------------------------------------------------------
TypeOK == next \in [All -> All] /\ prev \in [All -> All]

(* next and prev undo each other at every node, so that walking a list either  *)
(* way, or from any place, meets the same nodes: no operation leaves a pointer *)
(* to a node that has been taken out.                                          *)
Linked == \A x \in All : prev[next[x]] = x /\ next[prev[x]] = x

(* The nodes met from head h on. *)
Contents(h) ==
  LET at[n \in 1..(Cardinality(Nodes) + 1)] == IF n = 1 THEN next[h] ELSE next[at[n - 1]]
      end == CHOOSE n \in DOMAIN at : at[n] = h /\ \A k \in 1..(n - 1) : at[k] # h
  IN [n \in 1..(end - 1) |-> at[n]]

Q == INSTANCE ListQueue WITH queue <- [h \in Heads |-> Contents(h)]

(* The lists are the queues of ListQueue: nodes come out in the order they     *)
(* were put in at either end, and deleting one keeps the order of the others.  *)
QueueSpec == Q!Spec
=============================================================================
