----------------------------- MODULE ListProofs -----------------------------
(***************************************************************************)
(* For any heads and nodes, the two directions of the lists of             *)
(* kernel/list.c agree after every operation.                              *)
(***************************************************************************)
EXTENDS List, TLAPS

ListInv == TypeOK /\ Linked

(* __list_add() puts an entry that is linked to itself between two neighbours. *)
LEMMA AddLinked ==
  ASSUME ListInv, NEW x \in All, NEW p \in All, NEW n \in All,
         next[x] = x, p # x, n # x, next[p] = n, ListAdd(x, p, n)
  PROVE  ListInv'
<1>1. TypeOK'
  BY DEF ListInv, TypeOK, ListAdd
<1>2. prev[n] = p /\ prev[x] = x
  BY DEF ListInv, Linked
<1>3. next'[x] = n /\ next'[p] = x /\ \A y \in All \ {x, p} : next'[y] = next[y]
  BY DEF ListInv, TypeOK, ListAdd
<1>4. prev'[x] = p /\ prev'[n] = x /\ \A y \in All \ {x, n} : prev'[y] = prev[y]
  BY DEF ListInv, TypeOK, ListAdd
<1>5. ASSUME NEW y \in All PROVE prev'[next'[y]] = y
  BY <1>2, <1>3, <1>4, <1>5 DEF ListInv, TypeOK, Linked
<1>6. ASSUME NEW y \in All PROVE next'[prev'[y]] = y
  BY <1>2, <1>3, <1>4, <1>6 DEF ListInv, TypeOK, Linked
<1> QED BY <1>1, <1>5, <1>6 DEF ListInv, Linked

(* Taking an entry out joins its neighbours; an entry in no list stays as it is. *)
LEMMA DelLinked ==
  ASSUME ListInv, NEW x \in All, ListDel(x, prev[x], next[x])
  PROVE  ListInv'
<1> DEFINE p == prev[x]  n == next[x]
<1>1. p \in All /\ n \in All /\ next[p] = x /\ prev[n] = x
  BY DEF ListInv, TypeOK, Linked
<1>2. TypeOK'
  BY <1>1 DEF ListInv, TypeOK, ListDel
<1>3. next'[x] = x /\ (p # x => next'[p] = n) /\ \A y \in All \ {x, p} : next'[y] = next[y]
  BY <1>1 DEF ListInv, TypeOK, ListDel
<1>4. prev'[x] = x /\ (n # x => prev'[n] = p) /\ \A y \in All \ {x, n} : prev'[y] = prev[y]
  BY <1>1 DEF ListInv, TypeOK, ListDel
<1>5. ASSUME NEW y \in All PROVE prev'[next'[y]] = y
  BY <1>1, <1>3, <1>4, <1>5 DEF ListInv, TypeOK, Linked
<1>6. ASSUME NEW y \in All PROVE next'[prev'[y]] = y
  BY <1>1, <1>3, <1>4, <1>6 DEF ListInv, TypeOK, Linked
<1> QED BY <1>2, <1>5, <1>6 DEF ListInv, Linked

(* Following next and then prev, or prev and then next, leads back to the same  *)
(* entry at all times: the lists of kernel/list.c are never torn.               *)
THEOREM ListLinked == Spec => []Linked
<1>1. Init => ListInv
  BY DEF Init, ListInv, TypeOK, Linked
<1>2. ListInv /\ [Next]_vars => ListInv'
  <2> SUFFICES ASSUME ListInv, [Next]_vars PROVE ListInv'
    OBVIOUS
  <2>1. ASSUME NEW x \in Nodes, list_del(x) PROVE ListInv'
    BY <2>1, DelLinked DEF list_del, All
  <2>2. ASSUME NEW x \in Nodes, list_del_init(x) PROVE ListInv'
    BY <2>2, DelLinked DEF list_del_init, All
  <2>3. ASSUME NEW x \in Nodes, NEW h \in Heads, list_add(h, x) PROVE ListInv'
    <3>1. x \in All /\ h \in All /\ h # x /\ next[h] \in All /\ next[x] = x
      BY <2>3, ListAssumption DEF ListInv, TypeOK, All, list_add, Off
    <3>2. next[h] # x
      BY <3>1 DEF ListInv, Linked
    <3> QED BY <2>3, <3>1, <3>2, AddLinked DEF list_add
  <2>4. ASSUME NEW x \in Nodes, NEW h \in Heads, list_add_tail(h, x) PROVE ListInv'
    <3>1. x \in All /\ h \in All /\ h # x /\ prev[h] \in All /\ next[x] = x
      BY <2>4, ListAssumption DEF ListInv, TypeOK, All, list_add_tail, Off
    <3>2. prev[h] # x /\ next[prev[h]] = h
      BY <3>1 DEF ListInv, Linked
    <3> QED BY <2>4, <3>1, <3>2, AddLinked DEF list_add_tail
  <2>5. CASE UNCHANGED vars
    BY <2>5 DEF vars, ListInv, TypeOK, Linked
  <2> QED BY <2>1, <2>2, <2>3, <2>4, <2>5 DEF Next
<1>3. ListInv => Linked
  BY DEF ListInv
<1> QED BY <1>1, <1>2, <1>3, PTL DEF Spec
=============================================================================
