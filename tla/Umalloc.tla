------------------------------ MODULE Umalloc ------------------------------
(***************************************************************************)
(* user/umalloc.c: malloc() and free() of user programs, on a heap counted *)
(* in headers (units). malloc() takes a step for each block it looks at.   *)
(* The program may also call sbrk() itself, so that the heap has holes.    *)
(***************************************************************************)
EXTENDS Integers, FiniteSets, FiniteSetsExt

CONSTANTS NU,       \* the least number of units morecore() asks for
          Requests, \* sizes the program asks for, in units without the header
          Limit     \* where sbrk() fails

UmallocAssumption == NU \in Nat \ {0} /\ Limit \in Nat /\ Requests \subseteq Nat

VARIABLES ptr, size,  \* of each header
          freep,      \* 0 before the first malloc()
          brk,        \* end of the heap
          own,        \* units the program got from sbrk() itself
          alloc,      \* headers of the blocks in use
          m           \* malloc() in progress: units wanted, prevp and p

vars == <<ptr, size, freep, brk, own, alloc, m>>

(* base is in the program's data, below the heap and apart from it. *)
base == 1
Heap0 == 3
Headers == {base} \cup Heap0..Limit
Idle == [on |-> FALSE, nunits |-> 0, prevp |-> 0, p |-> 0]

Init ==
  /\ ptr = [h \in Headers |-> 0] /\ size = [h \in Headers |-> 0] /\ freep = 0
  /\ brk = Heap0 /\ own = {} /\ alloc = {} /\ m = Idle

-----------------------------------------------------------------------------
(* The loop of free(): the free block after which bp belongs. *)
RECURSIVE Place(_, _, _)
Place(pt, bp, p) ==
  IF (bp > p /\ bp < pt[p]) \/ (p >= pt[p] /\ (bp > p \/ bp < pt[p])) THEN p ELSE Place(pt, bp, pt[p])

(* Faulty variant of Freed: it is not joined with the block before. *)
FreedApart(pt, sz, bp, p) ==
  LET joined == bp + sz[bp] = pt[p]
      pt1 == [pt EXCEPT ![bp] = IF joined THEN pt[pt[p]] ELSE pt[p], ![p] = bp]
      sz1 == [sz EXCEPT ![bp] = IF joined THEN @ + sz[pt[p]] ELSE @]
  IN [ptr |-> pt1, size |-> sz1, freep |-> p]

(* free() of bp after p: joined with the block after it, and with the one before. *)
Freed(pt, sz, bp, p) ==
  LET up == bp + sz[bp] = pt[p]
      pt1 == [pt EXCEPT ![bp] = IF up THEN pt[pt[p]] ELSE pt[p]]
      sz1 == [sz EXCEPT ![bp] = IF up THEN @ + sz[pt[p]] ELSE @]
      down == p + sz1[p] = bp
  IN [ptr |-> [pt1 EXCEPT ![p] = IF down THEN pt1[bp] ELSE bp],
      size |-> [sz1 EXCEPT ![p] = IF down THEN @ + sz1[bp] ELSE @],
      freep |-> p]

Set(r) == ptr' = r.ptr /\ size' = r.size /\ freep' = r.freep

Free(bp) ==
  /\ ~m.on /\ bp \in alloc
  /\ Set(Freed(ptr, size, bp, Place(ptr, bp, freep)))
  /\ alloc' = alloc \ {bp}
  /\ UNCHANGED <<brk, own, m>>

(* The program calls sbrk() itself. *)
Sbrk ==
  /\ ~m.on /\ brk + 1 <= Limit /\ own = {}
  /\ brk' = brk + 1 /\ own' = own \cup {brk}
  /\ UNCHANGED <<ptr, size, freep, alloc, m>>

-----------------------------------------------------------------------------
(* malloc() up to its loop. *)
Malloc(n) ==
  LET first == freep = 0
      pt == IF first THEN [ptr EXCEPT ![base] = base] ELSE ptr
      fp == IF first THEN base ELSE freep
  IN /\ ~m.on
     /\ ptr' = pt /\ freep' = fp
     /\ m' = [on |-> TRUE, nunits |-> n + 1, prevp |-> fp, p |-> pt[fp]]
     /\ UNCHANGED <<size, brk, own, alloc>>

(* Faulty variant of Carve: the rest keeps its full size. *)
CarveWhole(p, prevp, n) ==
  IF size[p] = n THEN [ptr |-> [ptr EXCEPT ![prevp] = ptr[p]], size |-> size, got |-> p]
  ELSE [ptr |-> ptr, size |-> [size EXCEPT ![p + size[p] - n] = n], got |-> p + size[p] - n]

(* The block p is used whole, or its tail is. *)
Carve(p, prevp, n) ==
  IF size[p] = n THEN [ptr |-> [ptr EXCEPT ![prevp] = ptr[p]], size |-> size, got |-> p]
  ELSE [ptr |-> ptr, size |-> [size EXCEPT ![p] = @ - n, ![p + size[p] - n] = n], got |-> p + size[p] - n]

(* An iteration that finds a block. *)
MallocFound ==
  LET c == Carve(m.p, m.prevp, m.nunits) IN
  /\ m.on /\ size[m.p] >= m.nunits
  /\ ptr' = c.ptr /\ size' = c.size /\ freep' = m.prevp
  /\ alloc' = alloc \cup {c.got} /\ m' = Idle
  /\ UNCHANGED <<brk, own>>

(* Faulty variant of WrappedAround: the list is searched for ever. *)
WrappedAroundNot(p) == FALSE

WrappedAround(p) == p = freep

(* An iteration that goes on with the next block. *)
MallocNext ==
  /\ m.on /\ size[m.p] < m.nunits /\ ~WrappedAround(m.p)
  /\ m' = [m EXCEPT !.prevp = m.p, !.p = ptr[m.p]]
  /\ UNCHANGED <<ptr, size, freep, brk, own, alloc>>

(* morecore(): new memory is freed into the list, or malloc() returns 0. *)
MallocMore ==
  LET nu == Max({m.nunits, NU})
      sz == [size EXCEPT ![brk] = nu]
      r == Freed(ptr, sz, brk, Place(ptr, brk, freep))
  IN /\ m.on /\ size[m.p] < m.nunits /\ WrappedAround(m.p)
     /\ IF brk + nu <= Limit
        THEN /\ brk' = brk + nu /\ Set(r)
             /\ m' = [m EXCEPT !.prevp = r.freep, !.p = r.ptr[r.freep]]
        ELSE m' = Idle /\ UNCHANGED <<ptr, size, freep, brk>>
     /\ UNCHANGED <<own, alloc>>

Step == MallocFound \/ MallocNext \/ MallocMore
Next == Step \/ Sbrk \/ (\E n \in Requests : Malloc(n)) \/ (\E bp \in Headers : Free(bp))

Spec == Init /\ [][Next]_vars

(* The program runs. *)
Fairness == WF_vars(Step)

-----------------------------------------------------------------------------
RECURSIVE From(_, _)
From(h, seen) == IF h \in seen THEN seen ELSE From(ptr[h], seen \cup {h})
FreeList == IF freep = 0 THEN {} ELSE From(freep, {})
Units(h) == h..(h + size[h] - 1)

(* The free blocks, the blocks in use and what the program got by itself are   *)
(* the heap, and no unit belongs to two of them: malloc() never gives out      *)
(* memory that is in use, and no memory is lost.                               *)
HeapPartitioned ==
  LET blocks == (FreeList \ {base}) \cup alloc IN
  /\ own \cup UNION {Units(h) : h \in blocks} = Heap0..(brk - 1)
  /\ \A g, h \in blocks : g # h => Units(g) \cap Units(h) = {}
  /\ \A h \in blocks : Units(h) \cap own = {} /\ Units(h) # {}

(* The free list is a ring through base in the order of the addresses, and two *)
(* neighbours on the heap have been joined: free() finds its place from any    *)
(* freep, and memory does not fragment further than its use makes it.          *)
RingSorted ==
  freep # 0 =>
    /\ base \in FreeList
    /\ \A h \in FreeList : LET above == {g \in FreeList : g > h} IN
         /\ ptr[h] = IF above = {} THEN base ELSE Min(above)
         /\ h # base => h + size[h] # ptr[h]

Searching == m.on

(* malloc() returns, however often it has to go round. *)
MallocReturns == Searching ~> ~Searching

(* The state without what is not the header of a block. *)
Live == <<[h \in FreeList |-> ptr[h]], [h \in FreeList \cup alloc |-> size[h]], freep, brk, own, alloc, m>>
=============================================================================
