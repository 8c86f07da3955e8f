------------------------------- MODULE Memory -------------------------------
(***************************************************************************)
(* Physical pages and user page tables: kernel/kalloc.c, kernel/vm.c, and  *)
(* the memory side of fork(), exec(), sbrk() and exit() in kernel/proc.c,  *)
(* kernel/exec.c and kernel/sysproc.c, with kalloc() failing anywhere.     *)
(*                                                                         *)
(* Each system call is one step, computed on a record                      *)
(*   s = [free, data, pt, st]                                              *)
(* of the free pages, the page contents, the page table it works on and    *)
(* its fate: "ok", "oom" (an error is on its way back) or "panic".         *)
(* A page table is its root page, its inner pages and its leaf entries,    *)
(* with three levels of PTES entries each.                                 *)
(***************************************************************************)
EXTENDS Integers, FiniteSets, TLC, SequencesExt

CONSTANTS Procs,     \* process slots, the first process among them
          Init1,     \* the first process
          Pages,     \* physical pages, numbered from 1
          PTES,      \* entries of a page-table page (512)
          PG,        \* bytes of a page (4096)
          UintMod,   \* 2^32: the width of growproc()'s sz
          MaxSz,     \* bound: bytes of a process
          Vals       \* what user code writes into a page

MemoryAssumption ==
  /\ Init1 \in Procs /\ Pages \subseteq Nat \ {0} /\ IsFiniteSet(Pages)
  /\ PTES \in Nat /\ PTES > 1 /\ PG \in Nat \ {0}
  /\ MaxSz \in Nat /\ MaxSz <= PG * (PTES * PTES * PTES - 2) /\ UintMod > 2 * MaxSz

VARIABLES free, data,   \* kmem.freelist, the contents of the pages
          proc,         \* of a process: p->trapframe, p->pagetable, p->sz
          image,        \* history: what its program has put into its memory
          last          \* history: the last call, whether it failed, and a panic

vars == <<free, data, proc, image, last>>

TRAMPOLINE == PTES * PTES * PTES - 1
TRAPFRAME == TRAMPOLINE - 1
Kernel == 0                                  \* the page of the trampoline code
Unused == [tf |-> 0, sz |-> 0, pt |-> <<>>]
Fail(s, st) == [s EXCEPT !.st = st]

(* PGROUNDUP(sz) / PGSIZE. *)
Up(sz) == (sz + PG - 1) \div PG

(* n page numbers from v on. *)
Run(v, n) == [i \in 1..n |-> v + i - 1]

-----------------------------------------------------------------------------
(* kfree(): a page that is free already would be on the list twice. *)
KFree(s, pg) ==
  IF pg \in s.free \/ pg \notin Pages THEN Fail(s, "panic")
  ELSE [s EXCEPT !.free = @ \cup {pg}, !.data[pg] = "junk"]

(* The page kalloc() returns; it is one of the free ones, full of junk. *)
Page(s) == CHOOSE pg \in s.free : \A q \in s.free : pg <= q
KAlloc(s) == [s EXCEPT !.free = @ \ {Page(s)}, !.data[Page(s)] = "junk"]

(* walk(..., 1): the inner page k of the table, allocated if it is missing. *)
Node(s, k) ==
  IF s.st # "ok" \/ k \in DOMAIN s.pt.node THEN s
  ELSE IF s.free = {} THEN Fail(s, "oom")
  ELSE [KAlloc(s) EXCEPT !.pt.node = (k :> Page(s)) @@ @]
Walk(s, v) == FoldLeft(Node, s, << <<1, v \div (PTES * PTES)>>, <<0, v \div PTES>> >>)

(* mappages() of one page. *)
MapPage(s, v, pg) ==
  LET Set(t) == IF t.st # "ok" THEN t
                ELSE IF v \in DOMAIN t.pt.map THEN Fail(t, "panic")
                ELSE [t EXCEPT !.pt.map = (v :> pg) @@ @]
  IN Set(Walk(s, v))

(* uvmunmap() of one page, with or without kfree(). *)
Unmap(s, v, do_free) ==
  IF v \notin DOMAIN s.pt.map THEN Fail(s, "panic")
  ELSE LET t == [s EXCEPT !.pt.map = [u \in DOMAIN @ \ {v} |-> @[u]], !.pt.guard = @ \ {v}]
       IN IF do_free THEN KFree(t, s.pt.map[v]) ELSE t

UvmUnmap(s, v, n) == FoldLeft(LAMBDA t, u : Unmap(t, u, TRUE), s, Run(v, n))

(* uvmcreate(). *)
UvmCreate(s) ==
  IF s.free = {} THEN Fail(s, "oom")
  ELSE [KAlloc(s) EXCEPT !.pt = [root |-> Page(s), node |-> <<>>, map |-> <<>>, guard |-> {}]]

(* Faulty variant of UvmDealloc: the page of the new size goes as well. *)
UvmDeallocDown(s, old, new) ==
  IF new >= old \/ new \div PG >= Up(old) THEN s
  ELSE UvmUnmap(s, new \div PG, Up(old) - new \div PG)

UvmDealloc(s, old, new) ==
  IF new >= old \/ Up(new) >= Up(old) THEN s ELSE UvmUnmap(s, Up(new), Up(old) - Up(new))

(* Faulty variant of FreshPage: the page is not cleared. *)
FreshPageDirty(s, pg) == s

(* memset(mem, 0, PGSIZE). *)
FreshPage(s, pg) == [s EXCEPT !.data[pg] = "zero"]

(* Faulty variant of GiveBack: a page that could not be mapped is forgotten. *)
GiveBackNot(s, pg) == s

(* kfree(mem) when mappages() has failed. *)
GiveBack(s, pg) == KFree(s, pg)

(* uvmalloc(): undone as far as it got when a page or a table is missing. *)
UvmAlloc(s, old, new) ==
  LET Undo(t, v) == UvmDealloc(t, v * PG, Up(old) * PG)
      Check(u, v, pg) == IF u.st = "oom" THEN Undo(GiveBack(u, pg), v) ELSE u
      Grow(t, v) ==
        IF t.st # "ok" THEN t
        ELSE IF t.free = {} THEN Undo(Fail(t, "oom"), v)
        ELSE Check(MapPage(FreshPage(KAlloc(t), Page(t)), v, Page(t)), v, Page(t))
  IN IF new < old THEN s ELSE FoldLeft(Grow, s, Run(Up(old), Up(new) - Up(old)))

(* freewalk(): no leaf may be left. *)
FreeWalk(s) ==
  IF DOMAIN s.pt.map # {} THEN Fail(s, "panic")
  ELSE FoldLeft(KFree, s, SetToSeq({s.pt.node[k] : k \in DOMAIN s.pt.node} \cup {s.pt.root}))

UvmFree(s, sz) == FreeWalk(UvmUnmap(s, 0, Up(sz)))

(* Faulty variant of UndoCopy: the page that failed counts as copied. *)
UndoCopyToo(s, v) == UvmUnmap(s, 0, v + 1)

(* uvmcopy()'s err: the i / PGSIZE pages copied so far. *)
UndoCopy(s, v) == UvmUnmap(s, 0, v)

(* uvmcopy(): from page table old into the one of s. *)
UvmCopy(s, old, sz) ==
  LET Check(u, v, pg) == IF u.st = "oom" THEN UndoCopy(GiveBack(u, pg), v)
                         ELSE [u EXCEPT !.pt.guard = @ \cup ({v} \cap old.guard)]
      Filled(t, v) == [KAlloc(t) EXCEPT !.data[Page(t)] = t.data[old.map[v]]]
      Copy(t, v) ==
        IF t.st # "ok" THEN t
        ELSE IF v \notin DOMAIN old.map THEN Fail(t, "panic")
        ELSE IF t.free = {} THEN UndoCopy(Fail(t, "oom"), v)
        ELSE Check(MapPage(Filled(t, v), v, Page(t)), v, Page(t))
  IN FoldLeft(Copy, s, Run(0, Up(sz)))

(* proc_pagetable(): the trampoline and the trapframe, or nothing. *)
ProcPagetable(s, tf) ==
  LET Third(c) == IF c.st # "ok" THEN UvmFree(Unmap(c, TRAMPOLINE, FALSE), 0) ELSE c
      Second(b) == IF b.st # "ok" THEN UvmFree(b, 0) ELSE Third(MapPage(b, TRAPFRAME, tf))
      First(a) == IF a.st # "ok" THEN a ELSE Second(MapPage(a, TRAMPOLINE, Kernel))
  IN First(UvmCreate(s))

ProcFreePagetable(s, sz) == UvmFree(Unmap(Unmap(s, TRAMPOLINE, FALSE), TRAPFRAME, FALSE), sz)

-----------------------------------------------------------------------------
Now(pt) == [free |-> free, data |-> data, pt |-> pt, st |-> "ok"]
Used(p) == proc[p].tf # 0

(* Faulty variant of FreeProc: the trapframe page is forgotten. *)
FreeProcTable(s, tf, sz) == ProcFreePagetable(s, sz)

(* freeproc(): the trapframe, then the page table. *)
FreeProc(s, tf, sz) == ProcFreePagetable(KFree(s, tf), sz)

(* allocproc(): a trapframe and a page table. *)
AllocProc(s) ==
  LET Check(t) == IF t.st = "oom" THEN KFree(t, Page(s)) ELSE t
  IN IF s.free = {} THEN Fail(s, "oom") ELSE Check(ProcPagetable(KAlloc(s), Page(s)))

(* userinit(): one page, with the first program. *)
Init ==
  \E all \in {[free |-> Pages, data |-> [pg \in Pages |-> "junk"], pt |-> <<>>, st |-> "ok"]} :
  \E s \in {AllocProc(all)} : \E t \in {MapPage(KAlloc(s), 0, Page(s))} :
     /\ free = t.free /\ data = [t.data EXCEPT ![Page(s)] = "text"]
     /\ proc = [p \in Procs |-> IF p = Init1 THEN [tf |-> Page(all), sz |-> PG, pt |-> t.pt] ELSE Unused]
     /\ image = [p \in Procs |-> IF p = Init1 THEN 0 :> "text" ELSE <<>>]
     /\ last = [op |-> "boot", st |-> t.st]

(* The effect of call op that ended in s, on process p and its memory image. *)
Done(op, s, p, new, mem) ==
  /\ free' = s.free /\ data' = s.data
  /\ proc' = [proc EXCEPT ![p] = new]
  /\ image' = [image EXCEPT ![p] = mem]
  /\ last' = [op |-> op, st |-> s.st]

(* fork(): the memory of p for slot q. *)
Fork(p, q) ==
  /\ Used(p) /\ ~Used(q)
  /\ \E a \in {AllocProc(Now(<<>>))} : \E b \in {UvmCopy(a, proc[p].pt, proc[p].sz)} :
       LET tf == Page(Now(<<>>)) IN
       IF a.st # "ok" THEN Done("fork", a, q, Unused, <<>>)
       ELSE IF b.st # "ok" THEN Done("fork", FreeProc(b, tf, 0), q, Unused, <<>>)
       ELSE Done("fork", b, q, [tf |-> tf, sz |-> proc[p].sz, pt |-> b.pt], image[p])

(* exec()'s loop: a segment that ends at byte e, loaded with the program. *)
Load(x, e) ==
  LET Fill(s) ==
        IF s.st # "ok" THEN [x EXCEPT !.s = s]
        ELSE [s |-> [s EXCEPT !.data = [pg \in Pages |->
                       IF \E v \in Up(x.sz)..(Up(e) - 1) : s.pt.map[v] = pg THEN "text" ELSE @[pg]]],
              sz |-> IF e < x.sz THEN x.sz ELSE e]
  IN IF x.s.st # "ok" THEN x ELSE Fill(UvmAlloc(x.s, x.sz, e))

(* exec() of a program with segments ending at ends; bad: the file cannot be   *)
(* read ("file"), or the arguments do not fit on the stack ("args").           *)
Exec(p, ends, bad) ==
  /\ Used(p)
  /\ \E a \in {ProcPagetable(Now(<<>>), proc[p].tf)} : \E x \in {FoldLeft(Load, [s |-> a, sz |-> 0], ends)} :
     \E y \in {UvmAlloc(x.s, Up(x.sz) * PG, Up(x.sz) * PG + 2 * PG)} :
     LET base == Up(x.sz) * PG
         top == Up(x.sz) + 1
         z == [y EXCEPT !.pt.guard = {top - 1}, !.data[y.pt.map[top]] = "args"]
         Bad(s, sz) == Done("exec", ProcFreePagetable(Fail(s, "oom"), sz), p, proc[p], image[p])
     IN /\ base + 2 * PG <= MaxSz
        /\ IF a.st # "ok" THEN Done("exec", a, p, proc[p], image[p])
           ELSE IF x.s.st # "ok" \/ bad = "file" THEN Bad(x.s, x.sz)
           ELSE IF y.st # "ok" THEN Bad(y, base)
           ELSE IF bad = "args" THEN Bad(z, base + 2 * PG)
           ELSE Done("exec", ProcFreePagetable([z EXCEPT !.pt = proc[p].pt], proc[p].sz), p,
                     [tf |-> proc[p].tf, sz |-> base + 2 * PG, pt |-> z.pt],
                     [v \in 0..top |-> IF v = top THEN "args" ELSE IF v = top - 1 THEN "zero" ELSE "text"])

(* Faulty variant of Kept: p->sz is left rounded up, as uvmalloc() rounds it. *)
KeptRounded(sz) == Up(sz) * PG

(* p->sz after a growproc() that returns -1. *)
Kept(sz) == sz

(* sbrk(n), that is growproc(n): sz + n is computed in 32 bits. *)
Sbrk(p, n) ==
  LET sz == proc[p].sz
      new == (sz + n) % UintMod
      After(s, nsz) ==
        Done("sbrk", s, p, [proc[p] EXCEPT !.pt = s.pt, !.sz = nsz],
             [v \in 0..(Up(nsz) - 1) |-> IF v \in DOMAIN image[p] THEN image[p][v] ELSE "zero"])
  IN /\ Used(p) /\ sz + n <= MaxSz
     /\ \E s \in {IF n > 0 THEN UvmAlloc(Now(proc[p].pt), sz, new) ELSE UvmDealloc(Now(proc[p].pt), sz, new)} :
          After(s, IF s.st = "oom" THEN Kept(sz) ELSE IF n < 0 /\ new >= sz THEN sz ELSE new)

(* freeproc() of a process that has exited. *)
Reap(p) ==
  /\ Used(p) /\ p # Init1
  /\ Done("reap", FreeProc(Now(proc[p].pt), proc[p].tf, proc[p].sz), p, Unused, <<>>)

(* The program writes to a page it may access. *)
Write(p, v, val) ==
  /\ Used(p) /\ v \in DOMAIN image[p] /\ v \notin proc[p].pt.guard
  /\ data' = [data EXCEPT ![proc[p].pt.map[v]] = val]
  /\ image' = [image EXCEPT ![p][v] = val]
  /\ last' = [op |-> "write", st |-> "ok"]
  /\ UNCHANGED <<free, proc>>

(* Programs of exec(): one segment, two, or two that overlap. *)
Programs == {<<PG - 1>>, <<PG, 2 * PG>>, <<PG + 1, PG>>}

Next ==
  /\ last.st # "panic"
  /\ \E p \in Procs :
       \/ \E q \in Procs : Fork(p, q)
       \/ \E ends \in Programs, bad \in {"none", "file", "args"} : Exec(p, ends, bad)
       \/ (\E n \in {-(PG + 1), -1, 1, PG + 1} : Sbrk(p, n))
       \/ Reap(p)
       \/ \E v \in DOMAIN image[p], val \in Vals : Write(p, v, val)

Spec == Init /\ [][Next]_vars

-----------------------------------------------------------------------------
Users == {p \in Procs : Used(p)}
UserMap(p) == {v \in DOMAIN proc[p].pt.map : v < TRAPFRAME}
PagesOf(p) ==
  {proc[p].tf, proc[p].pt.root} \cup {proc[p].pt.node[k] : k \in DOMAIN proc[p].pt.node}
    \cup {proc[p].pt.map[v] : v \in UserMap(p)}
CountOf(p) == 2 + Cardinality(DOMAIN proc[p].pt.node) + Cardinality(UserMap(p))

(* Every page is free or has exactly one owner and one use: no call, whether   *)
(* it succeeds or runs out of memory anywhere, loses a page, frees it twice or *)
(* leaves it with two owners.                                                  *)
PagesAccounted ==
  /\ free \cup UNION {PagesOf(p) : p \in Users} = Pages
  /\ MapThenSumSet(CountOf, Users) + Cardinality(free) = Cardinality(Pages)

(* A program finds in its memory what it, or the parent it was forked from,    *)
(* has put there, and zeros in new pages: never another program's bytes or the *)
(* contents of freed pages.                                                    *)
ImageKept ==
  \A p \in Users : \A v \in UserMap(p) : data[proc[p].pt.map[v]] = image[p][v]

(* The pages below p->sz are mapped, no others are, and the page table ends    *)
(* with the trapframe of the process and the trampoline: what uvmcopy(),       *)
(* uvmunmap() and freewalk() take for granted.                                 *)
SizesMapped ==
  \A p \in Users :
    /\ UserMap(p) = 0..(Up(proc[p].sz) - 1)
    /\ proc[p].pt.map[TRAPFRAME] = proc[p].tf /\ proc[p].pt.map[TRAMPOLINE] = Kernel

(* Undoing a failed call reaches none of the panics of mappages(), uvmunmap(), *)
(* freewalk() and uvmcopy(), and frees no page twice.                          *)
NoPanic == last.st # "panic"

(* A fork() or exec() that fails for want of memory, or on a bad file, leaves  *)
(* the processes as they were and as many free pages as before; a failed       *)
(* sbrk() leaves the size and the mappings.                                    *)
FailureLeavesNothing ==
  last'.st = "oom" =>
    /\ last'.op \in {"fork", "exec"} => proc' = proc /\ Cardinality(free') = Cardinality(free)
    /\ last'.op = "sbrk" => \A p \in Users : proc'[p].sz = proc[p].sz /\ proc'[p].pt.map = proc[p].pt.map

-----------------------------------------------------------------------------
(* The state up to which page a process got: how many pages are free and in    *)
(* use, the shapes of the page tables and the contents of the mapped pages.    *)
Shape(p) ==
  IF Used(p) THEN <<proc[p].sz, proc[p].pt.guard, DOMAIN proc[p].pt.node,
                    [v \in DOMAIN proc[p].pt.map |-> IF v < TRAPFRAME THEN data[proc[p].pt.map[v]] ELSE v]>>
  ELSE <<>>
Shapes == <<Cardinality(free), Cardinality(free \cup UNION {PagesOf(p) : p \in Users}),
            [p \in Procs |-> Shape(p)], image, last>>
=============================================================================
