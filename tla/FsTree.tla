------------------------------- MODULE FsTree -------------------------------
(***************************************************************************)
(* Inodes, directories and path names: the inode table of kernel/fs.c and  *)
(* the calls of kernel/sysfile.c that change the tree (link, unlink, open, *)
(* mkdir, chdir, close), by processes that interleave wherever the code    *)
(* takes an inode's sleep-lock or the spin-lock of the inode table.        *)
(*                                                                         *)
(* A process in a call has a label pc, the inodes ip and dp of the C       *)
(* function, the inode s that it is about to iput(), the label k to        *)
(* continue at after that, and the labels yes and no where namex() returns *)
(* to. File contents are left to module FileContent; the logging of each   *)
(* call is left to Log.                                                    *)
(***************************************************************************)
EXTENDS Integers, FiniteSets, Sequences

CONSTANTS Procs, Nobody,  \* processes, and no process
          Inums,          \* inodes on disk, 1 is the root
          Names,          \* names of directory entries
          Calls(_),       \* the system calls each process makes
          MaxCalls        \* bound: calls per process

FsTreeAssumption ==
  /\ Nobody \notin Procs /\ 1 \in Inums /\ Inums \subseteq Nat \ {0} /\ IsFiniteSet(Inums)
  /\ Names \cap {".", "..", "/"} = {} /\ MaxCalls \in Nat

VARIABLES disk,     \* of an inode on disk: type, nlink, and a directory's entries
          itable,   \* the inode table: inum, ref, valid, and the copies of type and nlink
          lk,       \* ip->lock: the process that holds it
          cwd, ofile, \* p->cwd, and an open file of p
          th,       \* what each process is doing
          panic

vars == <<disk, itable, lk, cwd, ofile, th, panic>>
tables == <<cwd, ofile, panic>>

ROOT == 1
None == 0
Slots == 1..Cardinality(Inums)      \* with fewer, iget() can panic
Dots == {".", ".."}
NoEnts == [n \in Names \cup Dots |-> None]

Init ==
  /\ disk = [i \in Inums |-> IF i = ROOT THEN [type |-> "dir", nlink |-> 1, ent |-> [n \in Names \cup Dots |->
                                                IF n \in Dots THEN ROOT ELSE None]]
                             ELSE [type |-> "none", nlink |-> 0, ent |-> NoEnts]]
  /\ itable = [s \in Slots |-> [inum |-> IF s = 1 THEN ROOT ELSE None, ref |-> IF s = 1 THEN Cardinality(Procs) ELSE 0,
                                valid |-> FALSE, type |-> "none", nlink |-> 0]]
  /\ lk = [s \in Slots |-> Nobody]
  /\ cwd = [p \in Procs |-> 1]
  /\ ofile = [p \in Procs |-> None]
  /\ th = [p \in Procs |-> [pc |-> "user", left |-> MaxCalls]]
  /\ panic = FALSE

-----------------------------------------------------------------------------
(* iget(): the slot of inode i in table t, and the table with a reference. *)
SlotOf(t, i) ==
  IF \E s \in Slots : t[s].ref > 0 /\ t[s].inum = i
  THEN CHOOSE s \in Slots : t[s].ref > 0 /\ t[s].inum = i
  ELSE CHOOSE s \in Slots : t[s].ref = 0 /\ \A r \in Slots : t[r].ref = 0 => s <= r

IGet(t, i) ==
  LET s == SlotOf(t, i) IN
  [t EXCEPT ![s] = IF @.ref > 0 THEN [@ EXCEPT !.ref = @ + 1]
                   ELSE [inum |-> i, ref |-> 1, valid |-> FALSE, type |-> "none", nlink |-> 0]]

(* Faulty variant of IDup: the reference is not counted. *)
IDupNot(t, s) == t

IDup(t, s) == [t EXCEPT ![s].ref = @ + 1]

(* p goes on at label l, with some of its locals changed. *)
At(p, l) == th[p].pc = l
Go(p, l) == th' = [th EXCEPT ![p].pc = l]
GoSet(p, l, f, s) == th' = [th EXCEPT ![p] = [@ EXCEPT !.pc = l, ![f] = s]]

(* iput(s), then label k; iunlockput(s) is the same with the lock released. *)
PutThen(p, s, k) == th' = [th EXCEPT ![p] = [@ EXCEPT !.pc = "iput", !.s = s, !.k = k]]
Unlock(s) == lk' = [lk EXCEPT ![s] = Nobody]
UnlockPut(p, s, k) == PutThen(p, s, k) /\ Unlock(s)

Inode(s) == itable[s].inum
Ents(s) == disk[Inode(s)].ent

(* ip->nlink += d; iupdate(ip), on the table and the disk. *)
NlinkMem(t, s, d) == [t EXCEPT ![s].nlink = @ + d]
NlinkDisk(dk, s, d) == [dk EXCEPT ![Inode(s)].nlink = itable[s].nlink + d]

-----------------------------------------------------------------------------
(* The labels where the code calls ilock(), the local it locks and where it  *)
(* goes on.                                                                  *)
LockAt ==
  [namex |-> <<"ip", "namex_in">>, link |-> <<"ip", "link_inc">>, link_dp |-> <<"dp", "link_add">>,
   link_bad |-> <<"ip", "link_undo">>, unlink |-> <<"dp", "unlink_look">>, unlink_ip |-> <<"ip", "unlink_do">>,
   create |-> <<"dp", "create_look">>, create_old |-> <<"ip", "create_type">>, create_new |-> <<"ip", "create_fill">>,
   open |-> <<"ip", "open_type">>, chdir |-> <<"ip", "chdir_type">>]

Wanted(p) == LET f == LockAt[th[p].pc][1] IN th[p][f]
Locking(p) == th[p].pc \in DOMAIN LockAt /\ ~(th[p].pc = "namex" /\ th[p].path = <<>>)

(* ilock(): acquiresleep(), and read the inode from disk if that is due. *)
ILock(p) ==
  LET s == Wanted(p)  d == disk[Inode(s)] IN
  /\ Locking(p) /\ lk[s] = Nobody
  /\ lk' = [lk EXCEPT ![s] = p]
  /\ itable' = IF itable[s].valid THEN itable
               ELSE [itable EXCEPT ![s] = [@ EXCEPT !.valid = TRUE, !.type = d.type, !.nlink = d.nlink]]
  /\ panic' = (itable[s].ref < 1 \/ itable'[s].type = "none")
  /\ Go(p, LockAt[th[p].pc][2])
  /\ UNCHANGED <<disk, cwd, ofile>>

(* Faulty variant of LastRef: links are not looked at. *)
LastRefOnly(s) == itable[s].ref = 1 /\ itable[s].valid


(* iput()'s test for freeing the inode, under itable.lock. *)
LastRef(s) == itable[s].ref = 1 /\ itable[s].valid /\ itable[s].nlink = 0

(* iput() that only drops the reference. *)
IputDrop(p) ==
  LET s == th[p].s IN
  /\ (At(p, "iput") /\ ~LastRef(s)) \/ At(p, "iput_dec")
  /\ itable' = [itable EXCEPT ![s].ref = @ - 1]
  /\ Go(p, th[p].k)
  /\ UNCHANGED <<disk, lk, tables>>

(* acquiresleep() with itable.lock held: sleeping there would panic. *)
IputTake(p) ==
  LET s == th[p].s IN
  /\ At(p, "iput") /\ LastRef(s)
  /\ lk' = [lk EXCEPT ![s] = p]
  /\ panic' = (lk[s] # Nobody)
  /\ Go(p, "iput_free")
  /\ UNCHANGED <<disk, itable, cwd, ofile>>

(* itrunc(ip); ip->type = 0; iupdate(ip). *)
IputFree(p) ==
  LET s == th[p].s IN
  /\ At(p, "iput_free")
  /\ disk' = [disk EXCEPT ![Inode(s)] = [type |-> "none", nlink |-> 0, ent |-> NoEnts]]
  /\ itable' = [itable EXCEPT ![s].type = "none"]
  /\ Go(p, "iput_valid")
  /\ UNCHANGED <<lk, tables>>

(* Faulty variant of Invalid: the table entry keeps its copy. *)
InvalidNot(t, s) == t

Invalid(t, s) == [t EXCEPT ![s].valid = FALSE]

(* ip->valid = 0; releasesleep(&ip->lock). *)
IputValid(p) ==
  /\ At(p, "iput_valid")
  /\ itable' = Invalid(itable, th[p].s)
  /\ Unlock(th[p].s)
  /\ Go(p, "iput_dec")
  /\ UNCHANGED <<disk, tables>>

Iput(p) == IputDrop(p) \/ IputTake(p) \/ IputFree(p) \/ IputValid(p)

-----------------------------------------------------------------------------
(* namex() of path, from the root or from the current directory. *)
Namex(p, path, parent, yes, no, locals) ==
  LET abs == path[1] = "/"  s == IF abs THEN SlotOf(itable, ROOT) ELSE cwd[p] IN
  /\ itable' = IF abs THEN IGet(itable, ROOT) ELSE IDup(itable, cwd[p])
  /\ th' = [th EXCEPT ![p] = [pc |-> "namex", left |-> @.left, call |-> locals.call, ip |-> s, dp |-> None, s |-> None,
                              old |-> locals.old, name |-> "", k |-> "", yes |-> yes, no |-> no, parent |-> parent,
                              path |-> IF abs THEN Tail(path) ELSE path]]

(* The path is used up: ip is the result, or of no use to nameiparent(). *)
NamexEnd(p) ==
  LET t == th[p] IN
  /\ At(p, "namex") /\ t.path = <<>>
  /\ IF t.parent THEN PutThen(p, t.ip, t.no) ELSE Go(p, t.yes)
  /\ UNCHANGED <<disk, itable, lk, tables>>

(* One element of the path, with ip locked. *)
NamexElem(p) ==
  LET t == th[p]  n == Head(t.path)  next == Ents(t.ip)[n] IN
  /\ At(p, "namex_in")
  /\ Unlock(t.ip)
  /\ \/ itable[t.ip].type # "dir" /\ PutThen(p, t.ip, t.no) /\ UNCHANGED itable
     \/ /\ itable[t.ip].type = "dir" /\ t.parent /\ Len(t.path) = 1
        /\ th' = [th EXCEPT ![p] = [@ EXCEPT !.pc = t.yes, !.dp = t.ip, !.ip = t.old, !.name = n]]
        /\ UNCHANGED itable
     \/ /\ itable[t.ip].type = "dir" /\ ~(t.parent /\ Len(t.path) = 1)
        /\ IF next = None THEN PutThen(p, t.ip, t.no) /\ UNCHANGED itable
           ELSE /\ itable' = IGet(itable, next)
                /\ th' = [th EXCEPT ![p] = [@ EXCEPT !.pc = "iput", !.s = t.ip, !.k = "namex",
                                                     !.ip = SlotOf(itable, next), !.path = Tail(t.path)]]
  /\ UNCHANGED <<disk, tables>>

-----------------------------------------------------------------------------
Fresh(c) == [call |-> c, old |-> None]

(* A process enters a system call. *)
Start(p, c) ==
  /\ At(p, "user") /\ th[p].left > 0
  /\ CASE c.op = "link"   -> Namex(p, c.path, FALSE, "link", "done", Fresh(c))
       [] c.op = "unlink" -> Namex(p, c.path, TRUE, "unlink", "done", Fresh(c))
       [] c.op \in {"creat", "mkdir"} -> Namex(p, c.path, TRUE, "create", "done", Fresh(c))
       [] c.op = "open"   -> Namex(p, c.path, FALSE, "open", "done", Fresh(c))
       [] c.op = "chdir"  -> Namex(p, c.path, FALSE, "chdir", "done", Fresh(c))
  /\ UNCHANGED <<disk, lk, tables>>

Done(p) ==
  /\ At(p, "done")
  /\ th' = [th EXCEPT ![p] = [pc |-> "user", left |-> @.left - 1]]
  /\ UNCHANGED <<disk, itable, lk, tables>>

(* fileclose() of the last descriptor: iput(ff.ip). *)
Close(p) ==
  /\ At(p, "user") /\ ofile[p] # None
  /\ ofile' = [ofile EXCEPT ![p] = None]
  /\ th' = [th EXCEPT ![p] = [pc |-> "iput", left |-> @.left + 1, s |-> ofile[p], k |-> "done"]]
  /\ UNCHANGED <<disk, itable, lk, cwd, panic>>

(* sys_link(): count the link first, then add the entry. *)
LinkInc(p) ==
  LET s == th[p].ip IN
  /\ At(p, "link_inc") /\ UNCHANGED tables
  /\ Unlock(s)
  /\ \/ /\ itable[s].type = "dir"
        /\ PutThen(p, s, "done") /\ UNCHANGED <<disk, itable>>
     \/ /\ itable[s].type # "dir"
        /\ disk' = NlinkDisk(disk, s, 1)
        /\ itable' = NlinkMem(itable, s, 1)
        /\ th' = [th EXCEPT ![p] = [@ EXCEPT !.pc = "link_new", !.old = s]]

LinkNew(p) ==
  /\ At(p, "link_new")
  /\ Namex(p, th[p].call.new, TRUE, "link_dp", "link_miss", [call |-> th[p].call, old |-> th[p].old])
  /\ UNCHANGED <<disk, lk, tables>>

(* nameiparent(new) failed: ip is still the old file. *)
LinkMiss(p) == At(p, "link_miss") /\ GoSet(p, "link_bad", "ip", th[p].old) /\ UNCHANGED <<disk, itable, lk, tables>>

LinkAdd(p) ==
  LET t == th[p] IN
  /\ At(p, "link_add") /\ UNCHANGED <<itable, tables>>
  /\ IF Ents(t.dp)[t.name] # None THEN UNCHANGED disk /\ UnlockPut(p, t.dp, "link_bad")
     ELSE /\ disk' = [disk EXCEPT ![Inode(t.dp)].ent[t.name] = Inode(t.ip)]
          /\ UnlockPut(p, t.dp, "link_put")

LinkPut(p) == At(p, "link_put") /\ PutThen(p, th[p].ip, "done") /\ UNCHANGED <<disk, itable, lk, tables>>


Uncount == -1

(* bad: take the count back. *)
LinkUndo(p) ==
  LET s == th[p].ip IN
  /\ At(p, "link_undo")
  /\ disk' = NlinkDisk(disk, s, Uncount)
  /\ itable' = NlinkMem(itable, s, Uncount)
  /\ UnlockPut(p, s, "done") /\ UNCHANGED tables

-----------------------------------------------------------------------------
(* Faulty variant of MayUnlink: "." and ".." are names like any other. *)
MayUnlinkAll(n) == TRUE

MayUnlink(n) == n \notin Dots

(* sys_unlink(): with dp locked, find the entry. *)
UnlinkLook(p) ==
  LET t == th[p]  i == Ents(t.dp)[t.name] IN
  /\ At(p, "unlink_look") /\ UNCHANGED <<disk, tables>>
  /\ IF ~MayUnlink(t.name) \/ i = None THEN UnlockPut(p, t.dp, "done") /\ UNCHANGED itable
     ELSE itable' = IGet(itable, i) /\ GoSet(p, "unlink_ip", "ip", SlotOf(itable, i)) /\ UNCHANGED lk

IsDirEmpty(s) == \A n \in Names : Ents(s)[n] = None

(* With dp and ip locked: clear the entry, or leave a directory in use. *)
UnlinkDo(p) ==
  LET t == th[p]  isdir == itable[t.ip].type = "dir"  d == IF isdir THEN -1 ELSE 0 IN
  /\ At(p, "unlink_do") /\ UNCHANGED <<cwd, ofile>>
  /\ panic' = (itable[t.ip].nlink < 1)
  /\ IF isdir /\ ~IsDirEmpty(t.ip) THEN UnlockPut(p, t.ip, "unlink_bad") /\ UNCHANGED <<disk, itable>>
     ELSE /\ disk' = NlinkDisk([disk EXCEPT ![Inode(t.dp)].ent[t.name] = None], t.dp, d)
          /\ itable' = NlinkMem(itable, t.dp, d)
          /\ UnlockPut(p, t.dp, "unlink_dec")

UnlinkDec(p) ==
  LET s == th[p].ip IN
  /\ At(p, "unlink_dec")
  /\ disk' = NlinkDisk(disk, s, -1)
  /\ itable' = NlinkMem(itable, s, -1)
  /\ UnlockPut(p, s, "done") /\ UNCHANGED tables

UnlinkBad(p) == At(p, "unlink_bad") /\ UnlockPut(p, th[p].dp, "done") /\ UNCHANGED <<disk, itable, tables>>

-----------------------------------------------------------------------------
(* ialloc() takes the first inode whose type on disk is 0. *)
Unallocated == {i \in Inums : disk[i].type = "none"}
IAlloc == CHOOSE i \in Unallocated : \A j \in Unallocated : i <= j
Kind(c) == IF c.op = "mkdir" THEN "dir" ELSE "file"

(* create(): with dp locked, the name is there, or an inode is allocated.   *)
CreateLook(p) ==
  LET t == th[p]  i == Ents(t.dp)[t.name] IN
  /\ At(p, "create_look") /\ UNCHANGED <<cwd, ofile>>
  /\ panic' = (i = None /\ Unallocated = {})
  /\ \/ /\ i # None
        /\ itable' = IGet(itable, i)
        /\ th' = [th EXCEPT ![p] = [@ EXCEPT !.pc = "iput", !.s = t.dp, !.k = "create_old", !.ip = SlotOf(itable, i)]]
        /\ Unlock(t.dp) /\ UNCHANGED disk
     \/ /\ i = None /\ Unallocated # {}
        /\ disk' = [disk EXCEPT ![IAlloc].type = Kind(t.call)]
        /\ itable' = IGet(itable, IAlloc)
        /\ GoSet(p, "create_new", "ip", SlotOf(itable, IAlloc))
        /\ UNCHANGED lk
     \/ panic' /\ UNCHANGED <<disk, itable, lk, th>>

(* An existing file is opened; anything else makes create() fail. *)
CreateType(p) ==
  /\ At(p, "create_type") /\ UNCHANGED <<disk, itable, tables>>
  /\ IF th[p].call.op = "creat" /\ itable[th[p].ip].type = "file" THEN Go(p, "open_file") /\ UNCHANGED lk
     ELSE UnlockPut(p, th[p].ip, "done")

(* dp->nlink++ for "..". *)
DotDotLink(c) == IF Kind(c) = "dir" THEN 1 ELSE 0

(* With dp and ip locked: fill in the inode and enter it in dp. *)
CreateFill(p) ==
  LET t == th[p]  i == Inode(t.ip)  d == Inode(t.dp)
      ents == IF Kind(t.call) = "dir" THEN [NoEnts EXCEPT !["."] = i, ![".."] = d] ELSE NoEnts
  IN /\ At(p, "create_fill") /\ UNCHANGED <<cwd, ofile>>
     /\ disk' = NlinkDisk([disk EXCEPT ![i].nlink = 1, ![i].ent = ents, ![d].ent[t.name] = i], t.dp, DotDotLink(t.call))
     /\ itable' = NlinkMem([itable EXCEPT ![t.ip].nlink = 1], t.dp, DotDotLink(t.call))
     /\ panic' = (Ents(t.dp)[t.name] # None)
     /\ UnlockPut(p, t.dp, IF Kind(t.call) = "dir" THEN "mkdir_ret" ELSE "open_file")

MkdirRet(p) == At(p, "mkdir_ret") /\ UnlockPut(p, th[p].ip, "done") /\ UNCHANGED <<disk, itable, tables>>

(* sys_open() after namei(): a directory can only be read. *)
OpenType(p) ==
  /\ At(p, "open_type") /\ UNCHANGED <<disk, itable, tables>>
  /\ IF itable[th[p].ip].type = "dir" /\ th[p].call.mode # "read" THEN UnlockPut(p, th[p].ip, "done")
     ELSE Go(p, "open_file") /\ UNCHANGED lk

(* Faulty variant of OpenFile: no descriptor is left, and the inode stays locked. *)
OpenFileLocked(p) ==
  LET s == th[p].ip IN
  /\ At(p, "open_file") /\ UNCHANGED <<disk, itable, cwd, panic>>
  /\ IF ofile[p] # None THEN PutThen(p, s, "done") /\ UNCHANGED <<lk, ofile>>
     ELSE ofile' = [ofile EXCEPT ![p] = s] /\ Unlock(s) /\ Go(p, "done")

(* filealloc() and fdalloc(): the open file keeps the reference. *)
OpenFile(p) ==
  LET s == th[p].ip IN
  /\ At(p, "open_file") /\ UNCHANGED <<disk, itable, cwd, panic>>
  /\ IF ofile[p] # None THEN UnlockPut(p, s, "done") /\ UNCHANGED ofile
     ELSE ofile' = [ofile EXCEPT ![p] = s] /\ Unlock(s) /\ Go(p, "done")

(* sys_chdir(): the old directory is put before p->cwd changes. *)
ChdirType(p) ==
  LET s == th[p].ip IN
  /\ At(p, "chdir_type") /\ UNCHANGED <<disk, itable, tables>>
  /\ Unlock(s)
  /\ IF itable[s].type # "dir" THEN PutThen(p, s, "done") ELSE PutThen(p, cwd[p], "chdir_set")

ChdirSet(p) ==
  /\ At(p, "chdir_set")
  /\ cwd' = [cwd EXCEPT ![p] = th[p].ip]
  /\ Go(p, "done")
  /\ UNCHANGED <<disk, itable, lk, ofile, panic>>

-----------------------------------------------------------------------------
Step(p) ==
  \/ ILock(p) \/ Iput(p) \/ NamexEnd(p) \/ NamexElem(p) \/ Done(p)
  \/ LinkInc(p) \/ LinkNew(p) \/ LinkMiss(p) \/ LinkAdd(p) \/ LinkPut(p) \/ LinkUndo(p)
  \/ UnlinkLook(p) \/ UnlinkDo(p) \/ UnlinkDec(p) \/ UnlinkBad(p)
  \/ CreateLook(p) \/ CreateType(p) \/ CreateFill(p) \/ MkdirRet(p)
  \/ OpenType(p) \/ OpenFile(p) \/ ChdirType(p) \/ ChdirSet(p)

Next ==
  /\ ~panic
  /\ \E p \in Procs : Step(p) \/ Close(p) \/ \E c \in Calls(p) : Start(p, c)

Spec == Init /\ [][Next]_vars

(* Processes in the kernel keep running. *)
Fairness == \A p \in Procs : WF_vars(Step(p))

-----------------------------------------------------------------------------
Resting == \A p \in Procs : At(p, "user")

(* Directories that are still in the tree. *)
Dirs == {d \in Inums : disk[d].type = "dir" /\ disk[d].nlink > 0}
LinksTo(i) == Cardinality({e \in Dirs \X (Names \cup {".."}) : disk[e[1]].ent[e[2]] = i})


(* No directory entry names a free inode, whatever is under way: iput() frees  *)
(* an inode only when no path leads to it.                                     *)
NoDangling == \A d \in Dirs, n \in Names \cup Dots : disk[d].ent[n] # None => disk[disk[d].ent[n]].type # "none"

(* Between calls, ref counts the open files and current directories exactly,   *)
(* so that every failed call has put back the inodes it looked up.             *)
RefsCounted ==
  Resting => \A s \in Slots :
    itable[s].ref = Cardinality({p \in Procs : cwd[p] = s}) + Cardinality({p \in Procs : ofile[p] = s})

(* The comment in iput(): "ip->ref == 1 means no other process can have ip     *)
(* locked, so this acquiresleep() won't block (or deadlock)".                  *)
IputNeverBlocks == \A p \in Procs : At(p, "iput") /\ LastRef(th[p].s) => lk[th[p].s] = Nobody

(* A table entry that is valid and unlocked holds what is on disk, also when   *)
(* its inode number was freed and allocated again while it was in the table.   *)
CopyCurrent ==
  \A s \in Slots : itable[s].ref > 0 /\ itable[s].valid /\ lk[s] = Nobody =>
    itable[s].type = disk[Inode(s)].type /\ itable[s].nlink = disk[Inode(s)].nlink

(* No processes wait for inode locks in a circle: the calls that hold two      *)
(* locks take the parent's before the child's.                                 *)
NoDeadlock ==
  ~\E S \in SUBSET Procs \ {{}} : \A p \in S : Locking(p) /\ lk[Wanted(p)] \in S

(* No call reaches one of the panics of ilock(), iput(), unlink and create().  *)
NoPanic == ~panic

(* Every system call returns. *)
CallsReturn == \A p \in Procs : ~At(p, "user") ~> At(p, "user")

(* The state without the locals of a call that has only to return and without  *)
(* the free slots of the inode table, which iget() fills anew.                 *)
Leaving(p) == At(p, "done") \/ (th[p].pc \in {"iput", "iput_free", "iput_valid", "iput_dec"} /\ th[p].k = "done")
Live == <<disk, lk, cwd, ofile, panic,
          [s \in Slots |-> IF itable[s].ref = 0 THEN <<>> ELSE itable[s]],
          [p \in Procs |-> IF At(p, "done") THEN <<"done", th[p].left>>
                            ELSE IF Leaving(p) THEN <<th[p].pc, th[p].left, th[p].s>> ELSE th[p]]>>
=============================================================================
