----------------------------- MODULE FileTable -----------------------------
(***************************************************************************)
(* Open files and descriptors: the file table of kernel/file.c, the        *)
(* descriptor tables, and open, close, dup, pipe, fork and exit as far as  *)
(* they pass references to open files around. Every step is one critical   *)
(* section of ftable.lock or pi->lock, or work on the process's own table; *)
(* the table, the descriptors, the pages for pipes and the user's pointers *)
(* run out or fail anywhere.                                               *)
(***************************************************************************)
EXTENDS Integers, FiniteSets, Sequences, FiniteSetsExt, TLC

CONSTANTS Procs, First,   \* process slots, and the process there is at first
          NFILE, NOFILE,  \* open files of the system, descriptors of a process
          Pipes           \* pages for pipes

FileTableAssumption == First \in Procs /\ {NFILE, NOFILE} \subseteq Nat \ {0}

VARIABLES file,   \* ftable.file: ref, type, and the pipe and its end
          ofile,  \* p->ofile
          pipe,   \* of a page: whether it is allocated, readopen, writeopen
          th      \* what each process is doing; "none" is an unused slot

vars == <<file, ofile, pipe, th>>

Slots == 1..NFILE
FDs == 0..(NOFILE - 1)
Closed == [ref |-> 0, type |-> "none", pipe |-> 0, writable |-> FALSE]
NoPage == [live |-> FALSE, readopen |-> FALSE, writeopen |-> FALSE]
User == [pc |-> "user", close |-> <<>>, then |-> "user"]

Init ==
  /\ file = [f \in Slots |-> Closed] /\ ofile = [p \in Procs |-> [fd \in FDs |-> 0]]
  /\ pipe = [i \in Pipes |-> NoPage]
  /\ th = [p \in Procs |-> IF p = First THEN User ELSE [User EXCEPT !.pc = "none"]]

At(p, l) == th[p].pc = l
Go(p, t) == th' = [th EXCEPT ![p] = t]

-----------------------------------------------------------------------------
(* filealloc(): the first slot with no reference; its other fields are kept. *)
Spare == {f \in Slots : file[f].ref = 0}
FileAlloc == CHOOSE f \in Spare : \A g \in Spare : f <= g
Taken == file' = [file EXCEPT ![FileAlloc].ref = 1]

FileDup(t, f) == [t EXCEPT ![f].ref = @ + 1]

(* fdalloc() of file f in table o: the first free descriptor, if there is one. *)
FdAlloc(o, f) ==
  IF \A fd \in FDs : o[fd] # 0 THEN o
  ELSE [o EXCEPT ![CHOOSE fd \in FDs : o[fd] = 0 /\ \A e \in FDs : o[e] = 0 => fd <= e] = f]
Room(o) == Cardinality({fd \in FDs : o[fd] = 0})

(* Call fileclose() on the files in fs, one after the other, then go on at l. *)
CloseAll(p, fs, l) == Go(p, [pc |-> "fileclose", close |-> fs, then |-> l])

(* Faulty variant of Released: the slot keeps its type. *)
ReleasedTyped(t, f) == [t EXCEPT ![f].ref = 0]

Released(t, f) == [t EXCEPT ![f].ref = 0, ![f].type = "none"]

NextClose(t) == [t EXCEPT !.pc = IF Len(t.close) = 1 THEN t.then ELSE "fileclose", !.close = Tail(@)]

(* fileclose(): the reference, and for the last one of a pipe, pipeclose(). *)
FileClose(p) ==
  LET f == Head(th[p].close)  last == file[f].ref = 1 IN
  /\ At(p, "fileclose")
  /\ file' = IF last THEN Released(file, f) ELSE [file EXCEPT ![f].ref = @ - 1]
  /\ IF last /\ file[f].type = "pipe"
     THEN Go(p, [th[p] EXCEPT !.pc = "pipeclose"] @@ [end |-> <<file[f].pipe, file[f].writable>>])
     ELSE Go(p, NextClose(th[p]))
  /\ UNCHANGED <<ofile, pipe>>

(* pipeclose(): the end, and the page when both ends are closed. *)
PipeClose(p) ==
  LET i == th[p].end[1]
      q == IF th[p].end[2] THEN [pipe[i] EXCEPT !.writeopen = FALSE] ELSE [pipe[i] EXCEPT !.readopen = FALSE]
  IN /\ At(p, "pipeclose")
     /\ pipe' = [pipe EXCEPT ![i] = IF q.readopen \/ q.writeopen THEN q ELSE NoPage]
     /\ Go(p, NextClose([pc |-> "", close |-> th[p].close, then |-> th[p].then]))
     /\ UNCHANGED <<file, ofile>>

-----------------------------------------------------------------------------
(* sys_open(): filealloc() and fdalloc(), of an inode. *)
OpenAlloc(p) ==
  /\ At(p, "user") /\ Spare # {}
  /\ Taken
  /\ Go(p, [User EXCEPT !.pc = "open"] @@ [f |-> FileAlloc])
  /\ UNCHANGED <<ofile, pipe>>

OpenFd(p) ==
  LET f == th[p].f IN
  /\ At(p, "open") /\ UNCHANGED pipe
  /\ IF Room(ofile[p]) = 0 THEN CloseAll(p, <<f>>, "user") /\ UNCHANGED <<file, ofile>>
     ELSE /\ ofile' = [ofile EXCEPT ![p] = FdAlloc(@, f)]
          /\ file' = [file EXCEPT ![f].type = "inode"]
          /\ Go(p, User)

(* sys_close(). *)
Close(p, fd) ==
  /\ At(p, "user") /\ ofile[p][fd] # 0
  /\ ofile' = [ofile EXCEPT ![p][fd] = 0]
  /\ CloseAll(p, <<ofile[p][fd]>>, "user")
  /\ UNCHANGED <<file, pipe>>

(* sys_dup(): the descriptor first, then filedup(). *)
Dup(p, fd) ==
  /\ At(p, "user") /\ ofile[p][fd] # 0 /\ Room(ofile[p]) > 0
  /\ ofile' = [ofile EXCEPT ![p] = FdAlloc(@, ofile[p][fd])]
  /\ Go(p, [User EXCEPT !.pc = "dup"] @@ [f |-> ofile[p][fd]])
  /\ UNCHANGED <<file, pipe>>

DupCount(p) ==
  /\ At(p, "dup")
  /\ file' = FileDup(file, th[p].f)
  /\ Go(p, User)
  /\ UNCHANGED <<ofile, pipe>>

(* pipealloc(): two files, then the page. *)
PipeAlloc(p) ==
  LET got == IF At(p, "user") THEN <<>> ELSE th[p].got IN
  /\ At(p, "user") \/ (At(p, "pipealloc") /\ Len(th[p].got) < 2)
  /\ IF Spare # {} THEN Taken /\ Go(p, [User EXCEPT !.pc = "pipealloc"] @@ [got |-> Append(got, FileAlloc)])
     ELSE /\ UNCHANGED file
          /\ IF got = <<>> THEN Go(p, User) ELSE CloseAll(p, got, "user")
  /\ UNCHANGED <<ofile, pipe>>

PipePage(p) ==
  LET rf == th[p].got[1]  wf == th[p].got[2]  pages == {i \in Pipes : ~pipe[i].live} IN
  /\ At(p, "pipealloc") /\ Len(th[p].got) = 2 /\ UNCHANGED ofile
  /\ \/ \E i \in pages :
          /\ pipe' = [pipe EXCEPT ![i] = [live |-> TRUE, readopen |-> TRUE, writeopen |-> TRUE]]
          /\ file' = [file EXCEPT ![rf] = [@ EXCEPT !.type = "pipe", !.pipe = i, !.writable = FALSE],
                                  ![wf] = [@ EXCEPT !.type = "pipe", !.pipe = i, !.writable = TRUE]]
          /\ Go(p, [th[p] EXCEPT !.pc = "pipe"])
     \/ pages = {} /\ CloseAll(p, <<rf, wf>>, "user") /\ UNCHANGED <<file, pipe>>

(* Faulty variant of TakeBack: only the second descriptor is cleared. *)
TakeBackSecond(o, rf, wf) == [fd \in FDs |-> IF o[fd] = wf THEN 0 ELSE o[fd]]

(* sys_pipe() clears the descriptors it has set when it fails. *)
TakeBack(o, rf, wf) == [fd \in FDs |-> IF o[fd] \in {rf, wf} THEN 0 ELSE o[fd]]

(* sys_pipe(): two descriptors and copyout(), or everything is undone. *)
PipeFds(p) ==
  LET rf == th[p].got[1]  wf == th[p].got[2]  o == FdAlloc(FdAlloc(ofile[p], rf), wf) IN
  /\ At(p, "pipe") /\ UNCHANGED <<file, pipe>>
  /\ \/ /\ Room(ofile[p]) >= 2
        /\ ofile' = [ofile EXCEPT ![p] = o]
        /\ Go(p, User)
     \/ /\ ofile' = [ofile EXCEPT ![p] = TakeBack(o, rf, wf)]
        /\ CloseAll(p, <<rf, wf>>, "user")

-----------------------------------------------------------------------------
(* fork(): allocproc() finds a free slot q, then filedup() of each descriptor. *)
Fork(p, q) ==
  /\ At(p, "user") /\ At(q, "none")
  /\ th' = [th EXCEPT ![p] = [User EXCEPT !.pc = "fork"] @@ [child |-> q, fd |-> 0], ![q].pc = "embryo"]
  /\ UNCHANGED <<file, ofile, pipe>>

ForkFd(p) ==
  LET fd == th[p].fd  q == th[p].child  f == ofile[p][fd]  done == fd = NOFILE - 1 IN
  /\ At(p, "fork") /\ UNCHANGED pipe
  /\ file' = IF f = 0 THEN file ELSE FileDup(file, f)
  /\ ofile' = [ofile EXCEPT ![q][fd] = f]
  /\ th' = [th EXCEPT ![p] = IF done THEN User ELSE [@ EXCEPT !.fd = @ + 1], ![q].pc = IF done THEN "user" ELSE @]

(* exit() of a process other than init: each open descriptor is closed. *)
Exit(p) ==
  /\ At(p, "user") /\ p # First
  /\ Go(p, [User EXCEPT !.pc = "exit"])
  /\ UNCHANGED <<file, ofile, pipe>>

ExitFd(p) ==
  LET open == {fd \in FDs : ofile[p][fd] # 0}
      fd == CHOOSE fd \in open : \A e \in open : fd <= e
  IN /\ At(p, "exit") /\ UNCHANGED <<file, pipe>>
     /\ IF open = {} THEN Go(p, [User EXCEPT !.pc = "none"]) /\ UNCHANGED ofile
        ELSE /\ ofile' = [ofile EXCEPT ![p][fd] = 0]
             /\ CloseAll(p, <<ofile[p][fd]>>, "exit")

Next ==
  \E p \in Procs :
    \/ FileClose(p) \/ PipeClose(p) \/ OpenAlloc(p) \/ OpenFd(p)
    \/ (\E fd \in FDs : Close(p, fd) \/ Dup(p, fd)) \/ DupCount(p)
    \/ PipeAlloc(p) \/ PipePage(p) \/ PipeFds(p)
    \/ (\E q \in Procs : Fork(p, q)) \/ ForkFd(p) \/ Exit(p) \/ ExitFd(p)

Spec == Init /\ [][Next]_vars

-----------------------------------------------------------------------------
(* The references to file f that process p has: its descriptors (less the one  *)
(* dup() has still to count) and the files the kernel has in hand for it.      *)
Hand(p) == (IF At(p, "pipeclose") THEN Tail(th[p].close) ELSE th[p].close)
             \o (IF At(p, "open") THEN <<th[p].f>> ELSE <<>>)
             \o (IF th[p].pc \in {"pipealloc", "pipe"} THEN th[p].got ELSE <<>>)
Holds(p, f) ==
  Cardinality({i \in DOMAIN Hand(p) : Hand(p)[i] = f})
    + Cardinality({fd \in FDs : ofile[p][fd] = f})
    - (IF At(p, "dup") /\ th[p].f = f THEN 1 ELSE 0)

(* f->ref is the number of descriptors and kernel variables that refer to the  *)
(* file, whatever fails in pipe(), open() and dup() and however forked         *)
(* processes close their descriptors: no file is leaked or closed early.       *)
RefsExact == \A f \in Slots : file[f].ref = MapThenSumSet(LAMBDA p : Holds(p, f), Procs)

Ending(i, w) == \E p \in Procs : At(p, "pipeclose") /\ th[p].end = <<i, w>>
Names(i, w) == \E f \in Slots : file[f].ref > 0 /\ file[f].type = "pipe" /\ file[f].pipe = i /\ file[f].writable = w

(* An end of a pipe is open exactly as long as an open file refers to it (or   *)
(* its close is under way), and the page exists as long as an end is open: the *)
(* page is not freed under a reader or writer, and it is freed, and a slot     *)
(* that was a pipe's before never closes it again.                             *)
PipesMatch ==
  \A i \in Pipes : /\ pipe[i].readopen = (Names(i, FALSE) \/ Ending(i, FALSE))
                   /\ pipe[i].writeopen = (Names(i, TRUE) \/ Ending(i, TRUE))
                   /\ pipe[i].live = (pipe[i].readopen \/ pipe[i].writeopen)

(* The state without the pipe and its end in a file that is not a pipe's, which *)
(* nobody reads: pipealloc() sets both when it makes one.                      *)
Live == <<[f \in Slots |-> IF file[f].type = "pipe" THEN file[f] ELSE [file[f] EXCEPT !.pipe = 0, !.writable = FALSE]],
          ofile, pipe, th>>
=============================================================================
