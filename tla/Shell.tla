------------------------------- MODULE Shell -------------------------------
(***************************************************************************)
(* init and the shell running command trees: main() of user/init.c, main() *)
(* and runcmd() of user/sh.c, one system call a step, for the processes    *)
(* they fork. The system calls are the kernel's, as these programs use     *)
(* them: fork() takes the first free slot or fails, pipe() and open() the  *)
(* first free descriptors, a read from a pipe ends when nobody can write   *)
(* to it any more. The programs a command executes are a writer (echo) and *)
(* a filter (cat); Lines is the set of trees parsecmd() returns.           *)
(***************************************************************************)
EXTENDS Integers, FiniteSets, Sequences, TLC

CONSTANTS NPROC, NOFILE, Lines, MaxLines,  \* lines the user types
          PIPESIZE, Amount                 \* size of a pipe, characters a writer writes

ShellAssumption == {NPROC, NOFILE, MaxLines, PIPESIZE, Amount} \subseteq Nat

VARIABLES th,     \* of a process slot: where it is, its command, its parent
          ofile,  \* descriptors: an end of a pipe, or pipe 0 and what else it is
          data,   \* characters in each pipe
          lines   \* lines typed so far

vars == <<th, ofile, data, lines>>

Slots == 1..NPROC
Pipes == 1..NPROC
FDs == 0..(NOFILE - 1)
init == 1
None == [type |-> "none"]
Closed == <<0, "closed">>
Tty == <<0, "tty">>
File == <<0, "file">>
Console == [fd \in FDs |-> IF fd <= 2 THEN Tty ELSE Closed]
Unused == [pc |-> "unused", cmd |-> None, todo |-> <<>>, parent |-> 0, n |-> 0, bg |-> FALSE, in |-> Tty, out |-> Tty]

(* init, after it has opened the console three times. *)
Init ==
  /\ th = [p \in Slots |-> IF p = init THEN [Unused EXCEPT !.pc = "init_fork"] ELSE Unused]
  /\ ofile = [p \in Slots |-> IF p = init THEN Console ELSE [fd \in FDs |-> Closed]]
  /\ data = [i \in Pipes |-> 0] /\ lines = 0

At(p, l) == th[p].pc = l
Goto(p, l) == th' = [th EXCEPT ![p].pc = l]
RunCmd(t, cmd) == [t EXCEPT !.pc = "runcmd", !.cmd = cmd]
Least(S) == CHOOSE x \in S : \A y \in S : x <= y
FreeProcs == {p \in Slots : At(p, "unused")}
FreeFds(o) == {fd \in FDs : o[fd] = Closed}
Open(i, end) == \E p \in Slots, fd \in FDs : ofile[p][fd] = <<i, end>>
FreePipes == {i \in Pipes : ~Open(i, "r") /\ ~Open(i, "w")}

-----------------------------------------------------------------------------
(* System calls. *)

(* fork() of p: the child starts as thread c; p goes on as t. *)
ForkTo(p, t, c) ==
  LET q == Least(FreeProcs) IN
  /\ FreeProcs # {}
  /\ th' = [th EXCEPT ![p] = t, ![q] = [c EXCEPT !.parent = p]]
  /\ ofile' = [ofile EXCEPT ![q] = ofile[p]]
  /\ UNCHANGED <<data, lines>>

(* exit(): descriptors closed, children given to init. *)
Dead(p) ==
  /\ th' = [q \in Slots |-> IF q = p THEN [Unused EXCEPT !.pc = "zombie", !.parent = th[p].parent]
                            ELSE IF th[q].parent = p THEN [th[q] EXCEPT !.parent = init] ELSE th[q]]
  /\ ofile' = [ofile EXCEPT ![p] = [fd \in FDs |-> Closed]]
  /\ UNCHANGED <<data, lines>>

(* fork1(): a shell that cannot fork panics, which is exit(1). *)
Fork1(p, t, c) == ForkTo(p, t, c) \/ (FreeProcs = {} /\ Dead(p))

(* wait(): the zombie child q is reaped, or there are no children and q is 0 (the *)
(* call returns -1); p goes on as t.                                              *)
WaitFor(p, q, t) ==
  LET kids == {k \in Slots : th[k].parent = p /\ ~At(k, "unused")} IN
  /\ \/ q \in kids /\ At(q, "zombie") /\ th' = [th EXCEPT ![q] = Unused, ![p] = t]
     \/ q = 0 /\ kids = {} /\ th' = [th EXCEPT ![p] = t]
  /\ UNCHANGED <<ofile, data, lines>>

-----------------------------------------------------------------------------
(* init's main loop. *)
InitFork ==
  At(init, "init_fork") /\ ForkTo(init, [th[init] EXCEPT !.pc = "init_wait", !.n = Least(FreeProcs)],
                                 [Unused EXCEPT !.pc = "sh_open"])

(* init exits when fork() fails, and the kernel does not survive that. *)
InitForkFails == At(init, "init_fork") /\ FreeProcs = {} /\ Goto(init, "panic") /\ UNCHANGED <<ofile, data, lines>>

InitWait ==
  /\ At(init, "init_wait")
  /\ \E q \in Slots \cup {0} :
       WaitFor(init, q, [th[init] EXCEPT !.pc = IF q = th[init].n THEN "init_fork" ELSE IF q = 0 THEN "panic" ELSE @])

(* main() of the shell: three descriptors are open and no others. *)
ShOpen(p) ==
  /\ At(p, "sh_open")
  /\ ofile' = [ofile EXCEPT ![p] = [fd \in FDs |-> IF fd <= 2 /\ @[fd] = Closed THEN Tty ELSE @[fd]]]
  /\ Goto(p, "prompt") /\ UNCHANGED <<data, lines>>

(* getcmd() reads a line; a child parses and runs it. *)
GetCmd(p) ==
  /\ At(p, "prompt") /\ lines < MaxLines /\ lines' = lines + 1
  /\ \E l \in Lines : th' = [th EXCEPT ![p].pc = "sh_fork", ![p].cmd = l]
  /\ UNCHANGED <<ofile, data>>

ShFork(p) == At(p, "sh_fork") /\ Fork1(p, [th[p] EXCEPT !.pc = "sh_wait", !.cmd = None], RunCmd(th[p], th[p].cmd))

ShWait(p) == At(p, "sh_wait") /\ \E q \in Slots \cup {0} : WaitFor(p, q, [th[p] EXCEPT !.pc = "prompt"])

(* The user ends the input: main() leaves its loop. *)
Eof(p) == At(p, "prompt") /\ Dead(p)

-----------------------------------------------------------------------------
(* runcmd(), by the type of the command. *)
Is(p, type) == At(p, "runcmd") /\ th[p].cmd.type = type

(* EXEC: no argument is exit(1), and so is an exec() that fails. *)
RunExec(p) ==
  /\ Is(p, "EXEC")
  /\ \/ th[p].cmd.prog \notin {"", "missing"} /\ th' = [th EXCEPT ![p].pc = th[p].cmd.prog, ![p].cmd = None]
        /\ UNCHANGED <<ofile, data, lines>>
     \/ th[p].cmd.prog \in {"", "missing"} /\ Dead(p)

(* REDIR: close, open, and the command inside, unless the file cannot be opened. *)
RunRedir(p) ==
  LET fd == th[p].cmd.fd  closed == [ofile[p] EXCEPT ![fd] = Closed] IN
  /\ Is(p, "REDIR")
  /\ \/ /\ ofile' = [ofile EXCEPT ![p] = [closed EXCEPT ![Least(FreeFds(closed))] = File]]
        /\ th' = [th EXCEPT ![p] = [RunCmd(@, @.cmd.cmd) EXCEPT !.in = IF fd = 0 THEN File ELSE @,
                                                                !.out = IF fd = 1 THEN File ELSE @]]
        /\ UNCHANGED <<data, lines>>
     \/ Dead(p)

RunList(p) == Is(p, "LIST") /\ Fork1(p, [th[p] EXCEPT !.pc = "list_wait"], RunCmd(th[p], th[p].cmd.left))

ListWait(p) == At(p, "list_wait") /\ \E q \in Slots \cup {0} : WaitFor(p, q, RunCmd(th[p], th[p].cmd.right))

(* PIPE: the pipe, a child for each side, then the parent's own ends. *)
RunPipe(p) ==
  LET i == Least(FreePipes)  r == Least(FreeFds(ofile[p]))  w == Least(FreeFds(ofile[p]) \ {r}) IN
  /\ Is(p, "PIPE")
  /\ ofile' = [ofile EXCEPT ![p][r] = <<i, "r">>, ![p][w] = <<i, "w">>]
  /\ data' = [data EXCEPT ![i] = 0]
  /\ th' = [th EXCEPT ![p].pc = "pipe_left", ![p].todo = <<r, w>>] /\ UNCHANGED lines

(* Faulty variant of ChildCalls: the child keeps the end it does not use. *)
ChildCallsKeep(fd, end, r, w) == <<<<"close", fd>>, <<"dup", end>>, <<"close", end>>>>

(* The system calls of a child before its command: close(fd), dup(end), close both. *)
ChildCalls(fd, end, r, w) == <<<<"close", fd>>, <<"dup", end>>, <<"close", r>>, <<"close", w>>>>

(* Faulty variant of ParentCalls: the write end stays open in the parent. *)
ParentCallsRead(r, w) == <<<<"close", r>>, <<"wait">>, <<"wait">>, <<"exit">>>>
(* Faulty variant of ParentCalls: one wait() for the two children. *)
ParentCallsWait(r, w) == <<<<"close", r>>, <<"close", w>>, <<"wait">>, <<"exit">>>>

ParentCalls(r, w) == <<<<"close", r>>, <<"close", w>>, <<"wait">>, <<"wait">>, <<"exit">>>>

PipeLeft(p) ==
  LET r == th[p].todo[1]  w == th[p].todo[2] IN
  /\ At(p, "pipe_left")
  /\ Fork1(p, [th[p] EXCEPT !.pc = "pipe_right"],
           [th[p] EXCEPT !.pc = "calls", !.todo = ChildCalls(1, w, r, w), !.cmd = th[p].cmd.left, !.out = ofile[p][w]])

PipeRight(p) ==
  LET r == th[p].todo[1]  w == th[p].todo[2] IN
  /\ At(p, "pipe_right")
  /\ Fork1(p, [th[p] EXCEPT !.pc = "calls", !.todo = ParentCalls(r, w)],
           [th[p] EXCEPT !.pc = "calls", !.todo = ChildCalls(0, r, r, w), !.cmd = th[p].cmd.right, !.in = ofile[p][r]])

(* The next of the calls that p has to make; then its command is run. *)
Call(p) ==
  LET c == Head(th[p].todo)
      t == [th[p] EXCEPT !.todo = Tail(@), !.pc = IF Len(th[p].todo) = 1 THEN "runcmd" ELSE "calls"]
  IN /\ At(p, "calls")
     /\ \/ /\ c[1] = "close" /\ ofile' = [ofile EXCEPT ![p][c[2]] = Closed]
           /\ th' = [th EXCEPT ![p] = t] /\ UNCHANGED <<data, lines>>
        \/ /\ c[1] = "dup" /\ ofile' = [ofile EXCEPT ![p][Least(FreeFds(ofile[p]))] = ofile[p][c[2]]]
           /\ th' = [th EXCEPT ![p] = t] /\ UNCHANGED <<data, lines>>
        \/ c[1] = "wait" /\ \E q \in Slots \cup {0} : WaitFor(p, q, t)
        \/ c[1] = "exit" /\ Dead(p)

RunBack(p) == Is(p, "BACK") /\ FreeProcs # {} /\ ForkTo(p, [th[p] EXCEPT !.pc = "calls", !.todo = <<<<"exit">>>>],
                                                        [RunCmd(th[p], th[p].cmd.cmd) EXCEPT !.bg = TRUE])

RunBackFails(p) == Is(p, "BACK") /\ FreeProcs = {} /\ Dead(p)

-----------------------------------------------------------------------------
(* The programs. A write to a pipe that nobody reads fails; to a full one, it waits. *)
Write(p, then, Fails) ==
  LET f == ofile[p][1] IN
  IF f[1] # 0 /\ ~Open(f[1], "r") THEN Fails
  ELSE /\ f[1] # 0 => data[f[1]] < PIPESIZE
       /\ data' = [i \in Pipes |-> IF i = f[1] THEN data[i] + 1 ELSE data[i]]
       /\ th' = [th EXCEPT ![p] = then] /\ UNCHANGED <<ofile, lines>>

EchoWrite(p) ==
  LET next == [th[p] EXCEPT !.n = @ + 1] IN
  /\ At(p, "echo") /\ th[p].n < Amount
  /\ Write(p, next, th' = [th EXCEPT ![p] = next] /\ UNCHANGED <<ofile, data, lines>>)

EchoDone(p) == At(p, "echo") /\ th[p].n = Amount /\ Dead(p)

CatRead(p) ==
  LET f == ofile[p][0] IN
  /\ At(p, "cat")
  /\ IF f[1] = 0 THEN Dead(p)
     ELSE IF data[f[1]] > 0 THEN /\ data' = [data EXCEPT ![f[1]] = @ - 1]
                                 /\ Goto(p, "cat_write") /\ UNCHANGED <<ofile, lines>>
     ELSE ~Open(f[1], "w") /\ Dead(p)

CatWrite(p) == At(p, "cat_write") /\ Write(p, [th[p] EXCEPT !.pc = "cat"], Dead(p))

-----------------------------------------------------------------------------
(* What process p does by itself; typing a line or ending the input is the user's. *)
Step(p) ==
  \/ ShOpen(p) \/ ShFork(p) \/ ShWait(p) \/ RunExec(p) \/ RunRedir(p) \/ RunList(p) \/ ListWait(p)
  \/ RunPipe(p) \/ PipeLeft(p) \/ PipeRight(p) \/ Call(p) \/ RunBack(p) \/ RunBackFails(p)
  \/ EchoWrite(p) \/ EchoDone(p) \/ CatRead(p) \/ CatWrite(p)

Next == InitFork \/ InitForkFails \/ InitWait \/ (\E p \in Slots : Step(p) \/ GetCmd(p) \/ Eof(p))

Spec == Init /\ [][Next]_vars

(* The scheduler is round robin: no process that can go on waits for ever. *)
Fairness == WF_vars(InitFork) /\ WF_vars(InitWait) /\ \A p \in Slots : WF_vars(Step(p))

-----------------------------------------------------------------------------
Programs == {"echo", "cat", "cat_write"}

(* A program starts and runs with exactly three descriptors: the ends of the   *)
(* pipes and the files its place in the command line gives it, and stderr. No  *)
(* end of a pipe is left in it by the processes it descends from.              *)
Plumbed ==
  \A p \in Slots : th[p].pc \in Programs =>
    ofile[p] = [fd \in FDs |-> CASE fd = 0 -> th[p].in [] fd = 1 -> th[p].out [] fd = 2 -> Tty [] OTHER -> Closed]

(* When the shell prompts, every process of the lines before has been waited   *)
(* for, unless it was put in the background: wait() has not taken another      *)
(* child for the one it was meant for, at any depth of the tree.               *)
ForegroundDone ==
  (\E p \in Slots : At(p, "prompt")) =>
    \A q \in Slots : th[q].pc \in {"unused", "zombie", "prompt", "init_wait", "init_fork"} \/ th[q].bg

(* init is there as long as the system is: exit() panics for it ("init exiting"). *)
InitStays == ~At(init, "panic")

Prompting == \E p \in Slots : At(p, "prompt")

(* The user always gets a prompt again: no pipeline hangs because somebody     *)
(* still holds the other end of its pipe, and a shell that ended is replaced.  *)
PromptReturns == []<>Prompting
=============================================================================
