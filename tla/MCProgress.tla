----------------------------- MODULE MCProgress -----------------------------
(***************************************************************************)
(* What must eventually happen, component by component. They have no state *)
(* in common, so one run checks them side by side: a behaviour chooses one *)
(* of them, its part, and is a behaviour of that component in the          *)
(* variables s1, s2, ... (of the pipe: in its own variables). Every        *)
(* property assumes the fairness of its own component.                     *)
(***************************************************************************)
EXTENDS Pipe, TLC

CONSTANTS p1, p2, p3, b1, b2, nobody

VARIABLES part,
          s1, s2, s3, s4, s5, s6, s7, s8, s9, s10, s11, s12, s13, s14, s15, s16, s17, s18, s19,
          s20

pool == <<s1, s2, s3, s4, s5, s6, s7, s8, s9, s10, s11, s12, s13, s14, s15, s16, s17, s18, s19, s20>>
progress == <<vars, part, pool>>

Two == {p1, p2}
Three == {p1, p2, p3}
Both == {b1, b2}
TwoReaders == {p2, p3}

(* creat a, link a b and unlink a, by both processes. *)
FileCalls(p) ==
  {[op |-> "creat", path |-> <<"a">>, mode |-> "write"], [op |-> "link", path |-> <<"a">>, new |-> <<"b">>],
   [op |-> "unlink", path |-> <<"a">>]}

(* echo | cat | cat;  echo > f; missing &;  (cat | cat) < f &;  (echo; cat) | cat *)
Exec(prog) == [type |-> "EXEC", prog |-> prog]
Redir(cmd, fd) == [type |-> "REDIR", cmd |-> cmd, fd |-> fd]
Piped(l, r) == [type |-> "PIPE", left |-> l, right |-> r]
Listed(l, r) == [type |-> "LIST", left |-> l, right |-> r]
Back(cmd) == [type |-> "BACK", cmd |-> cmd]
Trees == {Piped(Exec("echo"), Piped(Exec("cat"), Exec("cat"))),
          Listed(Redir(Exec("echo"), 1), Back(Exec("missing"))),
          Back(Redir(Piped(Exec("cat"), Exec("cat")), 0)),
          Piped(Listed(Exec("echo"), Exec("cat")), Exec("cat"))}

-----------------------------------------------------------------------------
Transactions == INSTANCE Log WITH
  Threads <- Three, Blocks <- Both, Vals <- {0}, InitVal <- 0, MAXOPBLOCKS <- 1, LOGSIZE <- 4,
  LogBlocks <- 4, MaxOps <- 4, MaxCrashes <- 1, home <- s1, slot <- s2, head <- s3, cache <- s4,
  pins <- s5, outstanding <- s6, committing <- s7, lh <- s8, mode <- s9, pc <- s10, tail <- s11,
  wrote <- s12, ops <- s13, crashes <- s14

Driver == INSTANCE VirtioDisk WITH
  Procs <- Two, Bufs <- Both, Vals <- {0}, NUM <- 4, IdxMod <- 8, free <- s1, desc <- s2,
  ops <- s3, info <- s4, avail <- s5, availIdx <- s6, used <- s7, usedIdx <- s8, seen <- s9,
  inflight <- s10, used_idx <- s11, irq <- s12, handler <- s13, lock <- s14, bdisk <- s15,
  data <- s16, disk <- s17, pc <- s18, req <- s19, idx <- s20

Cache == INSTANCE BufCache WITH
  Procs <- Two, Blocks <- Both, Vals <- {0}, NBUF <- 3, MaxPin <- 1, lru <- s1, blockno <- s2,
  valid <- s3, refcnt <- s4, holder <- s5, data <- s6, pinned <- s7, dirty <- s8, disk <- s9,
  cur <- s10, pc <- s11, want <- s12, buf <- s13

Serial == INSTANCE Uart WITH
  Writers <- Two, Printers <- {"printf"}, SIZE <- 1, FifoDepth <- 2, MaxChars <- 2, ring <- s1,
  tx_w <- s2, tx_r <- s3, lock <- s4, fifo <- s5, sent <- s6, irq <- s7, pc <- s8, n <- s9

Tree == INSTANCE FsTree WITH
  Procs <- Two, Nobody <- nobody, Inums <- 1..4, Names <- {"a", "b"}, Calls <- FileCalls,
  MaxCalls <- 2, disk <- s1, itable <- s2, lk <- s3, cwd <- s4, ofile <- s5, th <- s6,
  panic <- s7

Sh == INSTANCE Shell WITH
  NPROC <- 5, NOFILE <- 6, Lines <- Trees, MaxLines <- 1, PIPESIZE <- 1, Amount <- 2, th <- s1,
  ofile <- s2, data <- s3, lines <- s4

Heap == INSTANCE Umalloc WITH
  NU <- 3, Requests <- {1, 3}, Limit <- 10, ptr <- s1, size <- s2, freep <- s3, brk <- s4,
  own <- s5, alloc <- s6, m <- s7


-----------------------------------------------------------------------------
(* Init, Next and vars are those of the pipe. *)
Start ==
  /\ Init
  /\ \/ part = "pipe"
          /\ s1 = 0 /\ s2 = 0 /\ s3 = 0 /\ s4 = 0 /\ s5 = 0 /\ s6 = 0 /\ s7 = 0 /\ s8 = 0
          /\ s9 = 0 /\ s10 = 0 /\ s11 = 0 /\ s12 = 0 /\ s13 = 0 /\ s14 = 0 /\ s15 = 0 /\ s16 = 0
          /\ s17 = 0 /\ s18 = 0 /\ s19 = 0 /\ s20 = 0
     \/ part = "log" /\ Transactions!Init
          /\ s15 = 0 /\ s16 = 0 /\ s17 = 0 /\ s18 = 0 /\ s19 = 0 /\ s20 = 0
     \/ part = "disk" /\ Driver!Init
     \/ part = "cache" /\ Cache!Init
          /\ s14 = 0 /\ s15 = 0 /\ s16 = 0 /\ s17 = 0 /\ s18 = 0 /\ s19 = 0 /\ s20 = 0
     \/ part = "serial" /\ Serial!Init
          /\ s10 = 0 /\ s11 = 0 /\ s12 = 0 /\ s13 = 0 /\ s14 = 0 /\ s15 = 0 /\ s16 = 0 /\ s17 = 0
          /\ s18 = 0 /\ s19 = 0 /\ s20 = 0
     \/ part = "names" /\ Tree!Init
          /\ s8 = 0 /\ s9 = 0 /\ s10 = 0 /\ s11 = 0 /\ s12 = 0 /\ s13 = 0 /\ s14 = 0 /\ s15 = 0
          /\ s16 = 0 /\ s17 = 0 /\ s18 = 0 /\ s19 = 0 /\ s20 = 0
     \/ part = "shell" /\ Sh!Init
          /\ s5 = 0 /\ s6 = 0 /\ s7 = 0 /\ s8 = 0 /\ s9 = 0 /\ s10 = 0 /\ s11 = 0 /\ s12 = 0
          /\ s13 = 0 /\ s14 = 0 /\ s15 = 0 /\ s16 = 0 /\ s17 = 0 /\ s18 = 0 /\ s19 = 0 /\ s20 = 0
     \/ part = "heap" /\ Heap!Init
          /\ s8 = 0 /\ s9 = 0 /\ s10 = 0 /\ s11 = 0 /\ s12 = 0 /\ s13 = 0 /\ s14 = 0 /\ s15 = 0
          /\ s16 = 0 /\ s17 = 0 /\ s18 = 0 /\ s19 = 0 /\ s20 = 0

(* The components that may come to an end: all calls made, or init has exited. *)
Stop == part \in {"pipe", "serial", "names", "shell"} /\ UNCHANGED progress

Steps ==
  \/ part = "pipe" /\ Next /\ UNCHANGED <<part, pool>>
  \/ part = "log" /\ Transactions!Next /\ UNCHANGED <<vars, part>>
       /\ UNCHANGED <<s15, s16, s17, s18, s19, s20>>
  \/ part = "disk" /\ Driver!Next /\ UNCHANGED <<vars, part>>
  \/ part = "cache" /\ Cache!Next /\ UNCHANGED <<vars, part>>
       /\ UNCHANGED <<s14, s15, s16, s17, s18, s19, s20>>
  \/ part = "serial" /\ Serial!Next /\ UNCHANGED <<vars, part>>
       /\ UNCHANGED <<s10, s11, s12, s13, s14, s15, s16, s17, s18, s19, s20>>
  \/ part = "names" /\ Tree!Next /\ UNCHANGED <<vars, part>>
       /\ UNCHANGED <<s8, s9, s10, s11, s12, s13, s14, s15, s16, s17, s18, s19, s20>>
  \/ part = "shell" /\ Sh!Next /\ UNCHANGED <<vars, part>>
       /\ UNCHANGED <<s5, s6, s7, s8, s9, s10, s11, s12, s13, s14, s15, s16, s17, s18, s19, s20>>
  \/ part = "heap" /\ Heap!Next /\ UNCHANGED <<vars, part>>
       /\ UNCHANGED <<s8, s9, s10, s11, s12, s13, s14, s15, s16, s17, s18, s19, s20>>
  \/ Stop

Progress == Start /\ [][Steps]_progress

-----------------------------------------------------------------------------
(* A step of a component. *)
InPipe(A) == part = "pipe" /\ A /\ UNCHANGED <<part, pool>>
InLog(A) == part = "log" /\ A /\ UNCHANGED <<vars, part, s15, s16, s17, s18, s19, s20>>
InDisk(A) == part = "disk" /\ A /\ UNCHANGED <<vars, part>>
InCache(A) == part = "cache" /\ A /\ UNCHANGED <<vars, part, s14, s15, s16, s17, s18, s19, s20>>
InSerial(A) == part = "serial" /\ A /\ UNCHANGED <<vars, part, s10, s11, s12, s13, s14, s15, s16, s17, s18, s19, s20>>
InNames(A) == part = "names" /\ A /\ UNCHANGED <<vars, part, s8, s9, s10, s11, s12, s13, s14, s15, s16, s17, s18, s19, s20>>
InShell(A) == part = "shell" /\ A /\ UNCHANGED <<vars, part, s5, s6, s7, s8, s9, s10, s11, s12, s13, s14, s15, s16, s17, s18, s19, s20>>
InHeap(A) == part = "heap" /\ A /\ UNCHANGED <<vars, part, s8, s9, s10, s11, s12, s13, s14, s15, s16, s17, s18, s19, s20>>

(* The fairness of each component, as its module states and justifies it. *)
LogFair ==
  /\ WF_progress(InLog(Transactions!Recovery))
  /\ \A t \in Three : /\ SF_progress(InLog(Transactions!BeginStep(t))) /\ SF_progress(InLog(Transactions!EndOp(t)))
                      /\ WF_progress(InLog(Transactions!CommitStep(t)))
PipeFair ==
  \A p \in Procs : /\ SF_progress(InPipe(WriteStep(p) \/ ReadStep(p) \/ CloseStep(p)))
                   /\ WF_progress(InPipe(CallRead(p) \/ CloseRead(p)))
DiskFair ==
  /\ \A p \in Two : SF_progress(InDisk(Driver!Run(p)))
  /\ WF_progress(InDisk(Driver!DevTake)) /\ \A h \in Driver!Desc : WF_progress(InDisk(Driver!DevDone(h)))
  /\ SF_progress(InDisk(Driver!IntrEnter)) /\ WF_progress(InDisk(Driver!IntrStep))
  /\ WF_progress(InDisk(Driver!IntrEnd)) /\ WF_progress(InDisk(Driver!IntrExit))
CacheFair ==
  \A p \in Two : /\ WF_progress(InCache(Cache!Step(p))) /\ SF_progress(InCache(Cache!ReleaseSleep(p)))
                 /\ SF_progress(InCache(Cache!BwriteStart(p)))
SerialFair ==
  /\ \A a \in Two : /\ WF_progress(InSerial(Serial!Putc(a))) /\ SF_progress(InSerial(Serial!PutFull(a)))
                    /\ SF_progress(InSerial(Serial!PutStore(a)))
  /\ \A a \in Two \cup {Serial!Handler} : WF_progress(InSerial(Serial!Start(a)))
  /\ WF_progress(InSerial(Serial!SyncSend("printf")))
  /\ SF_progress(InSerial(Serial!Intr)) /\ WF_progress(InSerial(Serial!DevSend))
NamesFair == \A p \in Two : WF_progress(InNames(Tree!Step(p)))
ShellFair ==
  /\ WF_progress(InShell(Sh!InitFork)) /\ WF_progress(InShell(Sh!InitWait))
  /\ \A p \in Sh!Slots : WF_progress(InShell(Sh!Step(p)))
HeapFair == WF_progress(InHeap(Heap!Step))

(* The components treat their threads alike, so the properties are stated for  *)
(* one of them, p1.                                                            *)

(* A system call comes back: begin_op() with finitely many operations, unless  *)
(* the machine crashes; pipewrite(), as long as some process keeps reading or  *)
(* the read end is closed; and every call on names, as no two wait for each    *)
(* other's inodes.                                                             *)
CallsReturn ==
  /\ part = "log" =>
       (LogFair => (part = "log" /\ Transactions!Beginning(p1) ~> (part = "log" => Transactions!Begun(p1))))
  /\ part = "pipe" => (PipeFair => (pc[p1] = "w_acquire" ~> pc[p1] = "idle"))
  /\ part = "names" =>
       (NamesFair => (part = "names" /\ ~Tree!At(p1, "user") ~> (part = "names" => Tree!At(p1, "user"))))

(* Who waits for a device or a buffer is served: a virtio_disk_rw() with its   *)
(* descriptors returns and one without is woken, so no completion stays in the *)
(* used ring behind an acknowledged interrupt; who sleeps in acquiresleep() on *)
(* a buffer wakes up; and every character given to uartputc() goes out,        *)
(* although uartstart() gives up on a busy register.                           *)
DevicesServe ==
  /\ part = "disk" =>
       (DiskFair => /\ part = "disk" /\ Driver!At(p1, "notify") ~> (part = "disk" => Driver!At(p1, "idle"))
                    /\ part = "disk" /\ Driver!At(p1, "wait_desc") ~> (part = "disk" => Driver!At(p1, "alloc")))
  /\ part = "cache" =>
       (CacheFair => (part = "cache" /\ Cache!At(p1, "asleep") ~> (part = "cache" => Cache!At(p1, "lock"))))
  /\ part = "serial" => (SerialFair => <>(part = "serial" => Serial!HasSent(p1)))

(* The user programs go on: the shell prompts again after every line, also     *)
(* when fork() or exec() fails in the middle of one, and the walk of malloc()  *)
(* around the ring of free blocks ends.                                        *)
ProgramsGoOn ==
  /\ part = "shell" => (ShellFair => []<>(part = "shell" => Sh!Prompting))
  /\ part = "heap" => (HeapFair => (part = "heap" /\ Heap!Searching ~> (part = "heap" => ~Heap!Searching)))
=============================================================================
