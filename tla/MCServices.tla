----------------------------- MODULE MCServices -----------------------------
(***************************************************************************)
(* The rest of the system, component by component: names, files and the    *)
(* image mkfs makes, copies to and from user space, the console and the    *)
(* serial line, the lists of list.c, and the user programs. They have no   *)
(* state in common, so one run checks them side by side: a behaviour       *)
(* chooses one of them, its part, and is a behaviour of that component in  *)
(* the variables s1, s2, ... (of the lists: in next and prev); the         *)
(* remaining variables keep their values.                                  *)
(***************************************************************************)
EXTENDS List, TLC

CONSTANTS p1, p2, q1, q2, nobody

VARIABLES part, s1, s2, s3, s4, s5, s6, s7, s8, s9

services == <<vars, part, s1, s2, s3, s4, s5, s6, s7, s8, s9>>

(* Processes that nothing tells apart, and processes with calls of their own. *)
Two == {p1, p2}
Both == {q1, q2}
Symmetric == Permutations(Two)

-----------------------------------------------------------------------------
(* The system calls of the processes. *)
Open(path, mode) == [op |-> "open", path |-> path, mode |-> mode]
Creat(path) == [op |-> "creat", path |-> path, mode |-> "write"]
Mkdir(path) == [op |-> "mkdir", path |-> path]
Unlink(path) == [op |-> "unlink", path |-> path]
Chdir(path) == [op |-> "chdir", path |-> path]
Link(old, new) == [op |-> "link", path |-> old, new |-> new]

Entries == {"a", "b"}
Maker == {Creat(<<"a">>), Unlink(<<"a">>), Link(<<"a">>, <<"b">>)}
Opener == {Creat(<<"a">>), Unlink(<<"/", "b">>), Open(<<"a">>, "read")}
FileCalls(p) == IF p = q1 THEN Maker ELSE Opener
OneDir == {Mkdir(<<"/", "a">>), Unlink(<<"/", "a">>), Unlink(<<"/", "a", ".">>), Creat(<<"/", "a", "b">>),
           Unlink(<<"/", "a", "b">>)}
Around == {Mkdir(<<"/", "b">>), Link(<<"/", "b">>, <<"/", "a">>), Open(<<"/", "b">>, "write"), Chdir(<<"b">>)}
DirCalls(p) == IF p = q1 THEN OneDir ELSE Around

OneFile == {"f"}
TheFile(o) == "f"
BothFiles == {"f", "g"}
EachFile(o) == IF o = 1 THEN "f" ELSE "g"

(* What is typed: echo | cat | cat;  echo > f; missing &;  (cat | cat) < f &;  *)
(* (echo; cat) | cat;  and, for jobs,  echo &; echo > f  and  echo | cat.      *)
Typed == {"a", " ", "|", "&", ";", "(", ")", "<", ">"}
Grouped == {"a", "|", ";", "(", ")"}
Exec(prog) == [type |-> "EXEC", prog |-> prog]
Redir(cmd, fd) == [type |-> "REDIR", cmd |-> cmd, fd |-> fd]
Piped(l, r) == [type |-> "PIPE", left |-> l, right |-> r]
Listed(l, r) == [type |-> "LIST", left |-> l, right |-> r]
Back(cmd) == [type |-> "BACK", cmd |-> cmd]
Trees == {Piped(Exec("echo"), Piped(Exec("cat"), Exec("cat"))),
          Listed(Redir(Exec("echo"), 1), Back(Exec("missing"))),
          Back(Redir(Piped(Exec("cat"), Exec("cat")), 0)),
          Piped(Listed(Exec("echo"), Exec("cat")), Exec("cat"))}
WithBackground == {Listed(Back(Exec("echo")), Redir(Exec("echo"), 1)), Piped(Exec("echo"), Exec("cat"))}

-----------------------------------------------------------------------------
(* Files in one directory: creat, link, unlink and open in every order. *)
Tree == INSTANCE FsTree WITH
  Procs <- Both, Nobody <- nobody, Inums <- 1..4, Names <- Entries, Calls <- FileCalls,
  MaxCalls <- 3, disk <- s1, itable <- s2, lk <- s3, cwd <- s4, ofile <- s5, th <- s6,
  panic <- s7

(* One process makes, fills and removes a directory; the other works in the root and moves. *)
Folders == INSTANCE FsTree WITH
  Procs <- Both, Nobody <- nobody, Inums <- 1..5, Names <- Entries, Calls <- DirCalls,
  MaxCalls <- 3, disk <- s1, itable <- s2, lk <- s3, cwd <- s4, ofile <- s5, th <- s6,
  panic <- s7

(* A file open twice, on a disk it can fill. *)
Bytes == INSTANCE FileContent WITH
  Procs <- Two, Nobody <- nobody, Files <- OneFile, Opens <- {1, 2}, FileOf <- TheFile,
  Blocks <- 1..4, NDIRECT <- 1, NINDIRECT <- 2, BSIZE <- 2, MAXOPBLOCKS <- 6, Sizes <- {3},
  used <- s1, blk <- s2, ino <- s3, off <- s4, lk <- s5, th <- s6, unlogged <- s7, want <- s8

(* Two files with room for both. *)
Alloc == INSTANCE FileContent WITH
  Procs <- Two, Nobody <- nobody, Files <- BothFiles, Opens <- {1, 2}, FileOf <- EachFile,
  Blocks <- 1..8, NDIRECT <- 1, NINDIRECT <- 2, BSIZE <- 2, MAXOPBLOCKS <- 6, Sizes <- {2},
  used <- s1, blk <- s2, ino <- s3, off <- s4, lk <- s5, th <- s6, unlogged <- s7, want <- s8

(* Up to three files, empty ones and largest ones among them. *)
Image == INSTANCE Mkfs WITH
  BSIZE <- 2, NDIRECT <- 2, NINDIRECT <- 2, FSSIZE <- 30, NINODES <- 4, IPB <- 2, BPB <- 64,
  LOGSIZE <- 2, NFiles <- 3, Sizes <- {0, 1, 4, 5, 8}, argv <- s1, dinode <- s2, block <- s3,
  bitmap <- s4, freeinode <- s5, freeblock <- s6, pc <- s7, i <- s8, got <- s9

(* Ranges over up to three pages, mapped in any way. *)
Copy == INSTANCE CopyUser WITH
  PGSIZE <- 2, NPages <- 3, Frames <- {1, 2}, MaxLen <- 5, pagetable <- s1, mem <- s2,
  call <- s3, va <- s4, len <- s5, buf <- s6, ret <- s7

(* The ring fills and its indices wrap. *)
Con == INSTANCE Console WITH
  Readers <- Two, INPUT_BUF <- 3, IdxMod <- 6, MaxRead <- 2, buf <- s1, r <- s2, w <- s3,
  e <- s4, lock <- s5, pc <- s6, target <- s7, got <- s8, killed <- s9

(* Two writers and a hart in printf(). *)
Serial == INSTANCE Uart WITH
  Writers <- Two, Printers <- {"printf"}, SIZE <- 2, FifoDepth <- 2, MaxChars <- 2, ring <- s1,
  tx_w <- s2, tx_r <- s3, lock <- s4, fifo <- s5, sent <- s6, irq <- s7, pc <- s8, n <- s9

(* All short lines, and longer ones of fewer characters. *)
Parse == INSTANCE ShParse WITH
  Chars <- Typed, nbuf <- 6, MAXARGS <- 3, buf <- s1
Nested == INSTANCE ShParse WITH
  Chars <- Grouped, nbuf <- 7, MAXARGS <- 3, buf <- s1

(* Every process of a line has a slot; a background job outlives its line; slots run out. *)
Sh == INSTANCE Shell WITH
  NPROC <- 9, NOFILE <- 6, Lines <- Trees, MaxLines <- 1, PIPESIZE <- 1, Amount <- 2, th <- s1,
  ofile <- s2, data <- s3, lines <- s4
Jobs == INSTANCE Shell WITH
  NPROC <- 8, NOFILE <- 6, Lines <- WithBackground, MaxLines <- 3, PIPESIZE <- 1, Amount <- 2,
  th <- s1, ofile <- s2, data <- s3, lines <- s4

NoSlot == INSTANCE Shell WITH
  NPROC <- 4, NOFILE <- 6, Lines <- Trees, MaxLines <- 1, PIPESIZE <- 1, Amount <- 2, th <- s1,
  ofile <- s2, data <- s3, lines <- s4

(* Blocks are split and joined, and sbrk() fails in the end. *)
Heap == INSTANCE Umalloc WITH
  NU <- 4, Requests <- {1, 2, 4}, Limit <- 15, ptr <- s1, size <- s2, freep <- s3, brk <- s4,
  own <- s5, alloc <- s6, m <- s7

ASSUME ServicesAssumption ==
  /\ Tree!FsTreeAssumption /\ Folders!FsTreeAssumption /\ Bytes!FileContentAssumption
  /\ Alloc!FileContentAssumption /\ Image!MkfsAssumption /\ Copy!CopyUserAssumption
  /\ Con!ConsoleAssumption /\ Serial!UartAssumption /\ Parse!ShParseAssumption
  /\ Nested!ShParseAssumption /\ Sh!ShellAssumption /\ Jobs!ShellAssumption
  /\ NoSlot!ShellAssumption /\ Heap!UmallocAssumption

-----------------------------------------------------------------------------
(* Init, Next and vars are those of the lists. *)
Start ==
  /\ Init
  /\ \/ part = "lists" /\ s1 = 0 /\ s2 = 0 /\ s3 = 0 /\ s4 = 0 /\ s5 = 0 /\ s6 = 0 /\ s7 = 0 /\ s8 = 0 /\ s9 = 0
     \/ part = "names" /\ Tree!Init /\ s8 = 0 /\ s9 = 0
     \/ part = "dirs" /\ Folders!Init /\ s8 = 0 /\ s9 = 0
     \/ part = "bytes" /\ Bytes!Init /\ s9 = 0
     \/ part = "blocks" /\ Alloc!Init /\ s9 = 0
     \/ part = "image" /\ Image!Init
     \/ part = "copy" /\ Copy!Init /\ s8 = 0 /\ s9 = 0
     \/ part = "console" /\ Con!Init
     \/ part = "serial" /\ Serial!Init
     \/ part = "parse" /\ Parse!Init /\ s2 = 0 /\ s3 = 0 /\ s4 = 0 /\ s5 = 0 /\ s6 = 0 /\ s7 = 0 /\ s8 = 0 /\ s9 = 0
     \/ part = "nested" /\ Nested!Init /\ s2 = 0 /\ s3 = 0 /\ s4 = 0 /\ s5 = 0 /\ s6 = 0 /\ s7 = 0 /\ s8 = 0 /\ s9 = 0
     \/ part = "shell" /\ Sh!Init /\ s5 = 0 /\ s6 = 0 /\ s7 = 0 /\ s8 = 0 /\ s9 = 0
     \/ part = "jobs" /\ Jobs!Init /\ s5 = 0 /\ s6 = 0 /\ s7 = 0 /\ s8 = 0 /\ s9 = 0
     \/ part = "noslot" /\ NoSlot!Init /\ s5 = 0 /\ s6 = 0 /\ s7 = 0 /\ s8 = 0 /\ s9 = 0
     \/ part = "heap" /\ Heap!Init /\ s8 = 0 /\ s9 = 0

(* The components that may come to an end: all calls made, all input typed, or *)
(* a panic.                                                                    *)
Stop == part \in {"names", "dirs", "bytes", "blocks", "image", "copy", "serial", "parse", "nested", "noslot"}
          /\ UNCHANGED services

Steps ==
  \/ part = "lists" /\ Next /\ UNCHANGED <<part, s1, s2, s3, s4, s5, s6, s7, s8, s9>>
  \/ part = "names" /\ Tree!Next /\ UNCHANGED <<vars, part, s8, s9>>
  \/ part = "dirs" /\ Folders!Next /\ UNCHANGED <<vars, part, s8, s9>>
  \/ part = "bytes" /\ Bytes!Next /\ UNCHANGED <<vars, part, s9>>
  \/ part = "blocks" /\ Alloc!Next /\ UNCHANGED <<vars, part, s9>>
  \/ part = "image" /\ Image!Next /\ UNCHANGED <<vars, part>>
  \/ part = "copy" /\ Copy!Next /\ UNCHANGED <<vars, part, s8, s9>>
  \/ part = "console" /\ Con!Next /\ UNCHANGED <<vars, part>>
  \/ part = "serial" /\ Serial!Next /\ UNCHANGED <<vars, part>>
  \/ part = "parse" /\ Parse!Next /\ UNCHANGED <<vars, part, s2, s3, s4, s5, s6, s7, s8, s9>>
  \/ part = "nested" /\ Nested!Next /\ UNCHANGED <<vars, part, s2, s3, s4, s5, s6, s7, s8, s9>>
  \/ part = "shell" /\ Sh!Next /\ UNCHANGED <<vars, part, s5, s6, s7, s8, s9>>
  \/ part = "jobs" /\ Jobs!Next /\ UNCHANGED <<vars, part, s5, s6, s7, s8, s9>>
  \/ part = "noslot" /\ NoSlot!Next /\ UNCHANGED <<vars, part, s5, s6, s7, s8, s9>>
  \/ part = "heap" /\ Heap!Next /\ UNCHANGED <<vars, part, s8, s9>>
  \/ Stop

Services == Start /\ [][Steps]_services

(* What is read again of a state. *)
Relevant ==
  <<part, vars, CASE part = "names" -> Tree!Live
                  [] part = "dirs" -> Folders!Live
                  [] part = "bytes" -> Bytes!Live
                  [] part = "blocks" -> Alloc!Live
                  [] part = "image" -> Image!vars
                  [] part = "copy" -> Copy!vars
                  [] part = "console" -> Con!Live
                  [] part = "serial" -> Serial!vars
                  [] part = "parse" -> s1
                  [] part = "nested" -> s1
                  [] part = "shell" -> Sh!vars
                  [] part = "jobs" -> Jobs!vars
                  [] part = "noslot" -> NoSlot!vars
                  [] part = "heap" -> Heap!Live
                  [] OTHER -> 0>>

-----------------------------------------------------------------------------


(* readi() returns the bytes that writei() was given, at every offset; the     *)
(* bitmap marks exactly the blocks that files point to, each once, also when a *)
(* write is cut short or itrunc() comes in between; and a transaction of       *)
(* filewrite() logs no more blocks than it has reserved.                       *)
FilesExact ==
  /\ part = "bytes" => Bytes!ReadsRight /\ Bytes!BlocksExact /\ Bytes!OpFits
  /\ part = "blocks" => Alloc!ReadsRight /\ Alloc!BlocksExact /\ Alloc!OpFits

(* Every file given to mkfs reads back from the image under its name, whatever *)
(* pieces read() and iappend() worked in, and the bitmap marks the metadata    *)
(* and the blocks of the files and nothing else.                               *)
ImageReadsBack == part = "image" => Image!ImageReadsBack /\ Image!BitmapExact

(* copyin() and copyout() succeed exactly if the whole range is user memory,   *)
(* and have copied the bytes before the first missing page and no others;      *)
(* copyinstr() succeeds exactly if a NUL comes in time, and never asks for a   *)
(* page behind it.                                                             *)
CopiesExact == part = "copy" => Copy!RangeIn /\ Copy!RangeOut /\ Copy!StringsEnd

(* The ring of the console implements the line discipline of LineBuffer:       *)
(* consoleintr() neither overwrites unread input nor edits complete lines, and *)
(* consoleread() reads in order, also when the indices wrap; ^D leaves the     *)
(* ring only through a read that returns no bytes. The two never wait for each *)
(* other: a reader sleeps only while there is nothing to read, and a full ring *)
(* has something to read.                                                      *)
LineDiscipline ==
  /\ part = "console" => Con!Discipline!Init
  /\ [](part = "console" => Con!SleepsOnlyWhenEmpty /\ Con!FullIsReadable)
  /\ [][part = "console" => /\ Con!Discipline!Next \/ UNCHANGED Con!Discipline!vars
                            /\ Con!EofEndsEmptyRead]_services

(* What uartputc() and uartputc_sync() were given is on the line, in the       *)
(* device or in the ring, in order and once; a writer sleeps only while the    *)
(* ring is full; and characters in the ring have an interrupt coming or        *)
(* somebody in uartstart(), which gives up on a busy register.                 *)
CharsInOrder ==
  part = "serial" => Serial!CharsInOrder /\ Serial!SleepsOnlyWhenFull /\ Serial!NeverStalled

(* parsecmd() builds the tree that the grammar gives the line and fails on the *)
(* lines that have none; after nulterminate() every word reads as it was typed. *)
ParsesTheGrammar ==
  /\ part = "parse" => Parse!ParsesTheGrammar /\ Parse!WordsIntact
  /\ part = "nested" => Nested!ParsesTheGrammar

(* runcmd() starts a program with the descriptors its place in the line gives  *)
(* it and with no other end of a pipe; when the shell prompts, every process   *)
(* of the lines before has been waited for, background jobs excepted.          *)
CommandsRun ==
  /\ part = "shell" => Sh!Plumbed /\ Sh!ForegroundDone
  /\ part = "jobs" => Jobs!ForegroundDone
  /\ part = "noslot" => NoSlot!Plumbed

(* Free blocks, blocks in use and the program's own units are the heap, and no *)
(* two overlap (malloc(), free(), morecore()); the free list is a ring in the  *)
(* order of addresses with neighbours joined.                                  *)
HeapPartitioned == part = "heap" => Heap!HeapPartitioned /\ Heap!RingSorted
=============================================================================
